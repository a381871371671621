------------------------ MODULE ActiveObjectsProofs -------------------------
(***************************************************************************)
(* The static data of an active object and the ids clients know follow the *)
(* objects, and an entity is in one place, as an object, waiting or        *)
(* stored, for any number of objects, entities, blocks and clients.        *)
(***************************************************************************)
EXTENDS ActiveObjects, FiniteSetTheorems, TLAPS

MapType(m) == m \in [DOMAIN m -> MapBlock] /\ DOMAIN m \subseteq Blocks

\* Block b of map m holds static data of the active object id.
Entry(m, b, id) == b \in DOMAIN m /\ id \in DOMAIN m[b].active

\* Map m2 has no entries that m has not.
SubEntries(m2, m) ==
    \A x, i : Entry(m2, x, i) => Entry(m, x, i) /\ m2[x].active[i] = m[x].active[i]

\* Map m2 has at most one more: entity e in block b under id.
AddsEntry(m2, m, b, id, e) ==
    \A x, i : Entry(m2, x, i) =>
        \/ Entry(m, x, i) /\ m2[x].active[i] = m[x].active[i]
        \/ x = b /\ i = id /\ m2[x].active[i] = e

USE ActiveObjectsAssumption

-----------------------------------------------------------------------------
(* Tables and blocks                                                       *)

LEMMA Tables ==
    ASSUME NEW f
    PROVE  f \in EntityTables <=> f \in [DOMAIN f -> Entities] /\ DOMAIN f \subseteq Ids
BY DEF EntityTables

LEMMA NothingIsTable == Nothing \in EntityTables /\ DOMAIN Nothing = {}
<1>1. DOMAIN Nothing = {} /\ Nothing \in [DOMAIN Nothing -> Entities]
  BY DEF Nothing
<1> QED BY <1>1, Tables

LEMMA WithTable ==
    ASSUME NEW f \in EntityTables, NEW id \in Ids, NEW e \in Entities
    PROVE  /\ With(f, id, e) \in EntityTables
           /\ DOMAIN With(f, id, e) = DOMAIN f \cup {id}
           /\ With(f, id, e)[id] = e
           /\ \A i \in DOMAIN f : i # id => With(f, id, e)[i] = f[i]
<1> DEFINE g == With(f, id, e)
<1>1. f \in [DOMAIN f -> Entities] /\ DOMAIN f \subseteq Ids
  BY Tables
<1>2. g \in [DOMAIN g -> Entities] /\ DOMAIN g \subseteq Ids /\ DOMAIN g = DOMAIN f \cup {id}
  BY <1>1 DEF With
<1>3. g \in EntityTables
  BY <1>2, Tables
<1> QED BY <1>1, <1>2, <1>3 DEF With

LEMMA WithoutTable ==
    ASSUME NEW f \in EntityTables, NEW S
    PROVE  /\ Without(f, S) \in EntityTables
           /\ DOMAIN Without(f, S) = DOMAIN f \ S
           /\ \A i \in DOMAIN f \ S : Without(f, S)[i] = f[i]
<1> DEFINE g == Without(f, S)
<1>1. f \in [DOMAIN f -> Entities] /\ DOMAIN f \subseteq Ids
  BY Tables
<1>2. g \in [DOMAIN g -> Entities] /\ DOMAIN g \subseteq Ids /\ DOMAIN g = DOMAIN f \ S
  BY <1>1 DEF Without
<1>3. g \in EntityTables
  BY <1>2, Tables
<1> QED BY <1>1, <1>2, <1>3 DEF Without

LEMMA BlankBlocks ==
    /\ NoneStored \in Stored
    /\ Blank \in MapBlock
    /\ Blank.active = Nothing
<1>1. NoneStored \in Stored
  BY DEF NoneStored, Stored
<1> QED BY <1>1, NothingIsTable DEF Blank, MapBlock, Stamps

LEMMA FromDiskType ==
    ASSUME NEW s \in StoredBlock
    PROVE  FromDisk(s) \in MapBlock /\ FromDisk(s).active = Nothing
BY BlankBlocks, NothingIsTable DEF FromDisk, Blank, MapBlock, StoredBlock

LEMMA PlusType ==
    ASSUME NEW stored \in Stored, NEW e \in Entities
    PROVE  Plus(stored, e) \in Stored
BY DEF Plus, Stored

LEMMA OnDiskType ==
    ASSUME NEW block \in MapBlock
    PROVE  OnDisk(block) \in StoredBlock
<1>1. block.stored \in [Entities -> Nat] /\ block.stamp \in Stamps /\ block.active \in EntityTables
  BY DEF MapBlock, Stored
<1>2. ASSUME NEW e \in Entities
      PROVE  Cardinality({id \in DOMAIN block.active : block.active[id] = e}) \in Nat
  <2> DEFINE S == {id \in DOMAIN block.active : block.active[id] = e}
  <2>1. S \in SUBSET Ids
    BY <1>1, Tables
  <2>2. IsFiniteSet(S)
    BY <2>1, FS_Subset
  <2> QED BY <2>2, FS_CardinalityType
<1> DEFINE r == [e \in Entities |->
                    block.stored[e] + Cardinality({id \in DOMAIN block.active : block.active[id] = e})]
<1>3. r \in Stored
  <2>1. ASSUME NEW e \in Entities PROVE r[e] \in Nat
    BY <1>1, <1>2
  <2> QED BY <2>1 DEF Stored
<1>4. OnDisk(block) = [stored |-> r, stamp |-> block.stamp]
  BY DEF OnDisk
<1> HIDE DEF r
<1> QED BY <1>1, <1>3, <1>4 DEF StoredBlock

-----------------------------------------------------------------------------
(* Bringing in blocks, deleting and saving static data                     *)

DbaseType == dbase \in [DOMAIN dbase -> StoredBlock] /\ DOMAIN dbase \subseteq Blocks

\* A block that is brought in holds no active static data.
LEMMA EmergeBlock ==
    ASSUME NEW m, MapType(m), DbaseType, NEW b \in Blocks, NEW create_blank \in BOOLEAN
    PROVE  /\ MapType(emergeBlock(m, b, create_blank))
           /\ DOMAIN m \subseteq DOMAIN emergeBlock(m, b, create_blank)
           /\ DOMAIN emergeBlock(m, b, create_blank) \subseteq DOMAIN m \cup {b}
           /\ create_blank => b \in DOMAIN emergeBlock(m, b, create_blank)
           /\ \A x \in DOMAIN m : emergeBlock(m, b, create_blank)[x] = m[x]
           /\ SubEntries(emergeBlock(m, b, create_blank), m)
<1> DEFINE r == emergeBlock(m, b, create_blank)
<1>1. CASE b \in DOMAIN m
  <2>1. r = m
    BY <1>1 DEF emergeBlock
  <2> QED BY <2>1, <1>1 DEF SubEntries
<1>2. CASE b \notin DOMAIN m /\ ~(b \in DOMAIN dbase) /\ ~create_blank
  <2>1. r = m
    BY <1>2 DEF emergeBlock
  <2> QED BY <2>1, <1>2 DEF SubEntries
<1>3. CASE b \notin DOMAIN m /\ (b \in DOMAIN dbase \/ create_blank)
  <2>1. PICK block \in MapBlock : r = With(m, b, block) /\ block.active = Nothing
    <3>1. CASE b \in DOMAIN dbase
      <4>1. dbase[b] \in StoredBlock
        BY <3>1 DEF DbaseType
      <4> QED BY <1>3, <3>1, <4>1, FromDiskType DEF emergeBlock
    <3>2. CASE b \notin DOMAIN dbase
      BY <1>3, <3>2, BlankBlocks DEF emergeBlock
    <3> QED BY <3>1, <3>2
  <2> HIDE DEF r
  <2>2. /\ MapType(r) /\ DOMAIN r = DOMAIN m \cup {b} /\ r[b] = block
        /\ \A x \in DOMAIN m : x # b => r[x] = m[x]
    BY <2>1 DEF MapType, With
  <2>3. DOMAIN block.active = {}
    BY <2>1, NothingIsTable
  <2>4. ASSUME NEW x, NEW id, Entry(r, x, id)
        PROVE  Entry(m, x, id) /\ r[x].active[id] = m[x].active[id]
    <3>1. x \in DOMAIN m /\ x # b
      BY <2>4, <2>2, <2>3 DEF Entry
    <3> QED BY <3>1, <2>4, <2>2 DEF Entry
  <2>5. \A x \in DOMAIN m : r[x] = m[x]
    BY <1>3, <2>2
  <2>6. MapType(r) /\ DOMAIN m \subseteq DOMAIN r /\ DOMAIN r \subseteq DOMAIN m \cup {b}
        /\ b \in DOMAIN r
    BY <2>2
  <2>7. SubEntries(r, m)
    BY <2>4 DEF SubEntries
  <2> QED BY <2>5, <2>6, <2>7 DEF r
<1> QED BY <1>1, <1>2, <1>3

LEMMA DeleteStatic ==
    ASSUME NEW m, MapType(m), DbaseType, NEW id \in Ids, NEW o \in ServerActiveObject,
           NEW raise_modified \in BOOLEAN,
           NEW d, d = deleteStaticFromBlock(m, id, o, raise_modified)
    PROVE  /\ MapType(d.map)
           /\ d.obj \in ServerActiveObject
           /\ d.obj = o \/ d.obj = [o EXCEPT !.static_block = None]
           /\ SubEntries(d.map, m) /\ ~Entry(d.map, o.static_block, id)
<1> DEFINE b == o.static_block
           m2 == emergeBlock(m, b, FALSE)
<1>1. None \notin Blocks
  OBVIOUS
<1>2. CASE b = None
  <2>1. d = [map |-> m, obj |-> o]
    BY <1>2 DEF deleteStaticFromBlock
  <2>2. SubEntries(m, m) /\ ~Entry(m, o.static_block, id)
    BY <1>1, <1>2 DEF SubEntries, Entry, MapType
  <2> QED BY <2>1, <2>2
<1>3. CASE b # None
  <2>1. b \in Blocks
    BY <1>3 DEF ServerActiveObject
  <2>2. MapType(m2) /\ SubEntries(m2, m)
    BY <2>1, EmergeBlock
  <2>4. CASE b \notin DOMAIN m2
    <3>1. d = [map |-> m2, obj |-> o]
      BY <1>3, <2>4 DEF deleteStaticFromBlock
    <3>2. ~Entry(m2, o.static_block, id)
      BY <2>4 DEF Entry
    <3> HIDE DEF m2
    <3> QED BY <2>2, <3>1, <3>2
  <2>5. CASE b \in DOMAIN m2
    <3> DEFINE block == [m2[b] EXCEPT !.active = Without(@, {id}), !.modified = @ \/ raise_modified]
    <3>1. d = [map |-> [m2 EXCEPT ![b] = block], obj |-> [o EXCEPT !.static_block = None]]
      BY <1>3, <2>5 DEF deleteStaticFromBlock
    <3> HIDE DEF m2
    <3>2. m2[b] \in MapBlock
      BY <2>2, <2>5 DEF MapType
    <3>3. /\ Without(m2[b].active, {id}) \in EntityTables
          /\ DOMAIN Without(m2[b].active, {id}) = DOMAIN m2[b].active \ {id}
          /\ \A i \in DOMAIN m2[b].active \ {id} :
                Without(m2[b].active, {id})[i] = m2[b].active[i]
      <4>1. m2[b].active \in EntityTables
        BY <3>2 DEF MapBlock
      <4> QED BY <4>1, WithoutTable
    <3>4. block \in MapBlock /\ block.active = Without(m2[b].active, {id})
      BY <3>2, <3>3 DEF MapBlock
    <3> HIDE DEF block
    <3>5. /\ MapType(d.map) /\ DOMAIN d.map = DOMAIN m2 /\ d.map[b] = block
          /\ \A x \in DOMAIN m2 : x # b => d.map[x] = m2[x]
      BY <2>2, <2>5, <3>1, <3>4 DEF MapType
    <3>6. ASSUME NEW x, NEW i, Entry(d.map, x, i)
          PROVE  Entry(m2, x, i) /\ d.map[x].active[i] = m2[x].active[i] /\ ~(i = id /\ x = b)
      <4>1. CASE x = b
        BY <4>1, <3>3, <3>4, <3>5, <3>6 DEF Entry
      <4>2. CASE x # b
        BY <4>2, <3>5, <3>6 DEF Entry
      <4> QED BY <4>1, <4>2
    <3>7. d.obj \in ServerActiveObject /\ d.obj = [o EXCEPT !.static_block = None]
      BY <3>1 DEF ServerActiveObject
    <3>8. SubEntries(d.map, m) /\ ~Entry(d.map, b, id)
      BY <2>2, <3>6 DEF SubEntries
    <3> QED BY <3>5, <3>7, <3>8
  <2> QED BY <2>4, <2>5
<1> QED BY <1>2, <1>3

\* What is stored in a block, in memory or not, and needs a place in it.
StoredIn(m, b) == emergeBlock(m, b, TRUE)[b].stored

\* Block b of map m has as many static objects as it can take.
Full(m, b) == StoredSize(StoredIn(m, b)) >= MaxObjectsPerBlock

\* What saveStaticToBlock does: an entry more in the map or nothing.
Saved(s, m, b, store_id, o) ==
    /\ MapType(s.map) /\ s.ok \in BOOLEAN
    /\ s.obj \in ServerActiveObject
    /\ s.ok => s.obj = [o EXCEPT !.static_block = b]
    /\ ~s.ok => s.obj = o
    /\ s.ok <=> ~Full(m, b)
    /\ s.ok /\ store_id # None => AddsEntry(s.map, m, b, store_id, o.entity)
    /\ ~s.ok \/ store_id = None => SubEntries(s.map, m)

LEMMA SaveStatic ==
    ASSUME NEW m, MapType(m), DbaseType, NEW b \in Blocks, NEW store_id \in Ids \cup {None},
           NEW o \in ServerActiveObject, NEW raise_modified \in BOOLEAN,
           NEW s, s = saveStaticToBlock(m, b, store_id, o, raise_modified)
    PROVE  Saved(s, m, b, store_id, o)
<1> DEFINE m2 == emergeBlock(m, b, TRUE)
<1>1. MapType(m2) /\ b \in DOMAIN m2
  BY EmergeBlock
<1>2. SubEntries(m2, m)
  BY EmergeBlock
<1>3. CASE StoredSize(m2[b].stored) >= MaxObjectsPerBlock
  <2>1. s = [ok |-> FALSE, map |-> m2, obj |-> o]
    BY <1>3 DEF saveStaticToBlock
  <2>2. s.ok = FALSE /\ s.map = m2 /\ s.obj = o
    BY <2>1
  <2> QED BY <1>1, <1>2, <1>3, <2>2 DEF Saved, Full, StoredIn
<1>4. CASE ~(StoredSize(m2[b].stored) >= MaxObjectsPerBlock)
  <2> DEFINE stored == IF store_id = None THEN Plus(m2[b].stored, o.entity) ELSE m2[b].stored
             active == IF store_id = None THEN m2[b].active
                       ELSE With(m2[b].active, store_id, o.entity)
             block == [m2[b] EXCEPT !.stored = stored, !.active = active,
                                    !.modified = @ \/ raise_modified]
  <2>1. m2[b] \in MapBlock
    BY <1>1 DEF MapType
  <2>2. /\ stored \in Stored /\ active \in EntityTables
        /\ \A i \in DOMAIN active :
              \/ i \in DOMAIN m2[b].active /\ active[i] = m2[b].active[i]
              \/ i = store_id /\ store_id # None /\ active[i] = o.entity
    <3>1. m2[b].stored \in Stored /\ m2[b].active \in EntityTables /\ o.entity \in Entities
      BY <2>1 DEF MapBlock, ServerActiveObject
    <3> HIDE DEF m2
    <3>2. CASE store_id = None
      BY <3>1, <3>2, PlusType
    <3>3. CASE store_id # None
      <4>1. store_id \in Ids
        BY <3>3
      <4>2. /\ active = With(m2[b].active, store_id, o.entity) /\ stored = m2[b].stored
            /\ active \in EntityTables /\ DOMAIN active = DOMAIN m2[b].active \cup {store_id}
            /\ active[store_id] = o.entity
            /\ \A i \in DOMAIN m2[b].active : i # store_id => active[i] = m2[b].active[i]
        BY <3>1, <3>3, <4>1, WithTable
      <4> QED BY <3>1, <3>3, <4>2
    <3> QED BY <3>2, <3>3
  <2>3. block \in MapBlock
    BY <2>1, <2>2 DEF MapBlock
  <2>4. s = [ok |-> TRUE, map |-> [m2 EXCEPT ![b] = block], obj |-> [o EXCEPT !.static_block = b]]
    BY <1>4 DEF saveStaticToBlock
  <2> HIDE DEF m2, stored, active
  <2>5. block.active = active
    BY <2>1 DEF MapBlock
  <2> HIDE DEF block
  <2>6. /\ MapType(s.map) /\ DOMAIN s.map = DOMAIN m2 /\ s.map[b] = block
        /\ \A x \in DOMAIN m2 : x # b => s.map[x] = m2[x]
    BY <1>1, <2>3, <2>4 DEF MapType
  <2>7. ASSUME NEW x, NEW i, Entry(s.map, x, i)
        PROVE  \/ Entry(m2, x, i) /\ s.map[x].active[i] = m2[x].active[i]
               \/ /\ i = store_id /\ store_id # None /\ x = b
                  /\ s.map[x].active[i] = o.entity
    <3>1. CASE x = b
      BY <1>1, <2>2, <2>5, <2>6, <2>7, <3>1 DEF Entry
    <3>2. CASE x # b
      BY <2>6, <2>7, <3>2 DEF Entry
    <3> QED BY <3>1, <3>2
  <2>8. s.ok /\ s.obj = [o EXCEPT !.static_block = b] /\ s.obj \in ServerActiveObject
    BY <2>4 DEF ServerActiveObject
  <2>9. /\ store_id # None => AddsEntry(s.map, m, b, store_id, o.entity)
        /\ store_id = None => SubEntries(s.map, m)
    BY <1>2, <2>7 DEF SubEntries, AddsEntry
  <2>10. s.ok \in BOOLEAN /\ (s.ok <=> ~(StoredSize(m2[b].stored) >= MaxObjectsPerBlock))
    BY <1>4, <2>4
  <2> QED BY <2>6, <2>8, <2>9, <2>10 DEF m2, Saved, Full, StoredIn
<1> QED BY <1>3, <1>4

LEMMA EmergeKeepsStored ==
    ASSUME NEW m, MapType(m), DbaseType, NEW b \in Blocks, NEW x \in Blocks
    PROVE  StoredIn(emergeBlock(m, b, FALSE), x) = StoredIn(m, x)
<1>1. CASE x \in DOMAIN m
  BY <1>1 DEF StoredIn, emergeBlock, With
<1>2. CASE x \notin DOMAIN m /\ x \notin DOMAIN dbase
  BY <1>2 DEF StoredIn, emergeBlock, With
<1>3. CASE x \notin DOMAIN m /\ x \in DOMAIN dbase
  BY <1>3 DEF StoredIn, emergeBlock, With
<1> QED BY <1>1, <1>2, <1>3

LEMMA DeleteKeepsStored ==
    ASSUME NEW m, MapType(m), DbaseType, NEW id \in Ids, NEW o \in ServerActiveObject,
           NEW raise_modified \in BOOLEAN, NEW x \in Blocks
    PROVE  StoredIn(deleteStaticFromBlock(m, id, o, raise_modified).map, x) = StoredIn(m, x)
<1> DEFINE b == o.static_block
           m2 == IF b = None THEN m ELSE emergeBlock(m, b, FALSE)
           block == [m2[b] EXCEPT !.active = Without(@, {id}), !.modified = @ \/ raise_modified]
           d == deleteStaticFromBlock(m, id, o, raise_modified)
<1>1. MapType(m2) /\ StoredIn(m2, x) = StoredIn(m, x)
  <2>1. b # None => b \in Blocks
    BY DEF ServerActiveObject
  <2>2. CASE b = None
    BY <2>2
  <2>3. CASE b # None
    <3>1. m2 = emergeBlock(m, b, FALSE) /\ b \in Blocks
      BY <2>1, <2>3
    <3> HIDE DEF m2, b
    <3>2. MapType(emergeBlock(m, b, FALSE))
      BY <3>1, EmergeBlock
    <3>3. StoredIn(emergeBlock(m, b, FALSE), x) = StoredIn(m, x)
      BY <3>1, EmergeKeepsStored
    <3> QED BY <3>1, <3>2, <3>3
  <2> QED BY <2>2, <2>3
<1>2. CASE b = None \/ b \notin DOMAIN m2
  <2>1. d.map = m2
    BY <1>2 DEF deleteStaticFromBlock
  <2> QED BY <1>1, <2>1
<1>3. CASE b # None /\ b \in DOMAIN m2
  <2>1. d.map = [m2 EXCEPT ![b] = block]
    BY <1>3 DEF deleteStaticFromBlock
  <2> HIDE DEF m2, d
  <2>2. m2[b] \in MapBlock /\ block.stored = m2[b].stored
    BY <1>1, <1>3 DEF MapType, MapBlock
  <2> HIDE DEF block
  <2>3. CASE x = b
    <3>1. x \in DOMAIN d.map /\ x \in DOMAIN m2 /\ d.map[x].stored = m2[x].stored
      BY <1>1, <1>3, <2>1, <2>2, <2>3 DEF MapType
    <3>2. StoredIn(d.map, x) = StoredIn(m2, x)
      BY <3>1 DEF StoredIn, emergeBlock
    <3> QED BY <1>1, <3>2 DEF d
  <2>4. CASE x # b
    <3>1. DOMAIN d.map = DOMAIN m2 /\ (x \in DOMAIN m2 => d.map[x] = m2[x])
      BY <1>1, <1>3, <2>1, <2>4 DEF MapType
    <3>2. StoredIn(d.map, x) = StoredIn(m2, x)
      <4>1. CASE x \in DOMAIN m2
        BY <3>1, <4>1 DEF StoredIn, emergeBlock
      <4>2. CASE x \notin DOMAIN m2
        BY <3>1, <4>2 DEF StoredIn, emergeBlock, With
      <4> QED BY <4>1, <4>2
    <3> QED BY <1>1, <3>2 DEF d
  <2> QED BY <2>3, <2>4
<1> QED BY <1>2, <1>3

-----------------------------------------------------------------------------
(* Static data follows the objects                                         *)

ObjectsType(f) == f \in [DOMAIN f -> ServerActiveObject] /\ DOMAIN f \subseteq Ids

\* The entries of map m are those of the objects.
EntriesOf(m, objects) ==
    \A b, id : Entry(m, b, id) =>
        /\ id \in DOMAIN objects
        /\ objects[id].static_block = b
        /\ objects[id].entity = m[b].active[id]

\* The inductive invariant: once the server stops, what is left of the
\* objects is still to be deactivated.
IInv ==
    /\ TypeOK
    /\ StaticEntries
    /\ pc = "shutdown" => todo = Objects

LEMMA StaticEntriesOf == StaticEntries <=> EntriesOf(m_map, m_active_objects)
BY DEF StaticEntries, EntriesOf, Entry, Objects

LEMMA StaticEntriesOfNext == StaticEntries' <=> EntriesOf(m_map', m_active_objects')
BY DEF StaticEntries, EntriesOf, Entry, Objects

\* TypeOK in the terms of the lemmas.
LEMMA Types ==
    ASSUME TypeOK
    PROVE  /\ ObjectsType(m_active_objects) /\ MapType(m_map) /\ DbaseType
           /\ \A id \in Objects : id \in Ids /\ m_active_objects[id] \in ServerActiveObject
BY DEF TypeOK, ObjectsType, MapType, DbaseType, Objects

\* An object has no static data anywhere once it is deleted from its block.
LEMMA DeletedEverywhere ==
    ASSUME TypeOK, StaticEntries, NEW id \in Objects, NEW raise_modified \in BOOLEAN,
           NEW d, d = deleteStaticFromBlock(m_map, id, m_active_objects[id], raise_modified)
    PROVE  EntriesOf(d.map, m_active_objects) /\ \A x : ~Entry(d.map, x, id)
<1> DEFINE o == m_active_objects[id]
<1>1. id \in Ids /\ o \in ServerActiveObject /\ MapType(m_map) /\ DbaseType
  BY Types
<1>2. d = deleteStaticFromBlock(m_map, id, o, raise_modified)
  OBVIOUS
<1>3. SubEntries(d.map, m_map) /\ ~Entry(d.map, o.static_block, id)
  <2> HIDE DEF o
  <2> QED BY <1>1, <1>2, DeleteStatic
<1>4. EntriesOf(m_map, m_active_objects)
  BY StaticEntriesOf
<1> QED BY <1>3, <1>4 DEF EntriesOf, SubEntries

LEMMA SubEntriesOf ==
    ASSUME NEW m2, NEW m, NEW f, EntriesOf(m, f), SubEntries(m2, m)
    PROVE  EntriesOf(m2, f)
BY DEF EntriesOf, SubEntries

LEMMA ChangeObject ==
    ASSUME NEW m, NEW f, ObjectsType(f), EntriesOf(m, f), NEW id \in DOMAIN f,
           \A x : ~Entry(m, x, id), NEW o \in ServerActiveObject
    PROVE  /\ ObjectsType([f EXCEPT ![id] = o]) /\ EntriesOf(m, [f EXCEPT ![id] = o])
           /\ ObjectsType(Without(f, {id})) /\ EntriesOf(m, Without(f, {id}))
BY DEF ObjectsType, EntriesOf, Without

LEMMA WithEntry ==
    ASSUME NEW m2, NEW m, NEW f, ObjectsType(f), EntriesOf(m, f), NEW id \in DOMAIN f,
           \A x : ~Entry(m, x, id), NEW o \in ServerActiveObject,
           AddsEntry(m2, m, o.static_block, id, o.entity)
    PROVE  EntriesOf(m2, [f EXCEPT ![id] = o])
BY DEF ObjectsType, EntriesOf, AddsEntry

LEMMA NewObjectType ==
    ASSUME NEW e \in Entities, NEW b \in Blocks, NEW static_block \in Blocks \cup {None}
    PROVE  /\ NewObject(e, b, static_block) \in ServerActiveObject
           /\ NewObject(e, b, static_block).static_block = static_block
           /\ NewObject(e, b, static_block).entity = e
           /\ NewObject(e, b, static_block).known_by_count = 0
BY DEF NewObject, ServerActiveObject

-----------------------------------------------------------------------------
(* The steps of mods                                                       *)

LEMMA AddStep ==
    ASSUME IInv, NEW e \in Entities, NEW b \in Blocks, addActiveObject(e, b)
    PROVE  IInv'
<1> DEFINE static == IF e \in NotSaved THEN None ELSE b
           o == NewObject(e, b, static)
           m2 == emergeBlock(m_map, b, TRUE)
<1>1. PICK id \in FreeIds :
        /\ m_active_objects' = With(m_active_objects, id, o)
        /\ LET block == [m2[b] EXCEPT !.active = With(@, id, e), !.modified = TRUE]
           IN  m_map' = IF e \in NotSaved THEN m_map ELSE [m2 EXCEPT ![b] = block]
  BY DEF addActiveObject
<1>2. /\ pc # "shutdown" /\ pc' = pc
      /\ UNCHANGED <<dbase, m_active_blocks, m_known_objects, m_shutting_down, todo, removed, added>>
      /\ created' = created \cup {e} /\ alive' = alive \cup {e}
      /\ changes < MaxChanges /\ changes' = changes + 1
  BY DEF addActiveObject, ByMod, updateVars
<1>3. o \in ServerActiveObject /\ o.entity = e /\ o.static_block = static
  BY NewObjectType
<1>4. id \in Ids /\ id \notin Objects /\ ObjectsType(m_active_objects) /\ MapType(m_map) /\ DbaseType
      /\ EntriesOf(m_map, m_active_objects)
  BY Types, StaticEntriesOf DEF FreeIds, IInv
<1> HIDE DEF o
<1>5. ObjectsType(m_active_objects') /\ DOMAIN m_active_objects' = Objects \cup {id}
      /\ m_active_objects'[id] = o
      /\ \A i \in Objects : i # id => m_active_objects'[i] = m_active_objects[i]
  BY <1>1, <1>3, <1>4 DEF ObjectsType, With, Objects
<1>6. MapType(m_map') /\ EntriesOf(m_map', m_active_objects')
  <2>1. CASE e \in NotSaved
    BY <1>1, <1>4, <1>5, <2>1 DEF EntriesOf, Objects
  <2>2. CASE e \notin NotSaved
    <3> DEFINE block == [m2[b] EXCEPT !.active = With(@, id, e), !.modified = TRUE]
    <3>1. MapType(m2) /\ b \in DOMAIN m2 /\ SubEntries(m2, m_map)
      BY <1>4, EmergeBlock
    <3>2. EntriesOf(m2, m_active_objects)
      BY <1>4, <3>1, SubEntriesOf
    <3>3. m_map' = [m2 EXCEPT ![b] = block]
      BY <1>1, <2>2
    <3> HIDE DEF m2
    <3>4. m2[b] \in MapBlock
      BY <3>1 DEF MapType
    <3>5. /\ With(m2[b].active, id, e) \in EntityTables
          /\ DOMAIN With(m2[b].active, id, e) = DOMAIN m2[b].active \cup {id}
          /\ With(m2[b].active, id, e)[id] = e
          /\ \A i \in DOMAIN m2[b].active : i # id => With(m2[b].active, id, e)[i] = m2[b].active[i]
      <4>1. m2[b].active \in EntityTables
        BY <3>4 DEF MapBlock
      <4> QED BY <1>4, <4>1, WithTable
    <3>6. block \in MapBlock /\ block.active = With(m2[b].active, id, e)
      BY <3>4, <3>5 DEF MapBlock
    <3> HIDE DEF block
    <3>7. MapType(m_map') /\ DOMAIN m_map' = DOMAIN m2 /\ m_map'[b] = block
          /\ \A x \in DOMAIN m2 : x # b => m_map'[x] = m2[x]
      BY <3>1, <3>3, <3>6 DEF MapType
    <3>8. AddsEntry(m_map', m2, b, id, e)
      <4> SUFFICES ASSUME NEW x, NEW i, Entry(m_map', x, i)
                   PROVE  \/ Entry(m2, x, i) /\ m_map'[x].active[i] = m2[x].active[i]
                          \/ x = b /\ i = id /\ m_map'[x].active[i] = e
        BY DEF AddsEntry
      <4>1. CASE x = b
        BY <3>1, <3>5, <3>6, <3>7, <4>1 DEF Entry
      <4>2. CASE x # b
        BY <3>7, <4>2 DEF Entry
      <4> QED BY <4>1, <4>2
    <3>9. static = b
      BY <2>2
    <3>10. EntriesOf(m_map', m_active_objects')
      BY <1>3, <1>4, <1>5, <3>2, <3>8, <3>9 DEF EntriesOf, AddsEntry, Objects
    <3> QED BY <3>7, <3>10
  <2> QED BY <2>1, <2>2
<1>7. TypeOK'
  BY <1>2, <1>5, <1>6 DEF IInv, TypeOK, ObjectsType, MapType, Objects
<1> QED BY <1>2, <1>6, <1>7, StaticEntriesOfNext DEF IInv

\* A step that changes one object but not where its static data is.
LEMMA ObjectChanges ==
    ASSUME IInv, NEW id \in Objects, NEW o \in ServerActiveObject,
           o.entity = m_active_objects[id].entity,
           o.static_block = m_active_objects[id].static_block,
           m_active_objects' = [m_active_objects EXCEPT ![id] = o],
           UNCHANGED m_map
    PROVE  ObjectsType(m_active_objects') /\ MapType(m_map') /\ StaticEntries'
<1>1. ObjectsType(m_active_objects) /\ MapType(m_map) /\ EntriesOf(m_map, m_active_objects)
  BY Types, StaticEntriesOf DEF IInv
<1>2. ObjectsType(m_active_objects') /\ EntriesOf(m_map', m_active_objects')
  BY <1>1 DEF ObjectsType, EntriesOf, Objects
<1> QED BY <1>1, <1>2, StaticEntriesOfNext

LEMMA ChangeStep ==
    ASSUME IInv, NEW id \in Objects,
           setStaticSave(id) \/ markForRemoval(id) \/ \E b \in Blocks : setBasePosition(id, b)
    PROVE  IInv'
<1> DEFINE old == m_active_objects[id]
<1>1. old \in ServerActiveObject
  BY Types DEF IInv
<1>2. PICK o \in ServerActiveObject :
        /\ o.entity = old.entity /\ o.static_block = old.static_block
        /\ m_active_objects' = [m_active_objects EXCEPT ![id] = o]
  <2>1. CASE setStaticSave(id)
    <3> DEFINE o == [old EXCEPT !.static_allowed = ~@]
    <3>1. o \in ServerActiveObject /\ o.entity = old.entity /\ o.static_block = old.static_block
      BY <1>1 DEF ServerActiveObject
    <3>2. m_active_objects' = [m_active_objects EXCEPT ![id] = o]
      BY <2>1 DEF setStaticSave
    <3> QED BY <3>1, <3>2
  <2>2. CASE markForRemoval(id)
    <3> DEFINE o == [old EXCEPT !.pending_removal = TRUE]
    <3>1. o \in ServerActiveObject /\ o.entity = old.entity /\ o.static_block = old.static_block
      BY <1>1 DEF ServerActiveObject
    <3>2. m_active_objects' = [m_active_objects EXCEPT ![id] = o]
      BY <2>2 DEF markForRemoval
    <3> QED BY <3>1, <3>2
  <2>3. CASE \E b \in Blocks : setBasePosition(id, b)
    <3>0. PICK b \in Blocks : setBasePosition(id, b)
      BY <2>3
    <3> DEFINE o == [old EXCEPT !.pos = b]
    <3>1. o \in ServerActiveObject /\ o.entity = old.entity /\ o.static_block = old.static_block
      BY <1>1 DEF ServerActiveObject
    <3>2. m_active_objects' = [m_active_objects EXCEPT ![id] = o]
      BY <3>0 DEF setBasePosition
    <3> QED BY <3>1, <3>2
  <2> QED BY <2>1, <2>2, <2>3
<1>3. /\ pc # "shutdown"
      /\ UNCHANGED <<m_map, dbase, m_active_blocks, m_known_objects, m_shutting_down,
                     pc, todo, removed, added, created>>
      /\ alive' \subseteq alive
      /\ changes < MaxChanges /\ changes' = changes + 1
  BY DEF setStaticSave, markForRemoval, setBasePosition, ByMod, updateVars
<1>4. ObjectsType(m_active_objects') /\ MapType(m_map') /\ StaticEntries'
  BY <1>2, <1>3, ObjectChanges
<1>5. TypeOK'
  BY <1>3, <1>4 DEF IInv, TypeOK, ObjectsType, MapType, Objects
<1> QED BY <1>3, <1>4, <1>5 DEF IInv

LEMMA ClearStep ==
    ASSUME IInv, NEW full \in BOOLEAN, clearObjects(full)
    PROVE  IInv'
<1>1. /\ pc # "shutdown"
      /\ UNCHANGED <<m_active_blocks, m_known_objects, m_shutting_down,
                     pc, todo, removed, added, created>>
      /\ changes < MaxChanges /\ changes' = changes + 1
  BY DEF clearObjects, ByMod, updateVars
<1>2. alive' \subseteq alive
  BY DEF clearObjects, IInv, TypeOK
<1>3. ObjectsType(m_active_objects) /\ MapType(m_map) /\ DbaseType
  BY Types DEF IInv
<1>4. ObjectsType(m_active_objects')
  <2> DEFINE kept == {i \in Objects : m_active_objects[i].known_by_count > 0}
             now(o) == [o EXCEPT !.pending_removal = TRUE,
                                 !.static_block = IF @ \in DOMAIN m_map THEN None ELSE @]
  <2>1. ASSUME NEW o \in ServerActiveObject PROVE now(o) \in ServerActiveObject
    BY DEF ServerActiveObject
  <2>2. m_active_objects' = [id \in kept |-> now(m_active_objects[id])]
    BY DEF clearObjects
  <2>3. \A id \in kept : m_active_objects[id] \in ServerActiveObject /\ id \in Ids
    BY <1>3 DEF ObjectsType, Objects
  <2> HIDE DEF now, kept
  <2> QED BY <2>1, <2>2, <2>3 DEF ObjectsType
<1>5. MapType(m_map') /\ \A b \in DOMAIN m_map' : m_map'[b].active = Nothing
  <2>1. \A b \in DOMAIN m_map : m_map[b].stamp \in Stamps /\ Aged(m_map[b].stamp) \in Stamps
    BY <1>3 DEF MapType, MapBlock, Aged, Stamps
  <2>2. NoneStored \in Stored /\ Nothing \in EntityTables
    BY BlankBlocks, NothingIsTable
  <2>3. DOMAIN m_map' = DOMAIN m_map
        /\ \A b \in DOMAIN m_map : m_map'[b] \in MapBlock /\ m_map'[b].active = Nothing
    <3> SUFFICES ASSUME NEW b \in DOMAIN m_map
                 PROVE  m_map'[b] \in MapBlock /\ m_map'[b].active = Nothing
      BY DEF clearObjects
    <3>1. PICK modified, stamp :
            /\ m_map'[b] = [stored |-> NoneStored, active |-> Nothing,
                            modified |-> modified, stamp |-> stamp]
            /\ modified \in BOOLEAN
            /\ stamp = m_map[b].stamp \/ stamp = Aged(m_map[b].stamp)
      <4>1. m_map[b].modified \in BOOLEAN
        BY <1>3 DEF MapType, MapBlock
      <4> DEFINE modified == \/ m_map[b].modified
                             \/ m_map[b].stored # NoneStored \/ m_map[b].active # Nothing
                             \/ \E id \in Objects : m_active_objects[id].static_block = b
                 stamp == IF b \in m_active_blocks \ added THEN m_map[b].stamp
                          ELSE Aged(m_map[b].stamp)
      <4>2. m_map'[b] = [stored |-> NoneStored, active |-> Nothing,
                         modified |-> modified, stamp |-> stamp]
        BY DEF clearObjects
      <4>3. modified \in BOOLEAN
        OBVIOUS
      <4>4. stamp = m_map[b].stamp \/ stamp = Aged(m_map[b].stamp)
        OBVIOUS
      <4> HIDE DEF modified, stamp
      <4> QED BY <4>2, <4>3, <4>4
    <3> QED BY <2>1, <2>2, <3>1 DEF MapBlock
  <2>4. m_map' = [b \in DOMAIN m_map |-> m_map'[b]]
    BY DEF clearObjects
  <2> QED BY <1>3, <2>3, <2>4 DEF MapType
<1>6. dbase' \in [DOMAIN dbase' -> StoredBlock] /\ DOMAIN dbase' \subseteq Blocks
  <2>1. DOMAIN dbase' = DOMAIN dbase
    BY DEF clearObjects
  <2>2. ASSUME NEW b \in DOMAIN dbase PROVE dbase'[b] \in StoredBlock
    <3>1. dbase[b].stored \in Stored /\ dbase[b].stamp \in Stamps
      BY <1>3 DEF DbaseType, StoredBlock
    <3>2. Aged(dbase[b].stamp) \in Stamps /\ NoneStored \in Stored
      BY <3>1, BlankBlocks DEF Aged, Stamps
    <3> QED BY <3>1, <3>2 DEF clearObjects, StoredBlock
  <2>3. dbase' = [b \in DOMAIN dbase |-> dbase'[b]]
    BY DEF clearObjects
  <2> QED BY <1>3, <2>1, <2>2, <2>3 DEF DbaseType
<1>7. StaticEntries'
  BY <1>5, NothingIsTable DEF StaticEntries
<1>8. TypeOK'
  BY <1>1, <1>2, <1>4, <1>5, <1>6 DEF IInv, TypeOK, ObjectsType, MapType, Objects
<1> QED BY <1>1, <1>7, <1>8 DEF IInv

LEMMA DeleteBlockStep ==
    ASSUME IInv, NEW b \in Blocks, deleteBlock(b)
    PROVE  IInv'
<1>1. /\ pc # "shutdown"
      /\ UNCHANGED <<m_active_objects, m_active_blocks, m_known_objects, m_shutting_down,
                     pc, todo, removed, added, created>>
      /\ changes < MaxChanges /\ changes' = changes + 1
      /\ m_map' = Without(m_map, {b}) /\ dbase' = Without(dbase, {b})
      /\ alive' \subseteq alive
  BY DEF deleteBlock, ByMod, updateVars
<1>2. ObjectsType(m_active_objects) /\ MapType(m_map) /\ DbaseType
  BY Types DEF IInv
<1>3. MapType(m_map') /\ StaticEntries'
  BY <1>1, <1>2 DEF MapType, Without, StaticEntries, IInv, Objects
<1>4. dbase' \in [DOMAIN dbase' -> StoredBlock] /\ DOMAIN dbase' \subseteq Blocks
  BY <1>1, <1>2 DEF DbaseType, Without
<1>5. TypeOK'
  <2>1. alive' \subseteq created' /\ changes' \in 0 .. MaxChanges
    BY <1>1 DEF IInv, TypeOK
  <2>2. MapType(m_map')
    BY <1>3
  <2> QED BY <1>1, <1>4, <2>1, <2>2 DEF IInv, TypeOK, MapType, Objects
<1> QED BY <1>1, <1>3, <1>5 DEF IInv, Objects

-----------------------------------------------------------------------------
(* The update of the active blocks                                         *)

LEMMA UpdateStep ==
    ASSUME IInv, NEW new \in SUBSET Blocks, UpdateActiveBlocks(new)
    PROVE  IInv'
BY DEF UpdateActiveBlocks, IInv, TypeOK, StaticEntries, Objects

LEMMA KeepStep ==
    ASSUME IInv, NEW id \in Ids, KeepObject(id)
    PROVE  IInv'
BY DEF KeepObject, IInv, TypeOK, StaticEntries, Objects

LEMMA FinishStep ==
    ASSUME IInv, FinishUpdate
    PROVE  IInv'
BY DEF FinishUpdate, IInv, TypeOK, StaticEntries, Objects

LEMMA StampStep ==
    ASSUME IInv, StampRemoved
    PROVE  IInv'
<1>1. MapType(m_map) /\ StaticEntries
  BY Types DEF IInv
<1>2. ASSUME NEW b \in DOMAIN m_map
      PROVE  m_map'[b] \in MapBlock /\ m_map'[b].active = m_map[b].active
  <2>1. m_map[b] \in MapBlock
    BY <1>1 DEF MapType
  <2> QED BY <2>1 DEF StampRemoved, MapBlock, Stamps
<1>3. m_map' = [b \in DOMAIN m_map |-> m_map'[b]]
  BY DEF StampRemoved
<1>4. DOMAIN m_map' = DOMAIN m_map
  BY <1>3
<1>5. MapType(m_map')
  BY <1>1, <1>2, <1>3, <1>4 DEF MapType
<1>6. StaticEntries'
  <2>1. EntriesOf(m_map, m_active_objects) /\ UNCHANGED m_active_objects
    BY <1>1, StaticEntriesOf DEF StampRemoved
  <2>2. SubEntries(m_map', m_map)
    BY <1>2, <1>4 DEF SubEntries, Entry
  <2>3. EntriesOf(m_map', m_active_objects')
    BY <2>1, <2>2, SubEntriesOf
  <2> QED BY <2>3, StaticEntriesOfNext
<1>7. TypeOK'
  BY <1>5 DEF StampRemoved, IInv, TypeOK, MapType, Objects
<1> QED BY <1>6, <1>7 DEF StampRemoved, IInv

\* Object o is old but for its static block and whether it is deactivated.
SameObject(o, old) ==
    /\ o.entity = old.entity /\ o.pos = old.pos
    /\ o.known_by_count = old.known_by_count

LEMMA DeletedObject ==
    ASSUME IInv, NEW id \in Objects, NEW raise_modified \in BOOLEAN,
           NEW d, d = deleteStaticFromBlock(m_map, id, m_active_objects[id], raise_modified)
    PROVE  /\ MapType(d.map) /\ d.obj \in ServerActiveObject
           /\ SameObject(d.obj, m_active_objects[id])
           /\ EntriesOf(d.map, m_active_objects) /\ \A x : ~Entry(d.map, x, id)
<1> DEFINE o == m_active_objects[id]
<1>1. id \in Ids /\ o \in ServerActiveObject /\ MapType(m_map) /\ DbaseType
  BY Types DEF IInv
<1>2. d = deleteStaticFromBlock(m_map, id, o, raise_modified)
  OBVIOUS
<1>3. /\ MapType(d.map) /\ d.obj \in ServerActiveObject
      /\ d.obj = o \/ d.obj = [o EXCEPT !.static_block = None]
  <2> HIDE DEF o
  <2> QED BY <1>1, <1>2, DeleteStatic
<1>4. SameObject(d.obj, o)
  <2> HIDE DEF o
  <2> QED BY <1>1, <1>3 DEF SameObject, ServerActiveObject
<1>5. EntriesOf(d.map, m_active_objects) /\ \A x : ~Entry(d.map, x, id)
  BY DeletedEverywhere DEF IInv
<1> QED BY <1>3, <1>4, <1>5

LEMMA ResaveStep ==
    ASSUME IInv, NEW id \in Ids, ResaveObject(id)
    PROVE  /\ IInv'
           /\ \E o \in ServerActiveObject :
                 /\ m_active_objects' = [m_active_objects EXCEPT ![id] = o]
                 /\ SameObject(o, m_active_objects[id])
<1>1. /\ id \in Objects /\ pc = "deactivate" /\ pc' = pc /\ todo' = todo \ {id}
      /\ UNCHANGED <<dbase, m_active_blocks, m_known_objects, m_shutting_down,
                     removed, added, created, alive, changes>>
  BY DEF ResaveObject
<1> DEFINE old == m_active_objects[id]
           d == deleteStaticFromBlock(m_map, id, old, TRUE)
           s == saveStaticToBlock(d.map, old.pos, id, d.obj, TRUE)
<1>2. m_active_objects' = [m_active_objects EXCEPT ![id] = s.obj] /\ m_map' = s.map
  BY DEF ResaveObject
<1>3. /\ MapType(d.map) /\ d.obj \in ServerActiveObject /\ SameObject(d.obj, old)
      /\ EntriesOf(d.map, m_active_objects) /\ \A x : ~Entry(d.map, x, id)
  BY <1>1, DeletedObject
<1>4. ObjectsType(m_active_objects) /\ DbaseType /\ old.pos \in Blocks /\ id \in DOMAIN m_active_objects
  BY <1>1, Types DEF IInv, ServerActiveObject, Objects
<1>5. s = saveStaticToBlock(d.map, old.pos, id, d.obj, TRUE)
  OBVIOUS
<1> HIDE DEF d, s
<1>6. None \notin Ids
  OBVIOUS
<1>7. /\ MapType(s.map) /\ s.ok \in BOOLEAN /\ s.obj \in ServerActiveObject
      /\ s.ok => s.obj = [d.obj EXCEPT !.static_block = old.pos]
      /\ ~s.ok => s.obj = d.obj
      /\ s.ok => AddsEntry(s.map, d.map, old.pos, id, d.obj.entity)
      /\ ~s.ok => SubEntries(s.map, d.map)
  <2>1. Saved(s, d.map, old.pos, id, d.obj)
    BY <1>3, <1>4, <1>5, SaveStatic
  <2> QED BY <1>6, <2>1 DEF Saved
<1>8. /\ SameObject(s.obj, old)
      /\ s.ok => s.obj.static_block = old.pos /\ s.obj.entity = d.obj.entity
  BY <1>3, <1>7 DEF SameObject, ServerActiveObject
<1>9. ObjectsType(m_active_objects') /\ EntriesOf(m_map', m_active_objects')
  <2>1. CASE s.ok
    <3>1. AddsEntry(s.map, d.map, s.obj.static_block, id, s.obj.entity)
      BY <1>7, <1>8, <2>1
    <3>2. EntriesOf(s.map, [m_active_objects EXCEPT ![id] = s.obj])
      BY <1>3, <1>4, <1>7, <3>1, WithEntry
    <3> QED BY <1>2, <1>3, <1>4, <1>7, <3>2, ChangeObject
  <2>2. CASE ~s.ok
    <3>1. EntriesOf(s.map, m_active_objects) /\ \A x : ~Entry(s.map, x, id)
      BY <1>3, <1>7, <2>2, SubEntriesOf DEF SubEntries
    <3> QED BY <1>2, <1>4, <1>7, <3>1, ChangeObject
  <2> QED BY <1>7, <2>1, <2>2
<1>10. TypeOK'
  <2>1. MapType(m_map')
    BY <1>2, <1>7
  <2> QED BY <1>1, <1>9, <2>1 DEF IInv, TypeOK, ObjectsType, MapType, Objects
<1>11. IInv'
  BY <1>1, <1>9, <1>10, StaticEntriesOfNext DEF IInv
<1> QED BY <1>2, <1>7, <1>8, <1>11

\* Every block has room for one more object.
RoomInBlocks == \A b \in Blocks : ~Full(m_map, b)

LEMMA Deactivates ==
    ASSUME IInv, NEW id \in Objects, NEW pending \in BOOLEAN, NEW data_changed \in BOOLEAN,
           DeactivateObject(id, pending, data_changed)
    PROVE  /\ ObjectsType(m_active_objects') /\ MapType(m_map') /\ StaticEntries'
           /\ alive' \subseteq alive
           /\ \/ /\ m_active_objects' = Without(m_active_objects, {id})
                 /\ ~pending \/ ~RoomInBlocks
              \/ /\ pending
                 /\ \E o \in ServerActiveObject :
                       /\ m_active_objects' = [m_active_objects EXCEPT ![id] = o]
                       /\ SameObject(o, m_active_objects[id])
<1> DEFINE old == m_active_objects[id]
           shall_be_written == old.static_block # old.pos \/ data_changed
           raise_modified == old.static_allowed => shall_be_written
           d == deleteStaticFromBlock(m_map, id, old, raise_modified)
           store_id == IF pending THEN id ELSE None
           s == IF old.static_allowed
                THEN saveStaticToBlock(d.map, old.pos, store_id, d.obj, shall_be_written)
                ELSE [ok |-> TRUE, map |-> d.map, obj |-> d.obj]
<1>1. /\ m_map' = s.map
      /\ m_active_objects' =
           IF pending /\ s.ok
           THEN [m_active_objects EXCEPT ![id] = [s.obj EXCEPT !.pending_deactivation = TRUE]]
           ELSE Without(m_active_objects, {id})
      /\ alive' = IF old.static_allowed /\ s.ok THEN alive ELSE alive \ {old.entity}
  BY DEF DeactivateObject
<1>2. /\ ObjectsType(m_active_objects) /\ MapType(m_map) /\ DbaseType
      /\ id \in DOMAIN m_active_objects /\ id \in Ids
      /\ old \in ServerActiveObject /\ old.pos \in Blocks /\ old.static_allowed \in BOOLEAN
  BY Types DEF IInv, ServerActiveObject, Objects
<1>3. shall_be_written \in BOOLEAN /\ raise_modified \in BOOLEAN
  OBVIOUS
<1>4. d = deleteStaticFromBlock(m_map, id, old, raise_modified)
  OBVIOUS
<1>5. /\ store_id \in Ids \cup {None} /\ (pending <=> store_id # None)
      /\ pending => store_id = id
  BY <1>2
<1>6. /\ old.static_allowed => s = saveStaticToBlock(d.map, old.pos, store_id, d.obj, shall_be_written)
      /\ ~old.static_allowed => s = [ok |-> TRUE, map |-> d.map, obj |-> d.obj]
  OBVIOUS
<1> HIDE DEF shall_be_written, raise_modified, d, store_id, s
<1>7. /\ MapType(d.map) /\ d.obj \in ServerActiveObject /\ SameObject(d.obj, old)
      /\ EntriesOf(d.map, m_active_objects) /\ \A x : ~Entry(d.map, x, id)
  BY <1>3, <1>4, DeletedObject
<1>8. /\ MapType(s.map) /\ s.ok \in BOOLEAN /\ s.obj \in ServerActiveObject
      /\ SameObject(s.obj, old)
      /\ \/ SubEntries(s.map, d.map)
         \/ pending /\ s.ok /\ AddsEntry(s.map, d.map, s.obj.static_block, id, s.obj.entity)
      /\ RoomInBlocks => s.ok
  <2>1. CASE ~old.static_allowed
    <3>1. s.ok = TRUE /\ s.map = d.map /\ s.obj = d.obj
      BY <1>6, <2>1
    <3> QED BY <1>7, <3>1 DEF SubEntries
  <2>2. CASE old.static_allowed
    <3>1. s = saveStaticToBlock(d.map, old.pos, store_id, d.obj, shall_be_written)
      BY <1>6, <2>2
    <3>0. Saved(s, d.map, old.pos, store_id, d.obj)
      BY <1>2, <1>3, <1>5, <1>7, <3>1, SaveStatic
    <3>2. /\ MapType(s.map) /\ s.ok \in BOOLEAN /\ s.obj \in ServerActiveObject
          /\ s.ok => s.obj = [d.obj EXCEPT !.static_block = old.pos]
          /\ ~s.ok => s.obj = d.obj
          /\ s.ok /\ store_id # None => AddsEntry(s.map, d.map, old.pos, store_id, d.obj.entity)
          /\ ~s.ok \/ store_id = None => SubEntries(s.map, d.map)
      BY <3>0 DEF Saved
    <3>3. s.ok <=> ~Full(d.map, old.pos)
      BY <3>0 DEF Saved
    <3>4. SameObject(s.obj, old)
          /\ (s.ok => s.obj.static_block = old.pos /\ s.obj.entity = d.obj.entity)
      BY <1>7, <3>2 DEF SameObject, ServerActiveObject
    <3>5. RoomInBlocks => s.ok
      <4>1. StoredIn(d.map, old.pos) = StoredIn(m_map, old.pos)
        BY <1>2, <1>3, <1>4, DeleteKeepsStored
      <4> QED BY <1>2, <3>3, <4>1 DEF RoomInBlocks, Full
    <3> QED BY <1>5, <3>2, <3>4, <3>5
  <2> QED BY <1>2, <2>1, <2>2
<1>9. CASE pending /\ s.ok
  <2> DEFINE o == [s.obj EXCEPT !.pending_deactivation = TRUE]
  <2>1. o \in ServerActiveObject /\ SameObject(o, old) /\ o.static_block = s.obj.static_block
        /\ o.entity = s.obj.entity
    BY <1>8 DEF SameObject, ServerActiveObject
  <2>2. m_active_objects' = [m_active_objects EXCEPT ![id] = o]
    BY <1>1, <1>9
  <2> HIDE DEF o
  <2>3. EntriesOf(s.map, [m_active_objects EXCEPT ![id] = o])
    <3>1. CASE SubEntries(s.map, d.map)
      <4>1. EntriesOf(s.map, m_active_objects) /\ \A x : ~Entry(s.map, x, id)
        BY <1>7, <3>1, SubEntriesOf DEF SubEntries
      <4> QED BY <1>2, <2>1, <4>1, ChangeObject
    <3>2. CASE AddsEntry(s.map, d.map, s.obj.static_block, id, s.obj.entity)
      <4>1. AddsEntry(s.map, d.map, o.static_block, id, o.entity)
        BY <2>1, <3>2
      <4> QED BY <1>2, <1>7, <2>1, <4>1, WithEntry
    <3> QED BY <1>8, <3>1, <3>2
  <2>4. ObjectsType([m_active_objects EXCEPT ![id] = o])
    BY <1>2, <2>1 DEF ObjectsType
  <2>5. alive' \subseteq alive
    BY <1>1
  <2> QED BY <1>1, <1>8, <1>9, <2>1, <2>2, <2>3, <2>4, <2>5, StaticEntriesOfNext
<1>10. CASE ~(pending /\ s.ok)
  <2>1. m_active_objects' = Without(m_active_objects, {id})
    BY <1>1, <1>10
  <2>2. SubEntries(s.map, d.map)
    BY <1>8, <1>10
  <2>3. EntriesOf(s.map, m_active_objects) /\ \A x : ~Entry(s.map, x, id)
    BY <1>7, <2>2, SubEntriesOf DEF SubEntries
  <2>4. ObjectsType(Without(m_active_objects, {id})) /\ EntriesOf(s.map, Without(m_active_objects, {id}))
    BY <1>2, <2>3, ChangeObject
  <2>5. alive' \subseteq alive /\ (~pending \/ ~RoomInBlocks)
    BY <1>1, <1>8, <1>10
  <2> QED BY <1>1, <1>8, <2>1, <2>4, <2>5, StaticEntriesOfNext
<1> QED BY <1>9, <1>10

LEMMA FarStep ==
    ASSUME IInv, NEW id \in Ids, DeactivateFar(id)
    PROVE  IInv'
<1>1. /\ id \in Objects /\ pc = "deactivate" /\ pc' = pc /\ todo' = todo \ {id}
      /\ UNCHANGED <<dbase, m_active_blocks, m_known_objects, m_shutting_down,
                     removed, added, created, changes>>
  BY DEF DeactivateFar
<1>2. PICK pending \in BOOLEAN, data_changed \in BOOLEAN :
        DeactivateObject(id, pending, data_changed)
  <2>1. DataChanged(id) \subseteq BOOLEAN
    BY DEF DataChanged
  <2>2. (m_active_objects[id].known_by_count > 0) \in BOOLEAN
    OBVIOUS
  <2> QED BY <2>1, <2>2 DEF DeactivateFar
<1>3. ObjectsType(m_active_objects') /\ MapType(m_map') /\ StaticEntries' /\ alive' \subseteq alive
  BY <1>1, <1>2, Deactivates
<1>4. TypeOK'
  BY <1>1, <1>3 DEF IInv, TypeOK, ObjectsType, MapType, Objects
<1> QED BY <1>1, <1>3, <1>4 DEF IInv

LEMMA ForcedStep ==
    ASSUME IInv, NEW id \in Ids, DeactivateForced(id)
    PROVE  IInv'
<1>1. /\ pc = "shutdown" /\ pc' = pc /\ id \in todo /\ todo' = todo \ {id}
      /\ UNCHANGED <<dbase, m_active_blocks, m_known_objects, m_shutting_down,
                     removed, added, created, changes>>
  BY DEF DeactivateForced
<1>2. PICK data_changed \in BOOLEAN : DeactivateObject(id, FALSE, data_changed)
  <2>1. DataChanged(id) \subseteq BOOLEAN
    BY DEF DataChanged
  <2> QED BY <2>1 DEF DeactivateForced
<1>3. id \in Objects
  BY <1>1 DEF IInv
<1>4. /\ ObjectsType(m_active_objects') /\ MapType(m_map') /\ StaticEntries'
      /\ alive' \subseteq alive /\ m_active_objects' = Without(m_active_objects, {id})
  BY <1>2, <1>3, Deactivates
<1>5. todo' = Objects'
  BY <1>1, <1>4 DEF Without, Objects, IInv
<1>6. TypeOK'
  BY <1>1, <1>4 DEF IInv, TypeOK, ObjectsType, MapType, Objects
<1> QED BY <1>4, <1>5, <1>6 DEF IInv

-----------------------------------------------------------------------------
(* Activation                                                              *)

LEMMA ActivatesObjects ==
    ASSUME IInv, NEW b \in DOMAIN m_map, ActivateObjects(b)
    PROVE  /\ ObjectsType(m_active_objects') /\ MapType(m_map') /\ StaticEntries'
           /\ alive' \subseteq alive
           /\ Objects \subseteq DOMAIN m_active_objects'
           /\ \A id \in Objects : m_active_objects'[id] = m_active_objects[id]
           /\ \A id \in DOMAIN m_active_objects' \ Objects :
                 m_active_objects'[id].known_by_count = 0
<1> DEFINE block == m_map[b]
           stored == IF block.stamp = "old" THEN {} ELSE CopiesIn(block.stored)
<1>1. /\ ObjectsType(m_active_objects) /\ MapType(m_map) /\ block \in MapBlock /\ b \in Blocks
      /\ EntriesOf(m_map, m_active_objects)
  BY Types, StaticEntriesOf DEF IInv, MapType
<1>2. PICK made, id_of, modified :
        made \subseteq stored /\ id_of \in Injection(made, FreeIds) /\ modified \in BOOLEAN /\
        LET ids == Range(id_of)
            entity_of == [id \in ids |-> (CHOOSE copy \in made : id_of[copy] = id)[1]]
        IN
        /\ m_active_objects' = [id \in Objects \cup ids |->
               IF id \in ids THEN NewObject(entity_of[id], b, b) ELSE m_active_objects[id]]
        /\ m_map' = [m_map EXCEPT ![b] =
               [stored |-> NoneStored,
                active |-> [id \in DOMAIN block.active \cup ids |->
                               IF id \in ids THEN entity_of[id] ELSE block.active[id]],
                modified |-> modified,
                stamp |-> "current"]]
        /\ alive' \subseteq alive
  <2>1. \A x \in BOOLEAN : (block.modified \/ x) \in BOOLEAN
    OBVIOUS
  <2> QED BY <2>1 DEF ActivateObjects
<1> DEFINE ids == Range(id_of)
           entity_of == [id \in ids |-> (CHOOSE copy \in made : id_of[copy] = id)[1]]
           active == [id \in DOMAIN block.active \cup ids |->
                         IF id \in ids THEN entity_of[id] ELSE block.active[id]]
           now == [stored |-> NoneStored, active |-> active, modified |-> modified,
                   stamp |-> "current"]
<1>3. /\ m_active_objects' = [id \in Objects \cup ids |->
             IF id \in ids THEN NewObject(entity_of[id], b, b) ELSE m_active_objects[id]]
      /\ m_map' = [m_map EXCEPT ![b] = now]
  BY <1>2
<1>4. ids \subseteq Ids \ Objects
  BY <1>2 DEF Range, Injection, FreeIds
<1>5. \A id \in ids : entity_of[id] \in Entities
  <2>1. \A copy \in made : copy[1] \in Entities
    BY <1>2 DEF CopiesIn
  <2> QED BY <1>2, <2>1 DEF Range, Injection
<1> HIDE DEF ids, entity_of, block
<1>6. active \in EntityTables
  <2>1. block.active \in [DOMAIN block.active -> Entities] /\ DOMAIN block.active \subseteq Ids
    BY <1>1, Tables DEF MapBlock
  <2>2. active \in [DOMAIN active -> Entities] /\ DOMAIN active \subseteq Ids
    BY <1>4, <1>5, <2>1
  <2> QED BY <2>2, Tables
<1>7. now \in MapBlock /\ now.active = active
  <2> HIDE DEF active
  <2> QED BY <1>2, <1>6, BlankBlocks DEF MapBlock, Stamps
<1>8. /\ DOMAIN active = DOMAIN block.active \cup ids
      /\ \A id \in ids : active[id] = entity_of[id]
      /\ \A id \in DOMAIN block.active \ ids : active[id] = block.active[id]
  OBVIOUS
<1> HIDE DEF active, now
<1>9. /\ MapType(m_map') /\ DOMAIN m_map' = DOMAIN m_map /\ m_map'[b] = now
      /\ \A x \in DOMAIN m_map : x # b => m_map'[x] = m_map[x]
  BY <1>1, <1>3, <1>7 DEF MapType
<1>10. \A id \in ids : /\ NewObject(entity_of[id], b, b) \in ServerActiveObject
                       /\ NewObject(entity_of[id], b, b).static_block = b
                       /\ NewObject(entity_of[id], b, b).entity = entity_of[id]
                       /\ NewObject(entity_of[id], b, b).known_by_count = 0
  BY <1>1, <1>5, NewObjectType
<1>11. /\ ObjectsType(m_active_objects') /\ DOMAIN m_active_objects' = Objects \cup ids
       /\ \A id \in ids : m_active_objects'[id] = NewObject(entity_of[id], b, b)
       /\ \A id \in Objects : m_active_objects'[id] = m_active_objects[id]
  BY <1>1, <1>3, <1>4, <1>10 DEF ObjectsType, Objects
<1>12. EntriesOf(m_map', m_active_objects')
  <2> SUFFICES ASSUME NEW x, NEW id, Entry(m_map', x, id)
               PROVE  /\ id \in DOMAIN m_active_objects'
                      /\ m_active_objects'[id].static_block = x
                      /\ m_active_objects'[id].entity = m_map'[x].active[id]
    BY DEF EntriesOf
  <2>1. CASE x = b /\ id \in ids
    BY <1>7, <1>8, <1>9, <1>10, <1>11, <2>1
  <2>2. CASE ~(x = b /\ id \in ids)
    <3>1. Entry(m_map, x, id) /\ m_map'[x].active[id] = m_map[x].active[id]
      BY <1>7, <1>8, <1>9, <2>2 DEF Entry, block
    <3> QED BY <1>1, <1>11, <3>1 DEF EntriesOf, Objects
  <2> QED BY <2>1, <2>2
<1> QED BY <1>2, <1>9, <1>10, <1>11, <1>12, StaticEntriesOfNext

LEMMA ActivateStep ==
    ASSUME IInv, NEW b \in Blocks, ActivateBlock(b)
    PROVE  IInv'
<1>1. /\ pc = "activate" /\ pc' = pc /\ added' = added \ {b}
      /\ UNCHANGED <<dbase, m_known_objects, m_shutting_down, todo, removed, created, changes>>
      /\ m_active_blocks' \subseteq m_active_blocks
  BY DEF ActivateBlock
<1>2. ObjectsType(m_active_objects') /\ MapType(m_map') /\ StaticEntries' /\ alive' \subseteq alive
  <2>1. CASE b \in DOMAIN m_map
    BY <2>1, ActivatesObjects DEF ActivateBlock
  <2>2. CASE b \notin DOMAIN m_map
    <3>1. UNCHANGED <<m_active_objects, m_map, alive>>
      BY <2>2 DEF ActivateBlock
    <3> QED BY <3>1, Types DEF IInv, ObjectsType, MapType, StaticEntries, Objects
  <2> QED BY <2>1, <2>2
<1>3. TypeOK'
  BY <1>1, <1>2 DEF IInv, TypeOK, ObjectsType, MapType, Objects
<1> QED BY <1>1, <1>2, <1>3 DEF IInv

-----------------------------------------------------------------------------
(* Objects that are gone, and the clients that know them                   *)

\* The map when the static data of object id, entity e in block b, is stored.
Moved(m, b, id, e) ==
    [m[b] EXCEPT !.stored = Plus(@, e), !.active = Without(@, {id}), !.modified = TRUE]
Stores(m, b, id, e) ==
    IF b \in DOMAIN m /\ id \in DOMAIN m[b].active THEN [m EXCEPT ![b] = Moved(m, b, id, e)]
    ELSE m

\* An object whose static data is stored has none left in the map.
LEMMA StoresObject ==
    ASSUME NEW m, MapType(m), NEW f, EntriesOf(m, f), NEW id \in Ids, NEW b \in Blocks,
           b = f[id].static_block, NEW e \in Entities
    PROVE  /\ MapType(Stores(m, b, id, e)) /\ EntriesOf(Stores(m, b, id, e), f)
           /\ \A x : ~Entry(Stores(m, b, id, e), x, id)
<1> DEFINE m2 == Stores(m, b, id, e)
           block == Moved(m, b, id, e)
<1>1. CASE ~(b \in DOMAIN m /\ id \in DOMAIN m[b].active)
  <2>1. m2 = m
    BY <1>1 DEF Stores
  <2>2. \A x : ~Entry(m, x, id)
    BY <1>1 DEF EntriesOf, Entry
  <2> QED BY <2>1, <2>2
<1>2. CASE b \in DOMAIN m /\ id \in DOMAIN m[b].active
  <2>1. m2 = [m EXCEPT ![b] = block]
    BY <1>2 DEF Stores
  <2>2. m[b] \in MapBlock
    BY <1>2 DEF MapType
  <2>3. /\ Without(m[b].active, {id}) \in EntityTables
        /\ DOMAIN Without(m[b].active, {id}) = DOMAIN m[b].active \ {id}
        /\ \A i \in DOMAIN m[b].active \ {id} : Without(m[b].active, {id})[i] = m[b].active[i]
    <3>1. m[b].active \in EntityTables
      BY <2>2 DEF MapBlock
    <3> QED BY <3>1, WithoutTable, ZenonT(30)
  <2>4. Plus(m[b].stored, e) \in Stored
    <3>1. m[b].stored \in Stored
      BY <2>2 DEF MapBlock
    <3> QED BY <3>1, PlusType
  <2>5. block \in MapBlock /\ block.active = Without(m[b].active, {id})
    BY <2>2, <2>3, <2>4 DEF MapBlock, Moved
  <2> HIDE DEF m2, block
  <2>6. /\ MapType(m2) /\ DOMAIN m2 = DOMAIN m /\ m2[b] = block
        /\ \A x \in DOMAIN m : x # b => m2[x] = m[x]
    BY <1>2, <2>1, <2>5 DEF MapType
  <2>7. ASSUME NEW x, NEW i, Entry(m2, x, i)
        PROVE  /\ Entry(m, x, i) /\ m2[x].active[i] = m[x].active[i]
               /\ ~(i = id /\ x = b)
    <3>1. CASE x = b
      BY <1>2, <2>3, <2>5, <2>6, <2>7, <3>1 DEF Entry
    <3>2. CASE x # b
      BY <2>6, <2>7, <3>2 DEF Entry
    <3> QED BY <3>1, <3>2
  <2>8. EntriesOf(m2, f)
    BY <2>7 DEF EntriesOf
  <2>9. \A x : ~Entry(m2, x, id)
    BY <2>7, <2>8 DEF EntriesOf
  <2> QED BY <2>6, <2>8, <2>9 DEF m2
<1> QED BY <1>1, <1>2

LEMMA GoneStep ==
    ASSUME IInv, NEW id \in Objects, removeRemovedObject(id)
    PROVE  /\ IInv'
           /\ \/ /\ m_active_objects[id].known_by_count = 0
                 /\ m_active_objects' = Without(m_active_objects, {id})
              \/ \E o \in ServerActiveObject :
                    /\ m_active_objects' = [m_active_objects EXCEPT ![id] = o]
                    /\ SameObject(o, m_active_objects[id])
<1> DEFINE old == m_active_objects[id]
           b == old.static_block
           d == IF old.pending_removal THEN deleteStaticFromBlock(m_map, id, old, TRUE)
                ELSE [map |-> m_map, obj |-> old]
           stores == ~old.pending_removal /\ b # None
           m == emergeBlock(m_map, b, FALSE)
           m2 == Stores(m, b, id, old.entity)
<1>1. /\ pc = "idle" /\ UNCHANGED <<pc, todo, removed, added>>
      /\ UNCHANGED <<dbase, m_active_blocks, m_known_objects, m_shutting_down,
                     created, alive, changes>>
  BY DEF removeRemovedObject, updateVars
<1>2. /\ old.known_by_count > 0 =>
            m_active_objects' = [m_active_objects EXCEPT ![id] = d.obj] /\ m_map' = d.map
      /\ ~(old.known_by_count > 0) =>
            /\ m_active_objects' = Without(m_active_objects, {id})
            /\ m_map' = IF stores THEN m2 ELSE d.map
  BY DEF removeRemovedObject, Stores, Moved
<1>3. /\ ObjectsType(m_active_objects) /\ MapType(m_map) /\ DbaseType
      /\ EntriesOf(m_map, m_active_objects)
      /\ id \in Ids /\ id \in DOMAIN m_active_objects /\ old \in ServerActiveObject
      /\ old.known_by_count \in Nat /\ b \in Blocks \cup {None}
  BY Types, StaticEntriesOf DEF IInv, ServerActiveObject, Objects
<1>4. /\ MapType(d.map) /\ d.obj \in ServerActiveObject /\ SameObject(d.obj, old)
      /\ EntriesOf(d.map, m_active_objects)
      /\ (\A x : ~Entry(d.map, x, id)) \/ (d.map = m_map /\ d.obj = old /\ ~old.pending_removal)
  <2>1. CASE old.pending_removal
    <3>1. d = deleteStaticFromBlock(m_map, id, old, TRUE)
      BY <2>1
    <3> HIDE DEF d
    <3> QED BY <3>1, DeletedObject
  <2>2. CASE ~old.pending_removal
    <3>1. d.map = m_map /\ d.obj = old
      BY <2>2
    <3> HIDE DEF d
    <3> QED BY <1>3, <2>2, <3>1 DEF SameObject
  <2> QED BY <2>1, <2>2
<1> HIDE DEF d
<1>5. /\ ObjectsType(m_active_objects') /\ MapType(m_map')
      /\ EntriesOf(m_map', m_active_objects')
      /\ \/ old.known_by_count = 0 /\ m_active_objects' = Without(m_active_objects, {id})
         \/ \E o \in ServerActiveObject :
               /\ m_active_objects' = [m_active_objects EXCEPT ![id] = o]
               /\ SameObject(o, old)
  <2>1. CASE old.known_by_count > 0
    <3>1. m_active_objects' = [m_active_objects EXCEPT ![id] = d.obj] /\ m_map' = d.map
      BY <1>2, <2>1
    <3>2. ObjectsType(m_active_objects') /\ EntriesOf(m_map', m_active_objects')
      <4>1. CASE \A x : ~Entry(d.map, x, id)
        BY <1>3, <1>4, <3>1, <4>1, ChangeObject
      <4>2. CASE d.map = m_map /\ d.obj = old
        <5>1. m_active_objects' = m_active_objects
          BY <1>3, <3>1, <4>2 DEF ObjectsType
        <5> QED BY <1>3, <3>1, <4>2, <5>1
      <4> QED BY <1>4, <4>1, <4>2
    <3> QED BY <1>4, <3>1, <3>2
  <2>2. CASE ~(old.known_by_count > 0)
    <3>0. old.known_by_count = 0
      BY <1>3, <2>2
    <3>1. old.known_by_count = 0 /\ m_active_objects' = Without(m_active_objects, {id})
      BY <1>2, <2>2, <3>0
    <3>2. MapType(m_map') /\ EntriesOf(m_map', m_active_objects)
          /\ \A x : ~Entry(m_map', x, id)
      <4>1. CASE stores
        <5>1. b \in Blocks /\ m_map' = m2
          BY <1>2, <1>3, <2>2, <4>1
        <5>2. MapType(m) /\ EntriesOf(m, m_active_objects)
          <6>1. MapType(m) /\ SubEntries(m, m_map)
            BY <1>3, <5>1, EmergeBlock
          <6> QED BY <1>3, <6>1, SubEntriesOf
        <5>3. old.entity \in Entities /\ b = m_active_objects[id].static_block
          BY <1>3 DEF ServerActiveObject
        <5>4. MapType(m2) /\ EntriesOf(m2, m_active_objects) /\ \A x : ~Entry(m2, x, id)
          <6> HIDE DEF b, m
          <6> QED BY <1>3, <5>1, <5>2, <5>3, StoresObject
        <5> QED BY <5>1, <5>4
      <4>2. CASE ~stores
        <5>1. m_map' = d.map
          BY <1>2, <2>2, <4>2
        <5>2. \A x : ~Entry(d.map, x, id)
          <6>1. CASE d.map = m_map /\ ~old.pending_removal
            <7>1. b = None /\ None \notin Blocks
              BY <4>2, <6>1
            <7> QED BY <1>3, <6>1, <7>1 DEF EntriesOf, Entry, MapType
          <6> QED BY <1>4, <6>1
        <5> QED BY <1>4, <5>1, <5>2
      <4> QED BY <4>1, <4>2
    <3>3. ObjectsType(m_active_objects') /\ EntriesOf(m_map', m_active_objects')
      BY <1>3, <3>1, <3>2, ChangeObject
    <3> QED BY <3>1, <3>2, <3>3
  <2> QED BY <2>1, <2>2
<1>6. TypeOK'
  BY <1>1, <1>5 DEF IInv, TypeOK, ObjectsType, MapType, Objects
<1> QED BY <1>1, <1>5, <1>6, StaticEntriesOfNext DEF IInv

LEMMA RecountedType ==
    ASSUME IInv, NEW c \in Clients, NEW now, m_active_objects' = Recounted(c, now)
    PROVE  /\ ObjectsType(m_active_objects') /\ DOMAIN m_active_objects' = Objects
           /\ \A id \in Objects :
                 /\ m_active_objects'[id].static_block = m_active_objects[id].static_block
                 /\ m_active_objects'[id].entity = m_active_objects[id].entity
                 /\ id \in now \ Known(c) =>
                       m_active_objects'[id].known_by_count = m_active_objects[id].known_by_count + 1
                 /\ id \in Known(c) \ now /\ m_active_objects[id].known_by_count > 0 =>
                       m_active_objects'[id].known_by_count = m_active_objects[id].known_by_count - 1
                 /\ ~(id \in now \ Known(c)) /\ ~(id \in Known(c) \ now) =>
                       m_active_objects'[id].known_by_count = m_active_objects[id].known_by_count
<1> DEFINE Count(id) == LET n == m_active_objects[id].known_by_count IN
                        IF id \in now \ Known(c) THEN n + 1
                        ELSE IF id \in Known(c) \ now /\ n > 0 THEN n - 1
                        ELSE n
<1>1. ObjectsType(m_active_objects)
  BY Types DEF IInv
<1>2. ASSUME NEW id \in Objects
      PROVE  m_active_objects[id] \in ServerActiveObject /\ Count(id) \in Nat
  <2>1. m_active_objects[id] \in ServerActiveObject
    BY <1>1 DEF ObjectsType, Objects
  <2>2. m_active_objects[id].known_by_count \in Nat
    BY <2>1 DEF ServerActiveObject
  <2> QED BY <2>1, <2>2
<1>3. m_active_objects' = [id \in Objects |-> [m_active_objects[id] EXCEPT !.known_by_count = Count(id)]]
  BY DEF Recounted
<1>4. \A id \in Objects :
        /\ id \in now \ Known(c) => Count(id) = m_active_objects[id].known_by_count + 1
        /\ id \in Known(c) \ now /\ m_active_objects[id].known_by_count > 0 =>
              Count(id) = m_active_objects[id].known_by_count - 1
        /\ ~(id \in now \ Known(c)) /\ ~(id \in Known(c) \ now) =>
              Count(id) = m_active_objects[id].known_by_count
  OBVIOUS
<1> HIDE DEF Count
<1>5. \A id \in Objects :
        /\ m_active_objects'[id] \in ServerActiveObject
        /\ m_active_objects'[id].static_block = m_active_objects[id].static_block
        /\ m_active_objects'[id].entity = m_active_objects[id].entity
        /\ m_active_objects'[id].known_by_count = Count(id)
  BY <1>2, <1>3 DEF ServerActiveObject
<1>6. DOMAIN m_active_objects' = Objects
  BY <1>3
<1>7. ObjectsType(m_active_objects')
  <2>1. m_active_objects' = [id \in Objects |-> m_active_objects'[id]]
    BY <1>3
  <2> QED BY <1>1, <1>5, <1>6, <2>1 DEF ObjectsType, Objects
<1> QED BY <1>4, <1>5, <1>6, <1>7

\* What a client knows after it has been told of new objects.
NowKnown(c, in_range) ==
    {id \in Known(c) \cap in_range : id \in Objects /\ ~Gone(m_active_objects[id])}
    \cup {id \in in_range \ Known(c) : ~Gone(m_active_objects[id])}

\* What a client knows of the objects it is left with.
TableOf(c, now) ==
    [id \in now |-> IF id \in Known(c) THEN m_known_objects[c][id] ELSE m_active_objects[id].entity]

LEMMA ClientStep ==
    ASSUME IInv, NEW c \in Clients,
           \/ DeleteClient(c)
           \/ \E in_range \in SUBSET Objects : SendActiveObjectRemoveAdd(c, in_range)
    PROVE  /\ IInv'
           /\ \E now \in SUBSET Objects :
                 /\ m_active_objects' = Recounted(c, now)
                 /\ DOMAIN m_known_objects' = Clients
                 /\ \A x \in Clients : x # c => m_known_objects'[x] = m_known_objects[x]
                 /\ DOMAIN m_known_objects'[c] = now
                 /\ \A id \in now :
                       m_known_objects'[c][id] = IF id \in Known(c) THEN m_known_objects[c][id]
                                                 ELSE m_active_objects[id].entity
<1>1. /\ pc = "idle" /\ pc' = pc
      /\ UNCHANGED <<m_map, dbase, m_active_blocks, m_shutting_down, todo, removed, added,
                     created, alive, changes>>
  BY DEF DeleteClient, SendActiveObjectRemoveAdd, updateVars
<1>2. /\ m_known_objects \in [Clients -> EntityTables]
      /\ \A id \in Objects : id \in Ids /\ m_active_objects[id].entity \in Entities
      /\ MapType(m_map) /\ EntriesOf(m_map, m_active_objects)
  BY Types, StaticEntriesOf DEF IInv, TypeOK, ServerActiveObject
<1>3. Known(c) \subseteq Ids /\ \A id \in Known(c) : m_known_objects[c][id] \in Entities
  <2>1. m_known_objects[c] \in EntityTables
    BY <1>2
  <2>2. m_known_objects[c] \in [Known(c) -> Entities] /\ Known(c) \subseteq Ids
    BY <2>1, Tables DEF Known
  <2> QED BY <2>2
<1>4. PICK now \in SUBSET Objects :
        /\ m_active_objects' = Recounted(c, now)
        /\ m_known_objects' = [m_known_objects EXCEPT ![c] = TableOf(c, now)]
  <2>1. CASE DeleteClient(c)
    <3>1. TableOf(c, {}) = Nothing
      BY DEF TableOf, Nothing
    <3>2. /\ m_active_objects' = Recounted(c, {})
          /\ m_known_objects' = [m_known_objects EXCEPT ![c] = Nothing]
      BY <2>1 DEF DeleteClient
    <3>3. {} \in SUBSET Objects
      OBVIOUS
    <3> QED BY <3>1, <3>2, <3>3
  <2>2. ASSUME NEW in_range \in SUBSET Objects, SendActiveObjectRemoveAdd(c, in_range)
        PROVE  \E now \in SUBSET Objects :
                  /\ m_active_objects' = Recounted(c, now)
                  /\ m_known_objects' = [m_known_objects EXCEPT ![c] = TableOf(c, now)]
    <3> DEFINE kept == {id \in Known(c) \cap in_range : id \in Objects /\ ~Gone(m_active_objects[id])}
               added_objects == {id \in in_range \ Known(c) : ~Gone(m_active_objects[id])}
               now == kept \cup added_objects
               table == [id \in now |-> IF id \in kept THEN m_known_objects[c][id]
                                        ELSE m_active_objects[id].entity]
    <3>1. m_active_objects' = Recounted(c, now)
      BY <2>2 DEF SendActiveObjectRemoveAdd
    <3>2. m_known_objects' = [m_known_objects EXCEPT ![c] = table]
      BY <2>2, <1>2 DEF SendActiveObjectRemoveAdd
    <3>3. now \in SUBSET Objects
      OBVIOUS
    <3>4. \A id \in now : id \in kept <=> id \in Known(c)
      OBVIOUS
    <3> HIDE DEF kept, now
    <3>5. table = TableOf(c, now)
      BY <3>4 DEF TableOf
    <3> HIDE DEF table
    <3> QED BY <3>1, <3>2, <3>3, <3>5
  <2> QED BY <2>1, <2>2
<1> DEFINE table == TableOf(c, now)
<1>5. /\ table \in EntityTables /\ DOMAIN table = now
      /\ \A id \in now : table[id] = IF id \in Known(c) THEN m_known_objects[c][id]
                                     ELSE m_active_objects[id].entity
  <2>1. table \in [now -> Entities] /\ DOMAIN table = now /\ now \subseteq Ids
    BY <1>2, <1>3 DEF TableOf
  <2>2. table \in EntityTables
    BY <2>1, Tables
  <2> QED BY <2>1, <2>2 DEF TableOf
<1> HIDE DEF table
<1>6. /\ m_known_objects' \in [Clients -> EntityTables] /\ DOMAIN m_known_objects' = Clients
      /\ m_known_objects'[c] = table
      /\ \A x \in Clients : x # c => m_known_objects'[x] = m_known_objects[x]
  BY <1>2, <1>4, <1>5 DEF table
<1>7. /\ ObjectsType(m_active_objects') /\ DOMAIN m_active_objects' = Objects
      /\ \A id \in Objects :
            /\ m_active_objects'[id].static_block = m_active_objects[id].static_block
            /\ m_active_objects'[id].entity = m_active_objects[id].entity
  BY <1>4, RecountedType
<1>8. EntriesOf(m_map', m_active_objects')
  BY <1>1, <1>2, <1>7 DEF EntriesOf, Objects
<1>9. TypeOK'
  BY <1>1, <1>6, <1>7 DEF IInv, TypeOK, ObjectsType, Objects
<1>10. IInv'
  BY <1>1, <1>8, <1>9, StaticEntriesOfNext DEF IInv
<1> QED BY <1>4, <1>5, <1>6, <1>10

-----------------------------------------------------------------------------
(* The map, shutdown and restart                                           *)

LEMMA WrittenType ==
    ASSUME MapType(m_map), DbaseType, NEW blocks \in SUBSET DOMAIN m_map
    PROVE  Written(blocks) \in [DOMAIN Written(blocks) -> StoredBlock]
           /\ DOMAIN Written(blocks) \subseteq Blocks
<1> DEFINE at(b) == IF b \in blocks /\ m_map[b].modified THEN OnDisk(m_map[b]) ELSE dbase[b]
           dom == DOMAIN dbase \cup {x \in blocks : m_map[x].modified}
<1>1. Written(blocks) = [b \in dom |-> at(b)]
  BY DEF Written
<1>2. ASSUME NEW b \in dom PROVE at(b) \in StoredBlock
  <2>1. CASE b \in blocks /\ m_map[b].modified
    <3>1. m_map[b] \in MapBlock
      BY <2>1 DEF MapType
    <3> QED BY <2>1, <3>1, OnDiskType
  <2>2. CASE ~(b \in blocks /\ m_map[b].modified)
    <3>1. b \in DOMAIN dbase
      BY <2>2
    <3> QED BY <2>2, <3>1 DEF DbaseType
  <2> QED BY <2>1, <2>2
<1>3. dom \subseteq Blocks
  BY DEF MapType, DbaseType
<1> HIDE DEF at, dom
<1> QED BY <1>1, <1>2, <1>3

\* A map whose blocks hold the active static data they held, or none.
LEMMA MapChanges ==
    ASSUME IInv, UNCHANGED m_active_objects, MapType(m_map'), SubEntries(m_map', m_map)
    PROVE  StaticEntries'
BY StaticEntriesOf, StaticEntriesOfNext, SubEntriesOf DEF IInv

LEMMA LoadStep ==
    ASSUME IInv, NEW b \in Blocks, LoadBlock(b)
    PROVE  IInv'
<1>1. /\ pc = "idle" /\ UNCHANGED <<pc, todo, removed, added>> /\ b \notin DOMAIN m_map
      /\ UNCHANGED <<m_active_objects, dbase, m_active_blocks, m_known_objects,
                     m_shutting_down, created, alive, changes>>
      /\ m_map' = emergeBlock(m_map, b, TRUE)
  BY DEF LoadBlock, updateVars
<1>2. MapType(m_map) /\ DbaseType
  BY Types DEF IInv
<1>3. MapType(m_map') /\ SubEntries(m_map', m_map)
  BY <1>1, <1>2, EmergeBlock
<1>4. StaticEntries'
  BY <1>1, <1>3, MapChanges
<1>5. TypeOK'
  BY <1>1, <1>3 DEF IInv, TypeOK, MapType, Objects
<1> QED BY <1>1, <1>4, <1>5 DEF IInv, Objects

\* Block x of the map after finishBlockMake.
Made(chunk, border, x) ==
    IF x \in chunk THEN [m_map[x] EXCEPT !.modified = TRUE, !.stamp = "current"]
    ELSE IF x \in border THEN [m_map[x] EXCEPT !.modified = TRUE]
    ELSE m_map[x]

\* Generation changes the timestamp and what is to be written, no objects.
LEMMA MadeBlock ==
    ASSUME MapType(m_map), NEW chunk, NEW border, NEW x \in DOMAIN m_map
    PROVE  /\ Made(chunk, border, x) \in MapBlock
           /\ Made(chunk, border, x).active = m_map[x].active
           /\ Made(chunk, border, x).stored = m_map[x].stored
           /\ x \in chunk => Made(chunk, border, x).modified
           /\ x \notin chunk => /\ Made(chunk, border, x).stamp = m_map[x].stamp
                                /\ m_map[x].modified => Made(chunk, border, x).modified
<1>1. m_map[x] \in MapBlock
  BY DEF MapType
<1> QED BY <1>1 DEF Made, MapBlock, Stamps

LEMMA MakeStep ==
    ASSUME IInv, NEW chunk, NEW border, finishBlockMake(chunk, border)
    PROVE  IInv'
<1>1. /\ pc = "idle" /\ UNCHANGED <<pc, todo, removed, added>>
      /\ UNCHANGED <<m_active_objects, dbase, m_active_blocks, m_known_objects,
                     m_shutting_down, created, alive>>
      /\ changes < MaxChanges /\ changes' = changes + 1
      /\ m_map' = [x \in DOMAIN m_map |-> Made(chunk, border, x)]
  BY Zenon DEF finishBlockMake, updateVars, Made
<1>2. MapType(m_map)
  BY Types DEF IInv
<1>3. DOMAIN m_map' = DOMAIN m_map /\ \A x \in DOMAIN m_map : m_map'[x] = Made(chunk, border, x)
  BY <1>1
<1>4. \A x \in DOMAIN m_map : m_map'[x] \in MapBlock /\ m_map'[x].active = m_map[x].active
  BY <1>2, <1>3, MadeBlock
<1>5. MapType(m_map')
  BY <1>1, <1>2, <1>3, <1>4 DEF MapType
<1>6. StaticEntries'
  BY <1>1, <1>3, <1>4, <1>5, MapChanges DEF SubEntries, Entry
<1>7. changes' \in 0 .. MaxChanges
  BY <1>1 DEF IInv, TypeOK, ActiveObjectsAssumption
<1>8. TypeOK'
  BY <1>1, <1>5, <1>7 DEF IInv, TypeOK, MapType, Objects
<1> QED BY <1>1, <1>6, <1>8 DEF IInv, Objects

LEMMA SaveMapStep ==
    ASSUME IInv, SaveMap
    PROVE  IInv'
<1>1. /\ pc = "idle" /\ UNCHANGED <<pc, todo, removed, added>>
      /\ UNCHANGED <<m_active_objects, m_active_blocks, m_known_objects, m_shutting_down,
                     created, alive, changes>>
      /\ dbase' = Written(DOMAIN m_map)
      /\ m_map' = [b \in DOMAIN m_map |-> [m_map[b] EXCEPT !.modified = FALSE]]
  BY DEF SaveMap, updateVars
<1>2. MapType(m_map) /\ DbaseType
  BY Types DEF IInv
<1>3. dbase' \in [DOMAIN dbase' -> StoredBlock] /\ DOMAIN dbase' \subseteq Blocks
  BY <1>1, <1>2, WrittenType
<1>4. /\ MapType(m_map') /\ DOMAIN m_map' = DOMAIN m_map
      /\ \A b \in DOMAIN m_map : m_map'[b].active = m_map[b].active
  BY <1>1, <1>2 DEF MapType, MapBlock
<1>5. StaticEntries'
  BY <1>1, <1>4, MapChanges DEF SubEntries, Entry
<1>6. TypeOK'
  BY <1>1, <1>3, <1>4 DEF IInv, TypeOK, MapType, Objects
<1> QED BY <1>1, <1>5, <1>6 DEF IInv, Objects

LEMMA UnloadStep ==
    ASSUME IInv, NEW b \in Blocks, UnloadBlock(b)
    PROVE  IInv'
<1>1. /\ pc = "idle" /\ UNCHANGED <<pc, todo, removed, added>> /\ b \in DOMAIN m_map
      /\ UNCHANGED <<m_active_objects, m_active_blocks, m_known_objects, m_shutting_down,
                     created, alive, changes>>
      /\ dbase' = Written({b}) /\ m_map' = Without(m_map, {b})
  BY Zenon DEF UnloadBlock, updateVars
<1>2. MapType(m_map) /\ DbaseType
  BY Types DEF IInv
<1>3. dbase' \in [DOMAIN dbase' -> StoredBlock] /\ DOMAIN dbase' \subseteq Blocks
  <2>1. {b} \in SUBSET DOMAIN m_map
    BY <1>1
  <2> QED BY <1>1, <1>2, <2>1, WrittenType
<1>4. MapType(m_map') /\ SubEntries(m_map', m_map)
  BY <1>1, <1>2 DEF MapType, Without, SubEntries, Entry
<1>5. StaticEntries'
  BY <1>1, <1>4, MapChanges
<1>6. TypeOK'
  BY <1>1, <1>3, <1>4 DEF IInv, TypeOK, MapType, Objects
<1> QED BY <1>1, <1>5, <1>6 DEF IInv, Objects

LEMMA StopStep ==
    ASSUME IInv, deactivateBlocksAndObjects
    PROVE  IInv'
<1>1. /\ pc' = "shutdown" /\ m_shutting_down' = TRUE /\ m_active_blocks' = {} /\ todo' = Objects
      /\ UNCHANGED <<m_active_objects, m_map, dbase, m_known_objects, removed, added,
                     created, alive, changes>>
  BY Zenon DEF deactivateBlocksAndObjects
<1>2. Objects \subseteq Ids
  BY DEF IInv, TypeOK
<1>3. TypeOK'
  BY <1>1, <1>2 DEF IInv, TypeOK, Objects
<1>4. StaticEntries'
  BY <1>1 DEF IInv, StaticEntries, Objects
<1> QED BY <1>1, <1>3, <1>4 DEF IInv, Objects

LEMMA RestartStep ==
    ASSUME IInv, Restart
    PROVE  IInv'
<1>1. /\ pc' = "idle" /\ m_shutting_down' = FALSE
      /\ UNCHANGED <<m_active_objects, m_active_blocks, todo, removed, added, created, alive, changes>>
      /\ dbase' = Written(DOMAIN m_map) /\ m_map' = Nothing
      /\ m_known_objects' = [c \in Clients |-> Nothing]
  BY DEF Restart
<1>2. MapType(m_map) /\ DbaseType
  BY Types DEF IInv
<1>3. dbase' \in [DOMAIN dbase' -> StoredBlock] /\ DOMAIN dbase' \subseteq Blocks
  BY <1>1, <1>2, WrittenType
<1>4. MapType(m_map') /\ SubEntries(m_map', m_map)
  <2>1. m_map' \in [{} -> MapBlock] /\ DOMAIN m_map' = {}
    BY <1>1 DEF Nothing
  <2> QED BY <2>1 DEF MapType, SubEntries, Entry
<1>5. StaticEntries'
  BY <1>1, <1>4, MapChanges
<1>6. m_known_objects' \in [Clients -> EntityTables]
  BY <1>1, NothingIsTable
<1>7. TypeOK'
  BY <1>1, <1>3, <1>4, <1>6 DEF IInv, TypeOK, MapType, Objects
<1> QED BY <1>1, <1>5, <1>7 DEF IInv, Objects

-----------------------------------------------------------------------------
(* The invariant                                                           *)

LEMMA InitInvariant == Init => IInv
<1> SUFFICES ASSUME Init PROVE IInv
  OBVIOUS
<1>1. /\ m_active_objects = Nothing /\ m_map = Nothing /\ dbase = Nothing
      /\ DOMAIN m_active_objects = {} /\ DOMAIN m_map = {} /\ DOMAIN dbase = {}
  BY NothingIsTable DEF Init
<1>2. \A S : Nothing \in [{} -> S]
  BY DEF Nothing
<1>3. TypeOK
  <2>1. m_known_objects \in [Clients -> EntityTables]
    BY NothingIsTable DEF Init
  <2>2. /\ m_active_objects \in [DOMAIN m_active_objects -> ServerActiveObject]
        /\ m_map \in [DOMAIN m_map -> MapBlock] /\ dbase \in [DOMAIN dbase -> StoredBlock]
    BY <1>1, <1>2
  <2>3. 0 \in 0 .. MaxChanges
    OBVIOUS
  <2>4. /\ m_active_blocks = {} /\ todo = {} /\ removed = {} /\ added = {} /\ changes = 0
        /\ created = {} /\ alive = {} /\ m_shutting_down = FALSE /\ pc = "idle"
    BY DEF Init
  <2> QED BY <1>1, <2>1, <2>2, <2>3, <2>4 DEF TypeOK, Objects
<1> QED BY <1>1, <1>3 DEF Init, IInv, StaticEntries

LEMMA NextInvariant == IInv /\ [Next]_vars => IInv'
<1> SUFFICES ASSUME IInv, [Next]_vars PROVE IInv'
  OBVIOUS
<1>1. CASE Mods
  <2>1. \A id \in Objects : setStaticSave(id) \/ markForRemoval(id) => IInv'
    BY ChangeStep
  <2>2. \A id \in Objects, b \in Blocks : setBasePosition(id, b) => IInv'
    BY ChangeStep
  <2> QED BY <1>1, <2>1, <2>2, AddStep, ClearStep, DeleteBlockStep DEF Mods
<1>2. CASE Update
  BY <1>2, UpdateStep, KeepStep, ResaveStep, FarStep, StampStep, ActivateStep, FinishStep DEF Update
<1>3. CASE Step
  <2>1. \A c \in Clients : DeleteClient(c) => IInv'
    BY ClientStep
  <2>2. \A c \in Clients, in_range \in SUBSET Objects :
          SendActiveObjectRemoveAdd(c, in_range) => IInv'
    BY ClientStep
  <2> QED BY <1>3, <2>1, <2>2, GoneStep, LoadStep, MakeStep, UnloadStep, SaveMapStep DEF Step
<1>4. CASE Stop
  BY <1>4, StopStep, ForcedStep, RestartStep DEF Stop
<1>5. CASE UNCHANGED vars
  BY <1>5 DEF vars, updateVars, IInv, TypeOK, StaticEntries, Objects
<1> QED BY <1>1, <1>2, <1>3, <1>4, <1>5 DEF Next

\* The environment, the map, the database and what the clients know keep
\* their types: every object has an entity and a block, every count is a
\* natural number (m_known_by_count is a u16 the code decrements).
THEOREM ObjectTypes == Spec => []TypeOK
<1>1. IInv => TypeOK
  BY DEF IInv
<1> QED BY <1>1, InitInvariant, NextInvariant, PTL DEF Spec

\* Active static data in a block belongs to the object of its id, which
\* points back at the block, through moves, deactivation, clearing, deletion
\* of blocks, unloading and restarts.
THEOREM StaticDataFollows == Spec => []StaticEntries
<1>1. IInv => StaticEntries
  BY DEF IInv
<1> QED BY <1>1, InitInvariant, NextInvariant, PTL DEF Spec

-----------------------------------------------------------------------------
(* Ids that clients know                                                   *)

KnownTo(id) == {c \in Clients : id \in Known(c)}

\* A step that tells no client anything, spares the objects clients know
\* and gives new objects a count of zero.
ObjectsKeep ==
    /\ UNCHANGED <<m_known_objects, m_shutting_down>>
    /\ \A id \in Objects : m_active_objects[id].known_by_count > 0 => id \in Objects'
    /\ \A id \in Objects' \cap Objects :
          /\ m_active_objects'[id].entity = m_active_objects[id].entity
          /\ m_active_objects'[id].known_by_count = m_active_objects[id].known_by_count
    /\ \A id \in Objects' \ Objects : m_active_objects'[id].known_by_count = 0

LEMMA KnownToFinite ==
    ASSUME NEW id
    PROVE  /\ IsFiniteSet(KnownTo(id)) /\ Cardinality(KnownTo(id)) \in Nat
           /\ Cardinality(KnownTo(id)) = 0 <=> KnownTo(id) = {}
<1>1. IsFiniteSet(KnownTo(id))
  <2>1. KnownTo(id) \in SUBSET Clients
    BY DEF KnownTo
  <2> QED BY <2>1, FS_Subset
<1>2. Cardinality(KnownTo(id)) \in Nat
  BY <1>1, FS_CardinalityType
<1> QED BY <1>1, <1>2, FS_EmptySet

LEMMA ObjectsKeepIds ==
    ASSUME IInv, IdsKept, ObjectsKeep
    PROVE  IdsKept'
<1> SUFFICES ASSUME ~m_shutting_down
             PROVE  IdsKept'
  BY DEF ObjectsKeep, IdsKept
<1>1. /\ \A c \in Clients : \A id \in Known(c) :
            id \in Objects /\ m_active_objects[id].entity = m_known_objects[c][id]
      /\ \A id \in Objects : m_active_objects[id].known_by_count = Cardinality(KnownTo(id))
  BY DEF IdsKept, KnownTo
<1>2. \A c \in Clients : Known(c)' = Known(c) /\ m_known_objects'[c] = m_known_objects[c]
  BY DEF ObjectsKeep, Known
<1>3. \A id : KnownTo(id)' = KnownTo(id)
  BY <1>2 DEF KnownTo
<1>4. ASSUME NEW c \in Clients, NEW id \in Known(c)'
      PROVE  id \in Objects' /\ m_active_objects'[id].entity = m_known_objects'[c][id]
  <2>1. id \in Objects /\ m_active_objects[id].entity = m_known_objects[c][id]
    BY <1>1, <1>2, <1>4
  <2>2. c \in KnownTo(id)
    BY <1>2, <1>4 DEF KnownTo
  <2>3. m_active_objects[id].known_by_count > 0
    <3>1. Cardinality(KnownTo(id)) \in Nat /\ Cardinality(KnownTo(id)) # 0
      BY <2>2, KnownToFinite
    <3> QED BY <1>1, <2>1, <3>1
  <2> QED BY <1>2, <2>1, <2>3 DEF ObjectsKeep
<1>5. ASSUME NEW id \in Objects'
      PROVE  m_active_objects'[id].known_by_count = Cardinality(KnownTo(id)')
  <2>1. CASE id \in Objects
    BY <1>1, <1>3, <2>1 DEF ObjectsKeep
  <2>2. CASE id \notin Objects
    <3>1. KnownTo(id) = {}
      BY <1>1, <2>2 DEF KnownTo
    <3>2. Cardinality(KnownTo(id)) = 0
      BY <3>1, KnownToFinite
    <3> QED BY <1>3, <2>2, <3>2 DEF ObjectsKeep
  <2> QED BY <2>1, <2>2
<1> QED BY <1>4, <1>5 DEF IdsKept, KnownTo

LEMMA ModsKeep ==
    ASSUME IInv, Mods
    PROVE  ObjectsKeep
<1>1. ObjectsType(m_active_objects) /\ \A id \in Objects : m_active_objects[id] \in ServerActiveObject
  BY Types DEF IInv
<1>2. ASSUME NEW e \in Entities, NEW b \in Blocks, addActiveObject(e, b)
      PROVE  ObjectsKeep
  <2> DEFINE o == NewObject(e, b, IF e \in NotSaved THEN None ELSE b)
  <2>1. PICK id \in FreeIds : m_active_objects' = With(m_active_objects, id, o)
    BY <1>2 DEF addActiveObject
  <2>2. o.known_by_count = 0
    BY DEF NewObject
  <2>3. UNCHANGED <<m_known_objects, m_shutting_down>>
    BY <1>2 DEF addActiveObject
  <2> HIDE DEF o
  <2> QED BY <2>1, <2>2, <2>3 DEF ObjectsKeep, With, Objects, FreeIds
<1>3. ASSUME NEW id \in Objects, setStaticSave(id) \/ markForRemoval(id) \/ \E b \in Blocks : setBasePosition(id, b)
      PROVE  ObjectsKeep
  <2>1. m_active_objects[id] \in ServerActiveObject
    BY <1>1
  <2>2. UNCHANGED <<m_known_objects, m_shutting_down>>
    BY <1>3 DEF setStaticSave, markForRemoval, setBasePosition
  <2>3. DOMAIN m_active_objects' = Objects
        /\ \A i \in Objects : /\ m_active_objects'[i].entity = m_active_objects[i].entity
                              /\ m_active_objects'[i].known_by_count = m_active_objects[i].known_by_count
    BY <1>1, <1>3, <2>1 DEF setStaticSave, markForRemoval, setBasePosition, ObjectsType, Objects,
                            ServerActiveObject
  <2> QED BY <2>2, <2>3 DEF ObjectsKeep, Objects
<1>4. ASSUME NEW full \in BOOLEAN, clearObjects(full)
      PROVE  ObjectsKeep
  <2> DEFINE kept == {i \in Objects : m_active_objects[i].known_by_count > 0}
             now(o) == [o EXCEPT !.pending_removal = TRUE,
                                 !.static_block = IF @ \in DOMAIN m_map THEN None ELSE @]
  <2>1. m_active_objects' = [id \in kept |-> now(m_active_objects[id])]
    BY <1>4 DEF clearObjects
  <2>2. \A o \in ServerActiveObject : now(o).entity = o.entity /\ now(o).known_by_count = o.known_by_count
    BY DEF ServerActiveObject
  <2>3. UNCHANGED <<m_known_objects, m_shutting_down>>
    BY <1>4 DEF clearObjects
  <2> HIDE DEF now
  <2> QED BY <1>1, <2>1, <2>2, <2>3 DEF ObjectsKeep, Objects
<1>5. ASSUME NEW b \in Blocks, deleteBlock(b)
      PROVE  ObjectsKeep
  BY <1>5 DEF deleteBlock, ObjectsKeep, Objects
<1> QED BY <1>2, <1>3, <1>4, <1>5 DEF Mods

\* One object changes and stays the one clients know, or goes unknown.
LEMMA OneChanges ==
    ASSUME IInv, NEW id \in Objects, UNCHANGED <<m_known_objects, m_shutting_down>>,
           \/ /\ m_active_objects[id].known_by_count = 0
              /\ m_active_objects' = Without(m_active_objects, {id})
           \/ \E o \in ServerActiveObject :
                 /\ m_active_objects' = [m_active_objects EXCEPT ![id] = o]
                 /\ SameObject(o, m_active_objects[id])
    PROVE  ObjectsKeep
<1>1. ObjectsType(m_active_objects)
  BY Types DEF IInv
<1>2. CASE /\ m_active_objects[id].known_by_count = 0
           /\ m_active_objects' = Without(m_active_objects, {id})
  BY <1>2 DEF ObjectsKeep, Without, Objects
<1>3. ASSUME NEW o \in ServerActiveObject,
             m_active_objects' = [m_active_objects EXCEPT ![id] = o],
             SameObject(o, m_active_objects[id])
      PROVE  ObjectsKeep
  BY <1>1, <1>3 DEF ObjectsKeep, SameObject, ObjectsType, Objects
<1> QED BY <1>2, <1>3

LEMMA UpdateKeeps ==
    ASSUME IInv, RoomInBlocks, Update
    PROVE  ObjectsKeep
<1>1. ASSUME NEW id \in Ids, ResaveObject(id) PROVE ObjectsKeep
  <2>1. id \in Objects /\ UNCHANGED <<m_known_objects, m_shutting_down>>
    BY <1>1 DEF ResaveObject
  <2> QED BY <1>1, <2>1, ResaveStep, OneChanges
<1>2. ASSUME NEW id \in Ids, DeactivateFar(id) PROVE ObjectsKeep
  <2>1. id \in Objects /\ UNCHANGED <<m_known_objects, m_shutting_down>>
    BY <1>2 DEF DeactivateFar
  <2> DEFINE pending == m_active_objects[id].known_by_count > 0
  <2>2. PICK data_changed \in BOOLEAN : DeactivateObject(id, pending, data_changed)
    <3>1. DataChanged(id) \subseteq BOOLEAN
      BY DEF DataChanged
    <3> QED BY <1>2, <3>1 DEF DeactivateFar
  <2>3. ~pending => m_active_objects[id].known_by_count = 0
    <3>1. m_active_objects[id].known_by_count \in Nat
      BY <2>1, Types DEF IInv, ServerActiveObject
    <3> QED BY <3>1
  <2>4. pending \in BOOLEAN
    OBVIOUS
  <2> HIDE DEF pending
  <2>5. \/ m_active_objects' = Without(m_active_objects, {id}) /\ (~pending \/ ~RoomInBlocks)
        \/ \E o \in ServerActiveObject :
              /\ m_active_objects' = [m_active_objects EXCEPT ![id] = o]
              /\ SameObject(o, m_active_objects[id])
    BY <2>1, <2>2, <2>4, Deactivates
  <2> QED BY <2>1, <2>3, <2>5, OneChanges
<1>3. ASSUME NEW b \in Blocks, ActivateBlock(b) PROVE ObjectsKeep
  <2>1. UNCHANGED <<m_known_objects, m_shutting_down>>
    BY <1>3 DEF ActivateBlock
  <2>2. CASE b \in DOMAIN m_map
    <3>1. /\ Objects \subseteq DOMAIN m_active_objects'
          /\ \A id \in Objects : m_active_objects'[id] = m_active_objects[id]
          /\ \A id \in DOMAIN m_active_objects' \ Objects :
                m_active_objects'[id].known_by_count = 0
      BY <1>3, <2>2, ActivatesObjects DEF ActivateBlock
    <3> QED BY <2>1, <3>1 DEF ObjectsKeep, Objects
  <2>3. CASE b \notin DOMAIN m_map
    BY <1>3, <2>1, <2>3 DEF ActivateBlock, ObjectsKeep, Objects
  <2> QED BY <2>2, <2>3
<1>4. ASSUME UNCHANGED <<m_active_objects, m_known_objects, m_shutting_down>>
      PROVE  ObjectsKeep
  BY <1>4 DEF ObjectsKeep, Objects
<1>5. ASSUME NEW new \in SUBSET Blocks, UpdateActiveBlocks(new) PROVE ObjectsKeep
  BY <1>4, <1>5 DEF UpdateActiveBlocks
<1>6. ASSUME NEW id \in Ids, KeepObject(id) PROVE ObjectsKeep
  BY <1>4, <1>6 DEF KeepObject
<1>7. CASE StampRemoved \/ FinishUpdate
  BY <1>4, <1>7 DEF StampRemoved, FinishUpdate
<1> QED BY <1>1, <1>2, <1>3, <1>5, <1>6, <1>7 DEF Update

\* What one client comes to know, counted: id is added to those that know it,
\* taken from them, or neither.
LEMMA ClientRecounts ==
    ASSUME IInv, IdsKept, ~m_shutting_down, NEW c \in Clients,
           NEW now \in SUBSET Objects, m_active_objects' = Recounted(c, now),
           DOMAIN m_known_objects' = Clients,
           \A x \in Clients : x # c => m_known_objects'[x] = m_known_objects[x],
           DOMAIN m_known_objects'[c] = now,
           NEW id \in Objects
    PROVE  m_active_objects'[id].known_by_count = Cardinality(KnownTo(id)')
<1>1. /\ IsFiniteSet(KnownTo(id)) /\ Cardinality(KnownTo(id)) \in Nat
      /\ Cardinality(KnownTo(id)) = 0 <=> KnownTo(id) = {}
  BY KnownToFinite
<1>2. m_active_objects[id].known_by_count = Cardinality(KnownTo(id))
  BY DEF IdsKept, KnownTo
<1>3. KnownTo(id)' = IF id \in now THEN KnownTo(id) \cup {c} ELSE KnownTo(id) \ {c}
  <2>1. Known(c)' = now /\ \A x \in Clients : x # c => Known(x)' = Known(x)
    BY DEF Known
  <2> QED BY <2>1 DEF KnownTo
<1>4. c \in KnownTo(id) <=> id \in Known(c)
  BY DEF KnownTo
<1>5. CASE id \in now \ Known(c)
  <2>1. m_active_objects'[id].known_by_count = m_active_objects[id].known_by_count + 1
    BY <1>5, RecountedType
  <2>2. Cardinality(KnownTo(id) \cup {c}) = Cardinality(KnownTo(id)) + 1
    BY <1>1, <1>4, <1>5, FS_AddElement
  <2> QED BY <1>2, <1>3, <1>5, <2>1, <2>2
<1>6. CASE id \in Known(c) \ now
  <2>1. m_active_objects[id].known_by_count > 0
    BY <1>1, <1>2, <1>4, <1>6
  <2>2. m_active_objects'[id].known_by_count = m_active_objects[id].known_by_count - 1
    BY <1>6, <2>1, RecountedType
  <2>3. Cardinality(KnownTo(id) \ {c}) = Cardinality(KnownTo(id)) - 1
    BY <1>1, <1>4, <1>6, FS_RemoveElement
  <2> QED BY <1>2, <1>3, <1>6, <2>2, <2>3
<1>7. CASE ~(id \in now \ Known(c)) /\ ~(id \in Known(c) \ now)
  <2>1. m_active_objects'[id].known_by_count = m_active_objects[id].known_by_count
    BY <1>7, RecountedType
  <2>2. KnownTo(id)' = KnownTo(id)
    BY <1>3, <1>4, <1>7
  <2> QED BY <1>2, <2>1, <2>2
<1> QED BY <1>5, <1>6, <1>7

LEMMA ClientKeepsIds ==
    ASSUME IInv, IdsKept, NEW c \in Clients,
           \/ DeleteClient(c)
           \/ \E in_range \in SUBSET Objects : SendActiveObjectRemoveAdd(c, in_range)
    PROVE  IdsKept'
<1>1. PICK now \in SUBSET Objects :
        /\ m_active_objects' = Recounted(c, now)
        /\ DOMAIN m_known_objects' = Clients
        /\ \A x \in Clients : x # c => m_known_objects'[x] = m_known_objects[x]
        /\ DOMAIN m_known_objects'[c] = now
        /\ \A id \in now :
              m_known_objects'[c][id] = IF id \in Known(c) THEN m_known_objects[c][id]
                                        ELSE m_active_objects[id].entity
  BY ClientStep
<1>2. ~m_shutting_down
  BY DEF DeleteClient, SendActiveObjectRemoveAdd, IInv, TypeOK
<1>3. /\ Objects' = Objects
      /\ \A id \in Objects : m_active_objects'[id].entity = m_active_objects[id].entity
  BY <1>1, RecountedType DEF Objects
<1>4. ASSUME NEW x \in Clients, NEW id \in Known(x)'
      PROVE  id \in Objects' /\ m_active_objects'[id].entity = m_known_objects'[x][id]
  <2>1. CASE x = c
    BY <1>1, <1>2, <1>3, <1>4, <2>1 DEF Known, IdsKept
  <2>2. CASE x # c
    BY <1>1, <1>2, <1>3, <1>4, <2>2 DEF Known, IdsKept
  <2> QED BY <2>1, <2>2
<1>5. \A id \in Objects' : m_active_objects'[id].known_by_count = Cardinality(KnownTo(id)')
  BY <1>1, <1>2, <1>3, ClientRecounts
<1> QED BY <1>4, <1>5 DEF IdsKept, KnownTo

LEMMA StepKeepsIds ==
    ASSUME IInv, IdsKept, Step
    PROVE  IdsKept'
<1>1. ASSUME NEW id \in Objects, removeRemovedObject(id) PROVE IdsKept'
  <2>1. UNCHANGED <<m_known_objects, m_shutting_down>>
    BY <1>1 DEF removeRemovedObject
  <2> QED BY <1>1, <2>1, GoneStep, OneChanges, ObjectsKeepIds
<1>2. ASSUME NEW c \in Clients, DeleteClient(c) PROVE IdsKept'
  BY <1>2, ClientKeepsIds
<1>3. ASSUME NEW c \in Clients, NEW in_range \in SUBSET Objects,
             SendActiveObjectRemoveAdd(c, in_range)
      PROVE  IdsKept'
  BY <1>3, ClientKeepsIds
<1>4. CASE \/ SaveMap
           \/ \E b \in Blocks : LoadBlock(b) \/ UnloadBlock(b)
           \/ \E chunk, border \in SUBSET DOMAIN m_map : finishBlockMake(chunk, border)
  <2>1. UNCHANGED <<m_active_objects, m_known_objects, m_shutting_down>>
    BY <1>4 DEF SaveMap, LoadBlock, UnloadBlock, finishBlockMake
  <2>2. ObjectsKeep
    BY <2>1 DEF ObjectsKeep, Objects
  <2> QED BY <2>2, ObjectsKeepIds
<1> QED BY <1>1, <1>2, <1>3, <1>4 DEF Step

LEMMA StopKeepsIds ==
    ASSUME IInv, Stop
    PROVE  IdsKept'
<1>1. CASE deactivateBlocksAndObjects
  BY <1>1 DEF deactivateBlocksAndObjects, IdsKept
<1>2. ASSUME NEW id \in Ids, DeactivateForced(id) PROVE IdsKept'
  BY <1>2 DEF DeactivateForced, IdsKept, IInv, TypeOK
<1>3. CASE Restart
  <2>1. Objects' = {} /\ \A c \in Clients : Known(c)' = {}
    BY <1>3, NothingIsTable DEF Restart, Objects, Known, IInv
  <2> QED BY <2>1 DEF IdsKept
<1> QED BY <1>1, <1>2, <1>3 DEF Stop

LEMMA NextKeepsIds == IInv /\ IdsKept /\ RoomInBlocks /\ [Next]_vars => IdsKept'
<1> SUFFICES ASSUME IInv, IdsKept, RoomInBlocks, [Next]_vars PROVE IdsKept'
  OBVIOUS
<1>1. CASE UNCHANGED vars
  BY <1>1 DEF vars, IdsKept, Known, Objects
<1> QED BY <1>1, ModsKeep, UpdateKeeps, StepKeepsIds, StopKeepsIds, ObjectsKeepIds DEF Next

\* As long as every block has room for another object, an id that a client
\* knows is the object the client was told of, and m_known_by_count is the
\* number of clients that know it.  Without room saveStaticToBlock fails and
\* deactivateFarObjects deletes an object that clients know at once.
THEOREM IdsAreKept == Spec /\ []RoomInBlocks => []IdsKept
<1>1. Init => IdsKept
  BY NothingIsTable DEF Init, IdsKept, Known, Objects
<1> QED BY <1>1, InitInvariant, NextInvariant, NextKeepsIds, PTL DEF Spec

-----------------------------------------------------------------------------
(* Where the copies of an entity are                                       *)

\* The copies of entity e in block b: on disk, and as the map has them.
DiskOf(d, b, e) == IF b \in DOMAIN d THEN d[b].stored[e] ELSE 0
StoredOf(m, d, b, e) == IF b \in DOMAIN m THEN m[b].stored[e] ELSE DiskOf(d, b, e)
StampOf(m, d, b) == IF b \in DOMAIN m THEN m[b].stamp ELSE d[b].stamp

\* The same is stored in map m2 as in m, but for a copy of e more in block b.
SameStored(m2, d2, m, d, a) ==
    \A x \in Blocks, i \in a : StoredOf(m2, d2, x, i) = StoredOf(m, d, x, i)
StoredAlike(m2, m, d) == SameStored(m2, d, m, d, Entities)
StoredMore(m2, m, d, b, e) ==
    /\ StoredOf(m2, d, b, e) = StoredOf(m, d, b, e) + 1
    /\ \A x \in Blocks, i \in Entities :
          x # b \/ i # e => StoredOf(m2, d, x, i) = StoredOf(m, d, x, i)
StoredFor(m2, m, d, b, store_id, e) ==
    IF store_id = None THEN StoredMore(m2, m, d, b, e) ELSE StoredAlike(m2, m, d)

\* No entry of map m but under this id is missing in m2.
KeepsEntries(m2, m, id) == \A x, i : i # id /\ Entry(m, x, i) => Entry(m2, x, i)

\* Map m2 has no entry that m has not but under this id.
NoMoreEntries(m2, m, id) == \A x, i : i # id /\ Entry(m2, x, i) => Entry(m, x, i)

\* Block b of the map has active static data of e.
HasEntry(m, b, e) == \E id \in DOMAIN m[b].active : m[b].active[id] = e

\* What is stored of an entity that is not in a, those alive, is to be dropped.
Dropped(m, d, a, b, e) ==
    e \notin a /\ StoredOf(m, d, b, e) > 0 => StampOf(m, d, b) = "old"

\* A block that is not to be written has on disk what it has in memory.  What
\* it has dropped is dropped again when it is loaded again; what an object
\* that was removed has left in it makes it written in time.
OnDiskToo(m, d, a, b, e) ==
    b \in DOMAIN m /\ ~m[b].modified =>
        /\ e \in a => /\ DiskOf(d, b, e) = m[b].stored[e] + (IF HasEntry(m, b, e) THEN 1 ELSE 0)
                      /\ DiskOf(d, b, e) > 0 /\ m[b].stamp = "old" => d[b].stamp = "old"
        /\ e \notin a /\ DiskOf(d, b, e) > 0 => d[b].stamp = "old" \/ HasEntry(m, b, e)

\* A block of w, active and activated, stores nothing that is to be dropped,
\* and is not on disk if it is not in memory.
Fresh(m, d, a, w, b, e) ==
    b \in w => IF b \in DOMAIN m THEN e \in a \/ m[b].stored[e] = 0 ELSE b \notin DOMAIN d

\* Of an entity that is not in c, those created, nothing is stored.
Created(m, d, c, b, e) ==
    e \notin c => StoredOf(m, d, b, e) = 0 /\ DiskOf(d, b, e) = 0

MapCopies(m, d, a, w, c) ==
    \A b \in Blocks, e \in Entities :
        /\ Dropped(m, d, a, b, e)
        /\ OnDiskToo(m, d, a, b, e)
        /\ Fresh(m, d, a, w, b, e)
        /\ Created(m, d, c, b, e)

\* An object whose entity is alive is gone only to wait for its id, with its
\* static data; one whose entity is not is gone and leaves nothing behind.
ObjectCopy(o, id, m, a, c, stopping) ==
    /\ o.entity \in c
    /\ o.entity \in a /\ Gone(o) => ~o.pending_removal /\ Entry(m, o.static_block, id)
    /\ o.entity \notin a =>
          /\ Gone(o)
          /\ Entry(m, o.static_block, id) => o.pending_removal
          /\ stopping => ~o.static_allowed /\ ~Entry(m, o.static_block, id)
    /\ ~o.pending_removal /\ o.pending_deactivation /\ o.static_allowed => o.static_block # None

ObjectCopies(f, m, a, c, stopping) ==
    \A id \in DOMAIN f : ObjectCopy(f[id], id, m, a, c, stopping)

\* Entity e is one object and stored nowhere, or stored in one block.
IsObject(f, m, d, e) ==
    /\ \E id \in DOMAIN f : f[id].entity = e /\ \A i \in DOMAIN f : f[i].entity = e => i = id
    /\ \A b \in Blocks : StoredOf(m, d, b, e) = 0
IsStored(f, m, d, e) ==
    /\ \A id \in DOMAIN f : f[id].entity # e
    /\ \E b \in Blocks : /\ StoredOf(m, d, b, e) = 1
                         /\ \A x \in Blocks : x # b => StoredOf(m, d, x, e) = 0
OnePlace(f, m, d, a) == \A e \in a : IsObject(f, m, d, e) \/ IsStored(f, m, d, e)

\* None of what is known to break the objects happens.
RacesApart == Races = {}

\* The active blocks that are activated, and those that were.
WasActive == (m_active_blocks \ added) \cup removed

Phases ==
    /\ pc \in {"idle", "shutdown"} => added = {} /\ removed = {}
    /\ pc = "activate" => removed = {}
    /\ pc = "shutdown" => m_active_blocks = {}

AllPlaces ==
    /\ MapCopies(m_map, dbase, alive, WasActive, created)
    /\ ObjectCopies(m_active_objects, m_map, alive, created, pc = "shutdown")
    /\ OnePlace(m_active_objects, m_map, dbase, alive)
    /\ Phases

\* The inductive invariant of OneCopy.
CopyInv == IInv /\ AllPlaces

\* An empty block that is read into the map changes nothing.
LEMMA EmergeCopies ==
    ASSUME NEW m, MapType(m), DbaseType, NEW b \in Blocks, NEW create_blank \in BOOLEAN,
           NEW m2, m2 = emergeBlock(m, b, create_blank)
    PROVE  /\ StoredAlike(m2, m, dbase)
           /\ \A id : KeepsEntries(m2, m, id)
           /\ \A a, w, c : MapCopies(m, dbase, a, w, c) => MapCopies(m2, dbase, a, w, c)
<1>1. CASE m2 = m
  BY <1>1 DEF StoredAlike, SameStored, KeepsEntries
<1>2. CASE m2 # m
  <2>1. b \notin DOMAIN m
    BY <1>2 DEF emergeBlock
  <2>2. m2 = With(m, b, IF b \in DOMAIN dbase THEN FromDisk(dbase[b]) ELSE Blank)
    BY <1>2, <2>1 DEF emergeBlock
  <2> DEFINE block == m2[b]
  <2>3. /\ DOMAIN m2 = DOMAIN m \cup {b}
        /\ \A x \in DOMAIN m : x # b /\ m2[x] = m[x]
        /\ m2[b] = IF b \in DOMAIN dbase THEN FromDisk(dbase[b]) ELSE Blank
    BY <2>1, <2>2 DEF With
  <2>4. /\ \A e \in Entities : m2[b].stored[e] = DiskOf(dbase, b, e) /\ m2[b].stored[e] \in Nat
        /\ b \in DOMAIN dbase => m2[b].stamp = dbase[b].stamp
        /\ ~m2[b].modified /\ m2[b].active = Nothing
    <3>1. CASE b \in DOMAIN dbase
      <4>1. dbase[b] \in StoredBlock
        BY <3>1 DEF DbaseType
      <4>2. m2[b] = FromDisk(dbase[b])
        BY <2>3, <3>1
      <4>3. /\ FromDisk(dbase[b]).stored = dbase[b].stored
            /\ FromDisk(dbase[b]).stamp = dbase[b].stamp
            /\ FromDisk(dbase[b]).active = Nothing /\ FromDisk(dbase[b]).modified = FALSE
        BY DEF FromDisk, Blank
      <4> QED BY <3>1, <4>1, <4>2, <4>3 DEF DiskOf, StoredBlock, Stored
    <3>2. CASE b \notin DOMAIN dbase
      BY <2>3, <3>2 DEF Blank, NoneStored, DiskOf
    <3> QED BY <3>1, <3>2
  <2>5. DOMAIN m2[b].active = {}
    BY <2>4, NothingIsTable
  <2>6. \A x \in Blocks, e \in Entities : StoredOf(m2, dbase, x, e) = StoredOf(m, dbase, x, e)
    BY <2>1, <2>3, <2>4 DEF StoredOf
  <2>7. \A x, i : Entry(m, x, i) => Entry(m2, x, i)
    BY <2>1, <2>3 DEF Entry
  <2>8. ASSUME NEW a, NEW w, NEW c, MapCopies(m, dbase, a, w, c),
               NEW x \in Blocks, NEW e \in Entities
        PROVE  /\ Dropped(m2, dbase, a, x, e) /\ OnDiskToo(m2, dbase, a, x, e)
               /\ Fresh(m2, dbase, a, w, x, e) /\ Created(m2, dbase, c, x, e)
    <3>1. /\ Dropped(m, dbase, a, x, e) /\ OnDiskToo(m, dbase, a, x, e)
          /\ Fresh(m, dbase, a, w, x, e) /\ Created(m, dbase, c, x, e)
      BY <2>8 DEF MapCopies
    <3>2. CASE x # b
      <4>1. (x \in DOMAIN m2 <=> x \in DOMAIN m) /\ (x \in DOMAIN m => m2[x] = m[x])
        BY <2>3, <3>2
      <4> QED BY <3>1, <4>1 DEF Dropped, OnDiskToo, Fresh, Created, StoredOf, StampOf, HasEntry
    <3>3. CASE x = b
      <4>1. ~HasEntry(m2, b, e)
        BY <2>5 DEF HasEntry
      <4>2. DiskOf(dbase, b, e) \in Nat /\ (DiskOf(dbase, b, e) > 0 => b \in DOMAIN dbase)
        BY <2>4 DEF DiskOf
      <4>3. StoredOf(m, dbase, b, e) = DiskOf(dbase, b, e)
        BY <2>1 DEF StoredOf
      <4> QED BY <3>1, <3>3, <2>1, <2>3, <2>4, <2>6, <4>1, <4>2, <4>3
              DEF Dropped, OnDiskToo, Fresh, Created, StampOf
    <3> QED BY <3>2, <3>3
  <2> QED BY <2>6, <2>7, <2>8 DEF MapCopies, StoredAlike, SameStored, KeepsEntries
<1> QED BY <1>1, <1>2

\* A block that is to be written may hold any more of what is alive.
MayBecome(block, old, a, c) ==
    /\ block.modified /\ block.stamp = old.stamp
    /\ \A e \in Entities : block.stored[e] # old.stored[e] => e \in a /\ e \in c

\* What is stored in map m2 is what is stored in m, but for block b.
StoredBut(m2, m, d, b, block) ==
    \A x \in Blocks, e \in Entities :
        /\ x = b => StoredOf(m2, d, x, e) = block.stored[e]
        /\ x # b => StoredOf(m2, d, x, e) = StoredOf(m, d, x, e)

LEMMA ChangeBlock ==
    ASSUME NEW m, MapType(m), NEW b, b \in DOMAIN m, NEW block,
           NEW a, NEW w, NEW c, MapCopies(m, dbase, a, w, c), MayBecome(block, m[b], a, c),
           NEW m2, m2 = [m EXCEPT ![b] = block]
    PROVE  MapCopies(m2, dbase, a, w, c) /\ StoredBut(m2, m, dbase, b, block)
<1> USE DEF MayBecome
<1>1. DOMAIN m2 = DOMAIN m /\ m2[b] = block /\ \A x \in DOMAIN m : x # b => m2[x] = m[x]
  BY DEF MapType
<1>2. ASSUME NEW x \in Blocks, NEW e \in Entities
      PROVE  /\ Dropped(m2, dbase, a, x, e) /\ OnDiskToo(m2, dbase, a, x, e)
             /\ Fresh(m2, dbase, a, w, x, e) /\ Created(m2, dbase, c, x, e)
  <2>1. /\ Dropped(m, dbase, a, x, e) /\ OnDiskToo(m, dbase, a, x, e)
        /\ Fresh(m, dbase, a, w, x, e) /\ Created(m, dbase, c, x, e)
    BY DEF MapCopies
  <2>2. CASE x = b
    <3>1. x \in DOMAIN m2 /\ x \in DOMAIN m /\ m2[x] = block
      BY <1>1, <2>2
    <3>2. m2[x].modified /\ m2[x].stamp = m[x].stamp
          /\ (m2[x].stored[e] # m[x].stored[e] => e \in a /\ e \in c)
      BY <2>2, <3>1
    <3>3. Dropped(m2, dbase, a, x, e)
      BY <2>1, <3>1, <3>2 DEF Dropped, StoredOf, StampOf
    <3>4. OnDiskToo(m2, dbase, a, x, e)
      BY <3>2 DEF OnDiskToo
    <3>5. Fresh(m2, dbase, a, w, x, e)
      BY <2>1, <3>1, <3>2 DEF Fresh
    <3>6. Created(m2, dbase, c, x, e)
      BY <2>1, <3>1, <3>2 DEF Created, StoredOf
    <3> QED BY <3>3, <3>4, <3>5, <3>6
  <2>3. CASE x # b
    <3>1. (x \in DOMAIN m2 <=> x \in DOMAIN m) /\ (x \in DOMAIN m => m2[x] = m[x])
      BY <1>1, <2>3
    <3> QED BY <2>1, <3>1 DEF Dropped, OnDiskToo, Fresh, Created, StoredOf, StampOf, HasEntry
  <2> QED BY <2>2, <2>3
<1>3. StoredBut(m2, m, dbase, b, block)
  BY <1>1 DEF StoredOf, StoredBut
<1> QED BY <1>2, <1>3 DEF MapCopies

\* Static data that is deleted from its block, which is then to be written,
\* was no stored copy.
LEMMA DeleteCopies ==
    ASSUME NEW m, MapType(m), DbaseType, NEW id \in Ids, NEW o \in ServerActiveObject,
           NEW a, NEW w, NEW c, MapCopies(m, dbase, a, w, c),
           NEW d, d = deleteStaticFromBlock(m, id, o, TRUE)
    PROVE  /\ MapCopies(d.map, dbase, a, w, c)
           /\ StoredAlike(d.map, m, dbase) /\ KeepsEntries(d.map, m, id)
<1> DEFINE b == o.static_block
           m2 == IF b = None THEN m ELSE emergeBlock(m, b, FALSE)
<1>1. /\ MapType(m2) /\ MapCopies(m2, dbase, a, w, c)
      /\ StoredAlike(m2, m, dbase) /\ KeepsEntries(m2, m, id)
  <2>1. CASE b = None
    BY <2>1 DEF StoredAlike, SameStored, KeepsEntries
  <2>2. CASE b # None
    <3>1. b \in Blocks /\ m2 = emergeBlock(m, b, FALSE)
      BY <2>2 DEF ServerActiveObject
    <3> HIDE DEF m2, b
    <3>2. MapType(m2)
      BY <3>1, EmergeBlock
    <3> QED BY <3>1, <3>2, EmergeCopies
  <2> QED BY <2>1, <2>2
<1>2. CASE b = None \/ b \notin DOMAIN m2
  <2>1. d.map = m2
    BY <1>2 DEF deleteStaticFromBlock
  <2> QED BY <1>1, <2>1
<1>3. CASE b # None /\ b \in DOMAIN m2
  <2> DEFINE block == [m2[b] EXCEPT !.active = Without(@, {id}), !.modified = @ \/ TRUE]
             now == d.map
  <2>1. now = [m2 EXCEPT ![b] = block]
    BY <1>3 DEF deleteStaticFromBlock
  <2> HIDE DEF m2
  <2>2. m2[b] \in MapBlock
    BY <1>1, <1>3 DEF MapType
  <2>3. /\ block.modified /\ block.stamp = m2[b].stamp /\ block.stored = m2[b].stored
        /\ block.active = Without(m2[b].active, {id})
    BY <2>2 DEF MapBlock
  <2> HIDE DEF block, b, now
  <2>4. MapCopies(now, dbase, a, w, c) /\ StoredBut(now, m2, dbase, b, block)
    <3>1. MayBecome(block, m2[b], a, c)
      BY <2>3 DEF MayBecome
    <3> QED BY <1>1, <1>3, <3>1, <2>1, ChangeBlock
  <2>5. StoredAlike(now, m, dbase)
    <3>1. \A e \in Entities : StoredOf(m2, dbase, b, e) = m2[b].stored[e]
      BY <1>3 DEF StoredOf
    <3> QED BY <1>1, <2>3, <2>4, <3>1 DEF StoredAlike, SameStored, StoredBut
  <2>6. KeepsEntries(now, m, id)
    <3>1. DOMAIN now = DOMAIN m2 /\ now[b] = block /\ \A x \in DOMAIN m2 : x # b => now[x] = m2[x]
      BY <1>1, <1>3, <2>1 DEF MapType
    <3>2. DOMAIN block.active = DOMAIN m2[b].active \ {id}
      BY <2>3 DEF Without
    <3> QED BY <1>1, <3>1, <3>2 DEF KeepsEntries, Entry
  <2> QED BY <2>4, <2>5, <2>6 DEF now
<1> QED BY <1>2, <1>3

\* Static data of what is alive that is saved in a block, which is then to be
\* written, is an entry under an id or one stored copy more.
LEMMA SaveCopies ==
    ASSUME NEW m, MapType(m), DbaseType, NEW b \in Blocks, NEW store_id \in Ids \cup {None},
           NEW o \in ServerActiveObject, NEW a, NEW w, NEW c, MapCopies(m, dbase, a, w, c),
           o.entity \in a, o.entity \in c, ~Full(m, b),
           NEW s, s = saveStaticToBlock(m, b, store_id, o, TRUE)
    PROVE  /\ MapCopies(s.map, dbase, a, w, c)
           /\ StoredFor(s.map, m, dbase, b, store_id, o.entity)
           /\ \A id : KeepsEntries(s.map, m, id)
           /\ store_id # None => Entry(s.map, b, store_id)
<1> DEFINE m2 == emergeBlock(m, b, TRUE)
           now == s.map
<1>1. /\ MapType(m2) /\ MapCopies(m2, dbase, a, w, c) /\ b \in DOMAIN m2
      /\ StoredAlike(m2, m, dbase) /\ \A id : KeepsEntries(m2, m, id)
  <2>1. MapType(m2) /\ b \in DOMAIN m2
    BY EmergeBlock
  <2>2. PICK r : r = m2
    OBVIOUS
  <2>3. MapCopies(r, dbase, a, w, c) /\ StoredAlike(r, m, dbase) /\ \A id : KeepsEntries(r, m, id)
    BY <2>2, EmergeCopies
  <2> QED BY <2>1, <2>2, <2>3
<1> DEFINE stored == IF store_id = None THEN Plus(m2[b].stored, o.entity) ELSE m2[b].stored
           active == IF store_id = None THEN m2[b].active
                     ELSE With(m2[b].active, store_id, o.entity)
           block == [m2[b] EXCEPT !.stored = stored, !.active = active, !.modified = @ \/ TRUE]
<1>2. now = [m2 EXCEPT ![b] = block]
  <2>1. ~(StoredSize(m2[b].stored) >= MaxObjectsPerBlock)
    BY DEF Full, StoredIn
  <2> QED BY <2>1 DEF saveStaticToBlock
<1> HIDE DEF m2, now
<1>3. m2[b] \in MapBlock
  BY <1>1 DEF MapType
<1>4. m2[b].stored \in [Entities -> Nat] /\ o.entity \in Entities
  BY <1>3 DEF MapBlock, Stored, ServerActiveObject
<1>5. /\ store_id = None => /\ stored[o.entity] = m2[b].stored[o.entity] + 1
                            /\ \A e \in Entities : e # o.entity => stored[e] = m2[b].stored[e]
      /\ store_id # None => stored = m2[b].stored
      /\ DOMAIN m2[b].active \subseteq DOMAIN active
      /\ store_id # None => store_id \in DOMAIN active
  BY <1>4 DEF Plus, With
<1> HIDE DEF stored, active
<1>6. block.modified /\ block.stamp = m2[b].stamp /\ block.stored = stored /\ block.active = active
  BY <1>3 DEF MapBlock
<1> HIDE DEF block
<1>7. MayBecome(block, m2[b], a, c)
  BY <1>4, <1>5, <1>6 DEF MayBecome
<1>8. MapCopies(now, dbase, a, w, c) /\ StoredBut(now, m2, dbase, b, block)
  BY <1>1, <1>2, <1>6, <1>7, ChangeBlock
<1>9. DOMAIN now = DOMAIN m2 /\ now[b] = block /\ \A x \in DOMAIN m2 : x # b => now[x] = m2[x]
  BY <1>1, <1>2 DEF MapType
<1>10. (\A id : KeepsEntries(now, m, id)) /\ (store_id # None => Entry(now, b, store_id))
  <2>1. \A x, i : Entry(m2, x, i) => Entry(now, x, i)
    BY <1>1, <1>5, <1>6, <1>9 DEF Entry
  <2>2. store_id # None => Entry(now, b, store_id)
    BY <1>1, <1>5, <1>6, <1>9 DEF Entry
  <2> QED BY <1>1, <2>1, <2>2 DEF KeepsEntries
<1>11. StoredFor(now, m, dbase, b, store_id, o.entity)
  <2>1. \A e \in Entities : StoredOf(m, dbase, b, e) = m2[b].stored[e]
    BY <1>1 DEF StoredOf, StoredAlike, SameStored
  <2>2. CASE store_id = None
    <3>1. StoredMore(now, m, dbase, b, o.entity)
      BY <1>1, <1>4, <1>5, <1>6, <1>8, <2>1, <2>2 DEF StoredMore, StoredAlike, SameStored, StoredBut
    <3> QED BY <2>2, <3>1 DEF StoredFor
  <2>3. CASE store_id # None
    <3>1. StoredAlike(now, m, dbase)
      BY <1>1, <1>5, <1>6, <1>8, <2>1, <2>3 DEF StoredAlike, SameStored, StoredBut
    <3> QED BY <2>3, <3>1 DEF StoredFor
  <2> QED BY <2>2, <2>3
<1> QED BY <1>8, <1>10, <1>11 DEF now

\* Of the active static data of a block only that under this id is of e.
OnlyEntry(active, id, e) == \A i \in DOMAIN active : active[i] = e => i = id

\* Block b has the static data of object o.
InItsBlock(m, b, id, o) ==
    /\ b \in Blocks /\ b = o.static_block
    /\ Entry(m, b, id) /\ m[b].active[id] = o.entity
    /\ OnlyEntry(m[b].active, id, o.entity)

\* Static data that stays in its block as it is makes no reason to write it:
\* the entry of an object becomes the stored copy that is on disk already.
LEMMA KeepCopies ==
    ASSUME NEW m, MapType(m), DbaseType, NEW id \in Ids, NEW o \in ServerActiveObject,
           NEW b, InItsBlock(m, b, id, o),
           NEW a, NEW w, NEW c, MapCopies(m, dbase, a, w, c), o.entity \in a, o.entity \in c,
           NEW store_id, store_id = None \/ store_id = id, ~Full(m, b),
           NEW d, d = deleteStaticFromBlock(m, id, o, FALSE),
           NEW s, s = saveStaticToBlock(d.map, b, store_id, d.obj, FALSE)
    PROVE  /\ MapCopies(s.map, dbase, a, w, c)
           /\ StoredFor(s.map, m, dbase, b, store_id, o.entity)
           /\ KeepsEntries(s.map, m, id)
           /\ store_id # None => Entry(s.map, b, store_id)
<1> DEFINE e == o.entity
           now == s.map
<1> USE DEF InItsBlock
<1>1. b \in DOMAIN m /\ id \in DOMAIN m[b].active /\ m[b] \in MapBlock /\ e \in Entities
      /\ b # None /\ m[b].stored \in [Entities -> Nat] /\ id # None
  BY DEF Entry, MapType, MapBlock, Stored, ServerActiveObject
<1> DEFINE block1 == [m[b] EXCEPT !.active = Without(@, {id}), !.modified = @ \/ FALSE]
<1>2. d.map = [m EXCEPT ![b] = block1] /\ d.obj = [o EXCEPT !.static_block = None]
  <2>1. emergeBlock(m, b, FALSE) = m
    BY <1>1 DEF emergeBlock
  <2> QED BY <1>1, <2>1 DEF deleteStaticFromBlock
<1>3. /\ block1.active = Without(m[b].active, {id}) /\ block1.modified = m[b].modified
      /\ block1.stored = m[b].stored /\ block1.stamp = m[b].stamp
      /\ block1 \in MapBlock
  <2>1. Without(m[b].active, {id}) \in EntityTables
    BY <1>1, WithoutTable DEF MapBlock
  <2> QED BY <1>1, <2>1 DEF MapBlock
<1> HIDE DEF block1
<1>4. /\ DOMAIN d.map = DOMAIN m /\ d.map[b] = block1 /\ \A x \in DOMAIN m : x # b => d.map[x] = m[x]
      /\ d.map = [x \in DOMAIN m |-> d.map[x]]
      /\ d.obj.entity = e
  <2>1. d.obj.entity = e
    BY <1>2 DEF ServerActiveObject
  <2>2. m = [x \in DOMAIN m |-> m[x]]
    BY DEF MapType
  <2> QED BY <1>1, <1>2, <2>1, <2>2
<1> DEFINE stored == IF store_id = None THEN Plus(m[b].stored, e) ELSE m[b].stored
           active == IF store_id = None THEN Without(m[b].active, {id})
                     ELSE With(Without(m[b].active, {id}), id, e)
<1>5. /\ DOMAIN now = DOMAIN m /\ \A x \in DOMAIN m : x # b => now[x] = m[x]
      /\ now[b].stored = stored /\ now[b].active = active
      /\ now[b].modified = m[b].modified /\ now[b].stamp = m[b].stamp
  <2>1. emergeBlock(d.map, b, TRUE) = d.map
    BY <1>1, <1>4 DEF emergeBlock
  <2>2. ~(StoredSize(d.map[b].stored) >= MaxObjectsPerBlock)
    <3>1. emergeBlock(m, b, TRUE) = m
      BY <1>1 DEF emergeBlock
    <3> QED BY <1>3, <1>4, <3>1 DEF Full, StoredIn
  <2> DEFINE block2 == [d.map[b] EXCEPT
                     !.stored = IF store_id = None THEN Plus(@, d.obj.entity) ELSE @,
                     !.active = IF store_id = None THEN @ ELSE With(@, store_id, d.obj.entity),
                     !.modified = @ \/ FALSE]
  <2>3. now = [d.map EXCEPT ![b] = block2]
    BY <2>1, <2>2 DEF saveStaticToBlock
  <2>4. /\ block2.stored = stored /\ block2.active = active
        /\ block2.modified = m[b].modified /\ block2.stamp = m[b].stamp
    <3>1. m[b].modified \in BOOLEAN
      BY <1>1 DEF MapBlock
    <3>2. d.map[b] = block1 /\ d.obj.entity = e
      BY <1>4
    <3> QED BY <1>3, <3>1, <3>2 DEF MapBlock
  <2> HIDE DEF block2, now
  <2> QED BY <1>1, <1>4, <2>3, <2>4
<1>6. /\ store_id = None => /\ stored[e] = m[b].stored[e] + 1
                            /\ \A i \in Entities : i # e => stored[i] = m[b].stored[i]
                            /\ DOMAIN active = DOMAIN m[b].active \ {id}
      /\ store_id # None => stored = m[b].stored /\ DOMAIN active = DOMAIN m[b].active
      /\ \A i \in DOMAIN active : active[i] = m[b].active[i]
  BY <1>1 DEF Plus, With, Without
<1> HIDE DEF stored, active, now
<1>7. \A i \in Entities : HasEntry(now, b, i) <=> HasEntry(m, b, i) /\ (i = e => store_id # None)
  <2>1. m[b].active[id] = e
    OBVIOUS
  <2> HIDE DEF e
  <2> QED BY <1>1, <1>5, <1>6, <2>1 DEF HasEntry, OnlyEntry
<1>8. HasEntry(m, b, e)
  BY <1>1 DEF HasEntry
<1>9. ASSUME NEW x \in Blocks, NEW i \in Entities
      PROVE  /\ Dropped(now, dbase, a, x, i) /\ OnDiskToo(now, dbase, a, x, i)
             /\ Fresh(now, dbase, a, w, x, i) /\ Created(now, dbase, c, x, i)
  <2>1. /\ Dropped(m, dbase, a, x, i) /\ OnDiskToo(m, dbase, a, x, i)
        /\ Fresh(m, dbase, a, w, x, i) /\ Created(m, dbase, c, x, i)
    BY DEF MapCopies
  <2>2. CASE x # b
    <3>1. (x \in DOMAIN now <=> x \in DOMAIN m) /\ (x \in DOMAIN m => now[x] = m[x])
      BY <1>5, <2>2
    <3> QED BY <2>1, <3>1 DEF Dropped, OnDiskToo, Fresh, Created, StoredOf, StampOf, HasEntry
  <2>3. CASE x = b
    <3>1. x \in DOMAIN now /\ x \in DOMAIN m /\ now[x].stamp = m[x].stamp
          /\ now[x].modified = m[x].modified
      BY <1>1, <1>5, <2>3
    <3>2. CASE i = e
      <4>1. OnDiskToo(now, dbase, a, x, i)
        <5>1. now[x].stored[i] + (IF HasEntry(now, x, i) THEN 1 ELSE 0)
                = m[x].stored[i] + (IF HasEntry(m, x, i) THEN 1 ELSE 0)
          BY <1>1, <1>5, <1>6, <1>7, <1>8, <2>3, <3>2
        <5> QED BY <2>1, <3>1, <3>2, <5>1 DEF OnDiskToo
      <4> QED BY <2>1, <3>1, <3>2, <4>1 DEF Dropped, Fresh, Created
    <3>3. CASE i # e
      <4>1. now[x].stored[i] = m[x].stored[i] /\ (HasEntry(now, x, i) <=> HasEntry(m, x, i))
        BY <1>5, <1>6, <1>7, <2>3, <3>3
      <4> QED BY <2>1, <3>1, <4>1 DEF Dropped, OnDiskToo, Fresh, Created, StoredOf, StampOf
    <3> QED BY <3>2, <3>3
  <2> QED BY <2>2, <2>3
<1>10. StoredFor(now, m, dbase, b, store_id, e)
  <2>1. CASE store_id = None
    BY <1>1, <1>5, <1>6, <2>1 DEF StoredFor, StoredMore, StoredOf
  <2>2. CASE store_id # None
    BY <1>1, <1>5, <1>6, <2>2 DEF StoredFor, StoredAlike, SameStored, StoredOf
  <2> QED BY <2>1, <2>2
<1>11. KeepsEntries(now, m, id) /\ (store_id # None => Entry(now, b, store_id))
  BY <1>1, <1>5, <1>6 DEF KeepsEntries, Entry
<1> QED BY <1>9, <1>10, <1>11 DEF MapCopies, now

\* The same objects stand for what is in a.
SameHolders(f2, f, a) ==
    \A e \in a : \A id : id \in DOMAIN f2 /\ f2[id].entity = e <=> id \in DOMAIN f /\ f[id].entity = e

LEMMA PlacesStay ==
    ASSUME NEW f, NEW m, NEW d, NEW a, OnePlace(f, m, d, a), NEW f2, NEW m2, NEW d2,
           NEW a2 \in SUBSET a, SameHolders(f2, f, a2), SameStored(m2, d2, m, d, a2)
    PROVE  OnePlace(f2, m2, d2, a2)
<1> SUFFICES ASSUME NEW e \in a2 PROVE IsObject(f2, m2, d2, e) \/ IsStored(f2, m2, d2, e)
  BY DEF OnePlace
<1>1. IsObject(f, m, d, e) \/ IsStored(f, m, d, e)
  BY DEF OnePlace
<1>2. \A id : id \in DOMAIN f2 /\ f2[id].entity = e <=> id \in DOMAIN f /\ f[id].entity = e
  BY DEF SameHolders
<1>3. \A b \in Blocks : StoredOf(m2, d2, b, e) = StoredOf(m, d, b, e)
  BY DEF SameStored
<1>4. CASE IsObject(f, m, d, e)
  <2>1. PICK id \in DOMAIN f : f[id].entity = e /\ \A i \in DOMAIN f : f[i].entity = e => i = id
    BY <1>4 DEF IsObject
  <2>2. id \in DOMAIN f2 /\ f2[id].entity = e /\ \A i \in DOMAIN f2 : f2[i].entity = e => i = id
    BY <1>2, <2>1
  <2>3. \A b \in Blocks : StoredOf(m2, d2, b, e) = 0
    BY <1>3, <1>4 DEF IsObject
  <2> QED BY <2>2, <2>3 DEF IsObject
<1>5. CASE IsStored(f, m, d, e)
  <2>1. \A id \in DOMAIN f2 : f2[id].entity # e
    BY <1>2, <1>5 DEF IsStored
  <2>2. PICK b \in Blocks : StoredOf(m, d, b, e) = 1
                            /\ \A x \in Blocks : x # b => StoredOf(m, d, x, e) = 0
    BY <1>5 DEF IsStored
  <2>3. StoredOf(m2, d2, b, e) = 1 /\ \A x \in Blocks : x # b => StoredOf(m2, d2, x, e) = 0
    BY <1>3, <2>2
  <2> QED BY <2>1, <2>3 DEF IsStored
<1> QED BY <1>1, <1>4, <1>5

\* An object becomes a stored copy.
LEMMA PlaceStores ==
    ASSUME NEW f, NEW m, NEW d, NEW a \in SUBSET Entities, OnePlace(f, m, d, a),
           NEW id \in DOMAIN f, f[id].entity \in a, NEW m2, NEW b \in Blocks,
           StoredMore(m2, m, d, b, f[id].entity)
    PROVE  OnePlace(Without(f, {id}), m2, d, a)
<1> DEFINE f2 == Without(f, {id})
<1> SUFFICES ASSUME NEW e \in a PROVE IsObject(f2, m2, d, e) \/ IsStored(f2, m2, d, e)
  BY DEF OnePlace
<1>1. IsObject(f, m, d, e) \/ IsStored(f, m, d, e)
  BY DEF OnePlace
<1>2. DOMAIN f2 = DOMAIN f \ {id} /\ \A i \in DOMAIN f2 : f2[i] = f[i]
  BY DEF Without
<1> HIDE DEF f2
<1>3. CASE f[id].entity = e
  <2>1. IsObject(f, m, d, e)
    BY <1>1, <1>3 DEF IsStored
  <2>2. /\ \A i \in DOMAIN f : f[i].entity = e => i = id
        /\ \A x \in Blocks : StoredOf(m, d, x, e) = 0
    BY <1>3, <2>1 DEF IsObject
  <2>3. StoredOf(m2, d, b, e) = 1 /\ \A x \in Blocks : x # b => StoredOf(m2, d, x, e) = 0
    BY <1>3, <2>2 DEF StoredMore
  <2>4. \A i \in DOMAIN f2 : f2[i].entity # e
    BY <1>2, <2>2
  <2> QED BY <2>3, <2>4 DEF IsStored
<1>4. CASE f[id].entity # e
  <2>1. \A x \in Blocks : StoredOf(m2, d, x, e) = StoredOf(m, d, x, e)
    BY <1>4 DEF StoredMore
  <2>2. CASE IsObject(f, m, d, e)
    <3>1. PICK i \in DOMAIN f : f[i].entity = e /\ \A j \in DOMAIN f : f[j].entity = e => j = i
      BY <2>2 DEF IsObject
    <3>2. i \in DOMAIN f2 /\ f2[i].entity = e /\ \A j \in DOMAIN f2 : f2[j].entity = e => j = i
      BY <1>2, <1>4, <3>1
    <3> QED BY <2>1, <2>2, <3>2 DEF IsObject
  <2>3. CASE IsStored(f, m, d, e)
    BY <1>2, <2>1, <2>3 DEF IsStored
  <2> QED BY <1>1, <2>2, <2>3
<1> QED BY <1>3, <1>4

\* What dies while it is stored nowhere leaves the map as it should be.
LEMMA MapDies ==
    ASSUME NEW m, NEW d, NEW a, NEW w, NEW c, MapCopies(m, d, a, w, c), NEW S,
           \A e \in a \cap S, b \in Blocks : StoredOf(m, d, b, e) = 0
    PROVE  MapCopies(m, d, a \ S, w, c)
<1> SUFFICES ASSUME NEW b \in Blocks, NEW e \in Entities
             PROVE  /\ Dropped(m, d, a \ S, b, e) /\ OnDiskToo(m, d, a \ S, b, e)
                    /\ Fresh(m, d, a \ S, w, b, e) /\ Created(m, d, c, b, e)
  BY DEF MapCopies
<1>1. /\ Dropped(m, d, a, b, e) /\ OnDiskToo(m, d, a, b, e)
      /\ Fresh(m, d, a, w, b, e) /\ Created(m, d, c, b, e)
  BY DEF MapCopies
<1>2. CASE e \in a \cap S
  <2>1. StoredOf(m, d, b, e) = 0 /\ e \in a /\ e \notin a \ S
    BY <1>2
  <2>2. OnDiskToo(m, d, a \ S, b, e)
    <3>1. b \in DOMAIN m => m[b].stored[e] = 0
      BY <2>1 DEF StoredOf
    <3> QED BY <1>1, <2>1, <3>1 DEF OnDiskToo
  <2> QED BY <1>1, <2>1, <2>2 DEF Dropped, Fresh, StoredOf
<1>3. CASE e \notin a \cap S
  <2>1. e \in a \ S <=> e \in a
    BY <1>3
  <2> QED BY <1>1, <2>1 DEF Dropped, OnDiskToo, Fresh
<1> QED BY <1>2, <1>3

\* The objects but id stay as they are, alive or not.
OthersStay(f2, f, a2, a, id) ==
    \A i \in DOMAIN f2 : i # id =>
        /\ i \in DOMAIN f /\ f2[i] = f[i]
        /\ f[i].entity \in a <=> f[i].entity \in a2

\* One object changes or goes, with the entries of its id.
LEMMA ObjectCopyChanges ==
    ASSUME NEW f, NEW m, NEW a, NEW c, NEW stopping, ObjectCopies(f, m, a, c, stopping),
           NEW f2, NEW m2, NEW a2, NEW c2, c \subseteq c2, NEW id,
           KeepsEntries(m2, m, id), NoMoreEntries(m2, m, id),
           OthersStay(f2, f, a2, a, id),
           id \in DOMAIN f2 => ObjectCopy(f2[id], id, m2, a2, c2, stopping)
    PROVE  ObjectCopies(f2, m2, a2, c2, stopping)
<1> SUFFICES ASSUME NEW i \in DOMAIN f2 PROVE ObjectCopy(f2[i], i, m2, a2, c2, stopping)
  BY DEF ObjectCopies
<1>0. CASE i = id
  BY <1>0
<1> SUFFICES ASSUME i # id PROVE ObjectCopy(f2[i], i, m2, a2, c2, stopping)
  BY <1>0
<1>1. i \in DOMAIN f /\ f2[i] = f[i] /\ (f[i].entity \in a2 <=> f[i].entity \in a)
  BY DEF OthersStay
<1>2. ObjectCopy(f[i], i, m, a, c, stopping)
  BY <1>1 DEF ObjectCopies
<1>3. \A x : Entry(m2, x, i) <=> Entry(m, x, i)
  BY DEF KeepsEntries, NoMoreEntries
<1> QED BY <1>1, <1>2, <1>3 DEF ObjectCopy

-----------------------------------------------------------------------------
(* Objects that are moved, deactivated and stored                          *)

\* What CopyInv says of the object id.
LEMMA ObjectFacts ==
    ASSUME CopyInv, NEW id \in Objects
    PROVE  /\ id \in Ids /\ id \in DOMAIN m_active_objects /\ id # None
           /\ m_active_objects[id] \in ServerActiveObject
           /\ m_active_objects[id].entity \in Entities /\ m_active_objects[id].entity \in created
           /\ m_active_objects[id].pos \in Blocks
           /\ ObjectCopy(m_active_objects[id], id, m_map, alive, created, pc = "shutdown")
           /\ MapType(m_map) /\ DbaseType /\ ObjectsType(m_active_objects)
           /\ EntriesOf(m_map, m_active_objects)
           /\ MapCopies(m_map, dbase, alive, WasActive, created)
           /\ alive \in SUBSET Entities
<1>1. TypeOK /\ StaticEntries
  BY DEF CopyInv, IInv
<1>2. /\ id \in Ids /\ m_active_objects[id] \in ServerActiveObject
      /\ MapType(m_map) /\ DbaseType /\ ObjectsType(m_active_objects)
  BY <1>1, Types
<1>3. EntriesOf(m_map, m_active_objects)
  BY <1>1, StaticEntriesOf
<1>4. /\ ObjectCopy(m_active_objects[id], id, m_map, alive, created, pc = "shutdown")
      /\ m_active_objects[id].entity \in created
  BY DEF CopyInv, AllPlaces, ObjectCopies, ObjectCopy, Objects
<1>5. alive \in SUBSET Entities
  BY <1>1 DEF TypeOK
<1> QED BY <1>2, <1>3, <1>4, <1>5 DEF CopyInv, AllPlaces, ServerActiveObject, Objects

\* What is alive and an object is no other object and stored nowhere.
LEMMA OnlyObject ==
    ASSUME CopyInv, NEW id \in Objects, m_active_objects[id].entity \in alive
    PROVE  /\ \A i \in Objects : m_active_objects[i].entity = m_active_objects[id].entity => i = id
           /\ \A b \in Blocks : StoredOf(m_map, dbase, b, m_active_objects[id].entity) = 0
<1> DEFINE e == m_active_objects[id].entity
<1>1. IsObject(m_active_objects, m_map, dbase, e)
  BY DEF CopyInv, AllPlaces, OnePlace, IsStored, Objects
<1> QED BY <1>1 DEF IsObject, Objects

\* What an object becomes when it is deactivated.
Deactivated(o, old) ==
    /\ o \in ServerActiveObject
    /\ o.entity = old.entity /\ o.static_block = old.pos /\ o.pending_deactivation
    /\ o.pending_removal = old.pending_removal

LEMMA Settles ==
    ASSUME CopyInv, RoomInBlocks, NEW id \in Objects, m_active_objects[id].static_allowed,
           m_active_objects[id].entity \in alive, NEW pending \in BOOLEAN,
           NEW data_changed \in DataChanged(id), DeactivateObject(id, pending, data_changed)
    PROVE  /\ MapCopies(m_map', dbase, alive, WasActive, created)
           /\ StoredFor(m_map', m_map, dbase, m_active_objects[id].pos,
                        IF pending THEN id ELSE None, m_active_objects[id].entity)
           /\ KeepsEntries(m_map', m_map, id) /\ NoMoreEntries(m_map', m_map, id)
           /\ alive' = alive
           /\ ~pending => m_active_objects' = Without(m_active_objects, {id})
           /\ pending => /\ Entry(m_map', m_active_objects[id].pos, id)
                         /\ \E o : /\ m_active_objects' = [m_active_objects EXCEPT ![id] = o]
                                   /\ Deactivated(o, m_active_objects[id])
<1> DEFINE old == m_active_objects[id]
           e == old.entity
           shall_be_written == old.static_block # old.pos \/ data_changed
           d == deleteStaticFromBlock(m_map, id, old, shall_be_written)
           store_id == IF pending THEN id ELSE None
           s == saveStaticToBlock(d.map, old.pos, store_id, d.obj, shall_be_written)
<1>1. /\ m_map' = s.map
      /\ m_active_objects' =
           IF pending /\ s.ok
           THEN [m_active_objects EXCEPT ![id] = [s.obj EXCEPT !.pending_deactivation = TRUE]]
           ELSE Without(m_active_objects, {id})
      /\ alive' = IF s.ok THEN alive ELSE alive \ {old.entity}
  BY DEF DeactivateObject
<1>2. /\ id \in Ids /\ id # None /\ old \in ServerActiveObject /\ old.pos \in Blocks
      /\ e \in created /\ MapType(m_map) /\ DbaseType /\ ObjectsType(m_active_objects)
      /\ EntriesOf(m_map, m_active_objects)
      /\ MapCopies(m_map, dbase, alive, WasActive, created)
  BY ObjectFacts
<1>3. PICK w \in BOOLEAN : w = shall_be_written
  OBVIOUS
<1>4. d = deleteStaticFromBlock(m_map, id, old, w) /\ s = saveStaticToBlock(d.map, old.pos, store_id, d.obj, w)
  BY <1>3
<1>5. store_id \in Ids \cup {None} /\ store_id \in {None, id} /\ (pending <=> store_id # None)
  BY <1>2
<1>6. StoredIn(d.map, old.pos) = StoredIn(m_map, old.pos)
  BY <1>2, <1>4, DeleteKeepsStored
<1>7. ~w => /\ old.static_block = old.pos /\ Entry(m_map, old.pos, id)
            /\ m_map[old.pos].active[id] = e
  <2> SUFFICES ASSUME ~w PROVE /\ old.static_block = old.pos /\ Entry(m_map, old.pos, id)
                               /\ m_map[old.pos].active[id] = e
    OBVIOUS
  <2>1. old.static_block = old.pos /\ data_changed = FALSE
    <3>1. data_changed \in BOOLEAN
      BY DEF DataChanged
    <3> QED BY <1>3, <3>1
  <2>2. Entry(emergeBlock(m_map, old.pos, FALSE), old.pos, id)
    BY <2>1 DEF DataChanged, Entry
  <2>3. Entry(m_map, old.pos, id)
    BY <1>2, <2>2, EmergeBlock DEF SubEntries
  <2> QED BY <1>2, <2>1, <2>3 DEF EntriesOf
<1> HIDE DEF shall_be_written, d, s, store_id, old, e
<1>8. /\ MapType(d.map) /\ d.obj \in ServerActiveObject
      /\ d.obj = old \/ d.obj = [old EXCEPT !.static_block = None]
      /\ SubEntries(d.map, m_map)
  BY <1>2, <1>4, DeleteStatic
<1>9. /\ d.obj.entity = e /\ d.obj.pending_removal = old.pending_removal
  BY <1>2, <1>8 DEF ServerActiveObject, e
<1>10. e \in alive /\ old.static_allowed
  BY DEF e, old
<1>11. ~Full(m_map, old.pos) /\ ~Full(d.map, old.pos)
  BY <1>2, <1>6 DEF RoomInBlocks, Full
<1>12. Saved(s, d.map, old.pos, store_id, d.obj)
  BY <1>2, <1>4, <1>5, <1>8, SaveStatic
<1>13. /\ s.ok /\ s.ok \in BOOLEAN /\ s.obj = [d.obj EXCEPT !.static_block = old.pos]
       /\ s.obj \in ServerActiveObject
       /\ store_id # None => AddsEntry(s.map, d.map, old.pos, store_id, d.obj.entity)
       /\ store_id = None => SubEntries(s.map, d.map)
  BY <1>11, <1>12 DEF Saved
<1>14. NoMoreEntries(s.map, m_map, id)
  <2>1. \A x, i : i # id /\ Entry(s.map, x, i) => Entry(d.map, x, i)
    BY <1>5, <1>13 DEF AddsEntry, SubEntries
  <2> QED BY <1>8, <2>1 DEF NoMoreEntries, SubEntries
<1>15. /\ MapCopies(s.map, dbase, alive, WasActive, created)
       /\ StoredFor(s.map, m_map, dbase, old.pos, store_id, e)
       /\ KeepsEntries(s.map, m_map, id)
       /\ store_id # None => Entry(s.map, old.pos, store_id)
  <2>1. CASE w
    <3>1. d = deleteStaticFromBlock(m_map, id, old, TRUE)
          /\ s = saveStaticToBlock(d.map, old.pos, store_id, d.obj, TRUE)
      BY <1>4, <2>1
    <3>2. /\ MapCopies(d.map, dbase, alive, WasActive, created)
          /\ StoredAlike(d.map, m_map, dbase) /\ KeepsEntries(d.map, m_map, id)
      BY <1>2, <3>1, DeleteCopies
    <3>3. /\ MapCopies(s.map, dbase, alive, WasActive, created)
          /\ StoredFor(s.map, d.map, dbase, old.pos, store_id, d.obj.entity)
          /\ KeepsEntries(s.map, d.map, id)
          /\ store_id # None => Entry(s.map, old.pos, store_id)
      <4>1. PICK md, od, a, v, c, p :
                   md = d.map /\ od = d.obj /\ a = alive /\ v = WasActive /\ c = created /\ p = old.pos
        OBVIOUS
      <4>2. /\ MapType(md) /\ p \in Blocks /\ od \in ServerActiveObject
            /\ MapCopies(md, dbase, a, v, c) /\ ~Full(md, p)
            /\ od.entity \in a /\ od.entity \in c
            /\ s = saveStaticToBlock(md, p, store_id, od, TRUE)
        BY <1>2, <1>8, <1>9, <1>10, <1>11, <3>1, <3>2, <4>1
      <4>3. /\ MapCopies(s.map, dbase, a, v, c)
            /\ StoredFor(s.map, md, dbase, p, store_id, od.entity)
            /\ \A i : KeepsEntries(s.map, md, i)
            /\ store_id # None => Entry(s.map, p, store_id)
        BY <1>2, <1>5, <4>2, SaveCopies
      <4> QED BY <4>1, <4>3
    <3>4. StoredFor(s.map, m_map, dbase, old.pos, store_id, e)
      <4>1. e \in Entities
        BY <1>2, <1>10, ObjectFacts DEF e, old
      <4>2. CASE store_id = None
        BY <1>2, <1>9, <3>2, <3>3, <4>1, <4>2 DEF StoredFor, StoredMore, StoredAlike, SameStored
      <4>3. CASE store_id # None
        BY <3>2, <3>3, <4>3 DEF StoredFor, StoredAlike, SameStored
      <4> QED BY <4>2, <4>3
    <3>5. KeepsEntries(s.map, m_map, id)
      BY <3>2, <3>3 DEF KeepsEntries
    <3> QED BY <3>3, <3>4, <3>5
  <2>2. CASE ~w
    <3>1. d = deleteStaticFromBlock(m_map, id, old, FALSE)
          /\ s = saveStaticToBlock(d.map, old.pos, store_id, d.obj, FALSE)
      BY <1>4, <2>2
    <3>2. OnlyEntry(m_map[old.pos].active, id, e)
      <4>1. old.pos \in DOMAIN m_map
        BY <1>7, <2>2 DEF Entry
      <4>2. \A i \in DOMAIN m_map[old.pos].active :
               i \in Objects /\ m_active_objects[i].entity = m_map[old.pos].active[i]
        BY <1>2, <4>1 DEF EntriesOf, Entry, Objects
      <4> QED BY <4>2, <1>10, OnlyObject DEF OnlyEntry, e, old
    <3>3. PICK o, a, v, c, p :
                 o = old /\ a = alive /\ v = WasActive /\ c = created /\ p = old.pos
      OBVIOUS
    <3>4. e = o.entity
      BY <3>3 DEF e
    <3>5. /\ o \in ServerActiveObject /\ InItsBlock(m_map, p, id, o)
          /\ MapCopies(m_map, dbase, a, v, c) /\ ~Full(m_map, p)
          /\ o.entity \in a /\ o.entity \in c
      BY <1>2, <1>7, <1>10, <1>11, <2>2, <3>2, <3>3, <3>4 DEF InItsBlock
    <3>6. PICK d2 : d2 = d
      OBVIOUS
    <3>7. /\ d2 = deleteStaticFromBlock(m_map, id, o, FALSE)
          /\ s = saveStaticToBlock(d2.map, p, store_id, d2.obj, FALSE)
      BY <3>1, <3>3, <3>6
    <3>8. /\ MapCopies(s.map, dbase, a, v, c)
          /\ StoredFor(s.map, m_map, dbase, p, store_id, o.entity)
          /\ KeepsEntries(s.map, m_map, id)
          /\ store_id # None => Entry(s.map, p, store_id)
      <4>1. /\ MapType(m_map) /\ DbaseType /\ id \in Ids /\ store_id \in {None, id}
        BY <1>2, <1>5
      <4>2. ~Full(m_map, p) /\ MapCopies(m_map, dbase, a, v, c)
        BY <3>5
      <4> QED BY <3>5, <3>7, <4>1, <4>2, KeepCopies
    <3> QED BY <3>3, <3>4, <3>8
  <2> QED BY <2>1, <2>2
<1>16. DEFINE o == [s.obj EXCEPT !.pending_deactivation = TRUE]
<1>17. Deactivated(o, old)
  <2>1. /\ s.obj.entity = d.obj.entity /\ s.obj.static_block = old.pos
        /\ s.obj.pending_removal = d.obj.pending_removal
    BY <1>8, <1>13 DEF ServerActiveObject
  <2>2. /\ o \in ServerActiveObject /\ o.entity = s.obj.entity /\ o.static_block = s.obj.static_block
        /\ o.pending_deactivation /\ o.pending_removal = s.obj.pending_removal
    BY <1>13 DEF ServerActiveObject
  <2> QED BY <1>9, <2>1, <2>2 DEF Deactivated, e
<1>18. pending => m_active_objects' = [m_active_objects EXCEPT ![id] = o]
  BY <1>1, <1>13
<1>19. (~pending => m_active_objects' = Without(m_active_objects, {id})) /\ alive' = alive
  BY <1>1, <1>13
<1>20. store_id = IF pending THEN id ELSE None
  BY DEF store_id
<1> HIDE DEF o
<1> QED BY <1>1, <1>2, <1>5, <1>14, <1>15, <1>17, <1>18, <1>19, <1>20 DEF old, e

-----------------------------------------------------------------------------
(* Steps that move no copy                                                 *)

\* AllPlaces of the next state.
LEMMA AllPlacesNext ==
    ASSUME MapCopies(m_map', dbase', alive', WasActive', created'),
           ObjectCopies(m_active_objects', m_map', alive', created', pc' = "shutdown"),
           OnePlace(m_active_objects', m_map', dbase', alive'),
           Phases'
    PROVE  AllPlaces'
BY DEF AllPlaces, MapCopies, ObjectCopies, OnePlace, Dropped, OnDiskToo, Fresh, Created,
       StoredOf, StampOf, DiskOf, HasEntry, ObjectCopy, Gone, Entry, IsObject, IsStored

\* What AllPlaces says of an object is true of o if it is true of old.
AlikeObject(o, old) ==
    /\ o.entity = old.entity /\ o.static_block = old.static_block
    /\ o.pending_removal = old.pending_removal
    /\ o.pending_deactivation = old.pending_deactivation
    /\ o.static_allowed # old.static_allowed => ~Gone(old)

LEMMA AlikeCopies ==
    ASSUME NEW f, NEW m, NEW d, NEW a, NEW c, NEW stopping, NEW f2,
           ObjectCopies(f, m, a, c, stopping), OnePlace(f, m, d, a),
           DOMAIN f2 = DOMAIN f, \A id \in DOMAIN f : AlikeObject(f2[id], f[id])
    PROVE  ObjectCopies(f2, m, a, c, stopping) /\ OnePlace(f2, m, d, a)
<1>1. ObjectCopies(f2, m, a, c, stopping)
  <2> SUFFICES ASSUME NEW id \in DOMAIN f PROVE ObjectCopy(f2[id], id, m, a, c, stopping)
    BY DEF ObjectCopies
  <2>1. ObjectCopy(f[id], id, m, a, c, stopping)
    BY DEF ObjectCopies
  <2> QED BY <2>1 DEF ObjectCopy, AlikeObject, Gone
<1>2. SameHolders(f2, f, a)
  BY DEF SameHolders, AlikeObject
<1>3. SameStored(m, d, m, d, a)
  BY DEF SameStored
<1> QED BY <1>1, <1>2, <1>3, PlacesStay

LEMMA AlikeStep ==
    ASSUME CopyInv, UNCHANGED <<m_map, dbase, alive, created>>, WasActive' = WasActive, Phases',
           pc' = "shutdown" <=> pc = "shutdown",
           DOMAIN m_active_objects' = Objects,
           \A id \in Objects : AlikeObject(m_active_objects'[id], m_active_objects[id])
    PROVE  AllPlaces'
<1>1. /\ MapCopies(m_map, dbase, alive, WasActive, created)
      /\ ObjectCopies(m_active_objects, m_map, alive, created, pc = "shutdown")
      /\ OnePlace(m_active_objects, m_map, dbase, alive)
  BY DEF CopyInv, AllPlaces
<1>2. PICK stopping \in BOOLEAN : stopping = (pc = "shutdown") /\ stopping = (pc' = "shutdown")
  OBVIOUS
<1>3. /\ ObjectCopies(m_active_objects', m_map, alive, created, stopping)
      /\ OnePlace(m_active_objects', m_map, dbase, alive)
  BY <1>1, <1>2, AlikeCopies DEF Objects
<1> QED BY <1>1, <1>2, <1>3, AllPlacesNext

LEMMA UpdatePlaces ==
    ASSUME CopyInv, NEW new \in SUBSET Blocks, UpdateActiveBlocks(new)
    PROVE  AllPlaces'
<1>1. /\ pc = "idle" /\ pc' = "deactivate" /\ m_active_blocks' = new
      /\ removed' = m_active_blocks \ new /\ added' = new \ m_active_blocks
      /\ UNCHANGED <<m_active_objects, m_map, dbase, alive, created>>
  BY DEF UpdateActiveBlocks
<1>2. Phases' /\ WasActive' = WasActive
  BY <1>1 DEF CopyInv, AllPlaces, Phases, WasActive
<1> QED BY <1>1, <1>2, AlikeStep DEF AlikeObject, Objects

LEMMA KeepPlaces ==
    ASSUME CopyInv, NEW id \in Ids, KeepObject(id)
    PROVE  AllPlaces'
<1>1. UNCHANGED <<m_active_objects, m_map, dbase, m_active_blocks, pc, removed, added, created, alive>>
  BY DEF KeepObject
<1>2. Phases' /\ WasActive' = WasActive
  BY <1>1 DEF CopyInv, AllPlaces, Phases, WasActive
<1> QED BY <1>1, <1>2, AlikeStep DEF AlikeObject, Objects

LEMMA FinishPlaces ==
    ASSUME CopyInv, FinishUpdate
    PROVE  AllPlaces'
<1>1. /\ pc = "activate" /\ added = {} /\ pc' = "idle"
      /\ UNCHANGED <<m_active_objects, m_map, dbase, m_active_blocks, removed, added, created, alive>>
  BY DEF FinishUpdate
<1>2. Phases' /\ WasActive' = WasActive
  BY <1>1 DEF CopyInv, AllPlaces, Phases, WasActive
<1> QED BY <1>1, <1>2, AlikeStep DEF AlikeObject, Objects

LEMMA ChangePlaces ==
    ASSUME CopyInv, NEW id \in Objects,
           setStaticSave(id) \/ \E b \in Blocks : setBasePosition(id, b)
    PROVE  AllPlaces'
<1>1. UNCHANGED <<m_map, dbase, m_active_blocks, updateVars, created, alive>>
  BY DEF setStaticSave, setBasePosition
<1>2. Phases' /\ WasActive' = WasActive
  BY <1>1 DEF CopyInv, AllPlaces, Phases, WasActive, updateVars
<1>3. /\ DOMAIN m_active_objects' = Objects
      /\ \A i \in Objects : AlikeObject(m_active_objects'[i], m_active_objects[i])
  <2>1. m_active_objects \in [Objects -> ServerActiveObject]
    BY DEF CopyInv, IInv, TypeOK
  <2>2. CASE setStaticSave(id)
    BY <2>1, <2>2 DEF setStaticSave, AlikeObject, ServerActiveObject
  <2>3. CASE \E b \in Blocks : setBasePosition(id, b)
    BY <2>1, <2>3 DEF setBasePosition, AlikeObject, ServerActiveObject
  <2> QED BY <2>2, <2>3
<1> QED BY <1>1, <1>2, <1>3, AlikeStep DEF updateVars

LEMMA ClientPlaces ==
    ASSUME CopyInv, NEW c \in Clients,
           \/ DeleteClient(c)
           \/ \E in_range \in SUBSET Objects : SendActiveObjectRemoveAdd(c, in_range)
    PROVE  AllPlaces'
<1>1. /\ UNCHANGED <<m_map, dbase, m_active_blocks, updateVars, created, alive>>
      /\ \E now : m_active_objects' = Recounted(c, now)
  BY DEF DeleteClient, SendActiveObjectRemoveAdd
<1>2. Phases' /\ WasActive' = WasActive
  BY <1>1 DEF CopyInv, AllPlaces, Phases, WasActive, updateVars
<1>3. /\ DOMAIN m_active_objects' = Objects
      /\ \A i \in Objects : AlikeObject(m_active_objects'[i], m_active_objects[i])
  <2>1. m_active_objects \in [Objects -> ServerActiveObject]
    BY DEF CopyInv, IInv, TypeOK
  <2> QED BY <1>1, <2>1 DEF Recounted, AlikeObject, ServerActiveObject
<1> QED BY <1>1, <1>2, <1>3, AlikeStep DEF updateVars

\* An object is removed: its entity dies where it was stored nowhere.
LEMMA MarkPlaces ==
    ASSUME CopyInv, NEW id \in Objects, markForRemoval(id)
    PROVE  AllPlaces'
<1> DEFINE old == m_active_objects[id]
           o == [old EXCEPT !.pending_removal = TRUE]
           a2 == alive \ {old.entity}
<1>1. /\ UNCHANGED <<m_map, dbase, m_active_blocks, updateVars, created>>
      /\ ~Gone(old) /\ alive' = a2 /\ pc # "shutdown"
      /\ m_active_objects' = [m_active_objects EXCEPT ![id] = o]
  BY DEF markForRemoval, ByMod
<1>2. Phases' /\ WasActive' = WasActive
  BY <1>1 DEF CopyInv, AllPlaces, Phases, WasActive, updateVars
<1>3. /\ MapCopies(m_map, dbase, alive, WasActive, created)
      /\ ObjectCopies(m_active_objects, m_map, alive, created, pc = "shutdown")
      /\ OnePlace(m_active_objects, m_map, dbase, alive)
  BY DEF CopyInv, AllPlaces
<1>4. /\ old \in ServerActiveObject /\ old.entity \in created
      /\ ObjectsType(m_active_objects)
      /\ ObjectCopy(old, id, m_map, alive, created, pc = "shutdown")
  BY ObjectFacts
<1>5. old.entity \in alive
  BY <1>1, <1>4 DEF ObjectCopy
<1>6. /\ \A i \in Objects : m_active_objects[i].entity = old.entity => i = id
      /\ \A b \in Blocks : StoredOf(m_map, dbase, b, old.entity) = 0
  BY <1>5, OnlyObject
<1>7. /\ o.entity = old.entity /\ o.pending_removal
      /\ DOMAIN m_active_objects' = Objects /\ m_active_objects'[id] = o
      /\ \A i \in Objects : i # id => m_active_objects'[i] = m_active_objects[i]
  BY <1>1, <1>4 DEF ServerActiveObject, ObjectsType, Objects
<1> HIDE DEF old, o, a2
<1>8. a2 \in SUBSET alive /\ \A e : e \in a2 <=> e \in alive /\ e # old.entity
  BY DEF a2
<1>9. MapCopies(m_map, dbase, a2, WasActive, created)
  <2>1. \A e \in alive \cap {old.entity}, b \in Blocks : StoredOf(m_map, dbase, b, e) = 0
    BY <1>6
  <2> QED BY <1>3, <2>1, MapDies DEF a2
<1>10. PICK stopping : stopping = (pc = "shutdown")
  OBVIOUS
<1>11. ObjectCopies(m_active_objects', m_map, a2, created, stopping)
  <2>1. ObjectCopy(o, id, m_map, a2, created, stopping)
    BY <1>1, <1>4, <1>7, <1>8, <1>10 DEF ObjectCopy, Gone
  <2>2. KeepsEntries(m_map, m_map, id) /\ NoMoreEntries(m_map, m_map, id)
    BY DEF KeepsEntries, NoMoreEntries
  <2>3. OthersStay(m_active_objects', m_active_objects, a2, alive, id)
    BY <1>6, <1>7, <1>8 DEF Objects, OthersStay
  <2>4. ObjectCopies(m_active_objects, m_map, alive, created, stopping)
    BY <1>3, <1>10
  <2> QED BY <1>7, <1>8, <2>1, <2>2, <2>3, <2>4, ObjectCopyChanges
<1>12. OnePlace(m_active_objects', m_map, dbase, a2)
  <2>1. SameHolders(m_active_objects', m_active_objects, a2)
    BY <1>7, <1>8 DEF SameHolders, Objects, old
  <2>2. SameStored(m_map, dbase, m_map, dbase, a2)
    BY DEF SameStored
  <2> QED BY <1>3, <1>8, <2>1, <2>2, PlacesStay
<1>13. pc' = pc
  BY <1>1 DEF updateVars
<1> QED BY <1>1, <1>2, <1>9, <1>10, <1>11, <1>12, <1>13, AllPlacesNext

\* The same objects have their static data in the same blocks.
SameEntries(m2, m) == \A x, i : Entry(m2, x, i) <=> Entry(m, x, i)

LEMMA MapStep ==
    ASSUME CopyInv, UNCHANGED <<m_active_objects, alive, created>>, Phases',
           pc' = "shutdown" => pc = "shutdown",
           MapCopies(m_map', dbase', alive, WasActive', created),
           SameEntries(m_map', m_map), SameStored(m_map', dbase', m_map, dbase, alive)
    PROVE  AllPlaces'
<1>1. /\ ObjectCopies(m_active_objects, m_map, alive, created, pc = "shutdown")
      /\ OnePlace(m_active_objects, m_map, dbase, alive)
  BY DEF CopyInv, AllPlaces
<1>2. ObjectCopies(m_active_objects, m_map', alive, created, pc' = "shutdown")
  <2> SUFFICES ASSUME NEW id \in DOMAIN m_active_objects
               PROVE  ObjectCopy(m_active_objects[id], id, m_map', alive, created, pc' = "shutdown")
    BY DEF ObjectCopies
  <2>1. ObjectCopy(m_active_objects[id], id, m_map, alive, created, pc = "shutdown")
    BY <1>1 DEF ObjectCopies
  <2> QED BY <2>1 DEF ObjectCopy, SameEntries
<1>3. OnePlace(m_active_objects, m_map', dbase', alive)
  <2>1. SameHolders(m_active_objects, m_active_objects, alive)
    BY DEF SameHolders
  <2> QED BY <1>1, <2>1, PlacesStay
<1> QED BY <1>2, <1>3, AllPlacesNext

LEMMA LoadPlaces ==
    ASSUME CopyInv, NEW b \in Blocks, LoadBlock(b)
    PROVE  AllPlaces'
<1>1. /\ UNCHANGED <<m_active_objects, dbase, m_active_blocks, updateVars, created, alive>>
      /\ b \notin DOMAIN m_map
      /\ m_map' = emergeBlock(m_map, b, TRUE)
  BY DEF LoadBlock
<1>2. Phases' /\ WasActive' = WasActive /\ pc' = pc
  BY <1>1 DEF CopyInv, AllPlaces, Phases, WasActive, updateVars
<1>3. /\ MapType(m_map) /\ DbaseType
      /\ MapCopies(m_map, dbase, alive, WasActive, created)
  BY Types DEF CopyInv, IInv, AllPlaces
<1>4. PICK m2 : m2 = m_map'
  OBVIOUS
<1>5. /\ MapCopies(m2, dbase, alive, WasActive, created) /\ StoredAlike(m2, m_map, dbase)
      /\ SubEntries(m2, m_map) /\ \A id : KeepsEntries(m2, m_map, id)
  BY <1>1, <1>3, <1>4, EmergeCopies, EmergeBlock
<1>6. SameEntries(m2, m_map)
  <2>1. ASSUME NEW x, NEW i, Entry(m_map, x, i) PROVE Entry(m2, x, i)
    <3>1. KeepsEntries(m2, m_map, None)
      BY <1>5
    <3>2. i # None
      <4>1. x \in DOMAIN m_map /\ i \in DOMAIN m_map[x].active /\ m_map[x].active \in EntityTables
        BY <1>3, <2>1 DEF Entry, MapType, MapBlock
      <4> QED BY <4>1, Tables DEF ActiveObjectsAssumption
    <3> QED BY <2>1, <3>1, <3>2 DEF KeepsEntries
  <2> QED BY <1>5, <2>1 DEF SameEntries, SubEntries
<1>7. SameStored(m2, dbase, m_map, dbase, alive)
  <2>1. alive \subseteq Entities
    BY DEF CopyInv, IInv, TypeOK
  <2> QED BY <1>5, <2>1 DEF StoredAlike, SameStored
<1> QED BY <1>1, <1>2, <1>4, <1>5, <1>6, <1>7, MapStep

\* What is to be dropped is in no block of the chunk, whose timestamp changes.
LEMMA MakePlaces ==
    ASSUME CopyInv, RacesApart, NEW chunk, NEW border, finishBlockMake(chunk, border)
    PROVE  AllPlaces'
<1>1. /\ UNCHANGED <<m_active_objects, dbase, m_active_blocks, updateVars, created, alive>>
      /\ \A x \in chunk : m_map[x].stamp = "old" => m_map[x].stored = NoneStored
      /\ m_map' = [x \in DOMAIN m_map |-> Made(chunk, border, x)]
  BY Zenon DEF finishBlockMake, Made, RacesApart
<1>2. Phases' /\ WasActive' = WasActive /\ pc' = pc
  BY <1>1 DEF CopyInv, AllPlaces, Phases, WasActive, updateVars
<1>3. MapType(m_map) /\ MapCopies(m_map, dbase, alive, WasActive, created)
  BY Types DEF CopyInv, IInv, AllPlaces
<1> DEFINE m2 == m_map'
<1>4. /\ DOMAIN m2 = DOMAIN m_map
      /\ \A x \in DOMAIN m_map :
            /\ m2[x].stored = m_map[x].stored /\ m2[x].active = m_map[x].active
            /\ x \in chunk => m2[x].modified
            /\ x \notin chunk => m2[x].stamp = m_map[x].stamp
            /\ x \notin chunk /\ m_map[x].modified => m2[x].modified
  <2>1. DOMAIN m2 = DOMAIN m_map /\ \A x \in DOMAIN m_map : m2[x] = Made(chunk, border, x)
    BY <1>1
  <2> QED BY <1>3, <2>1, MadeBlock
<1> HIDE DEF m2
<1>5. \A x \in Blocks, e \in Entities : StoredOf(m2, dbase, x, e) = StoredOf(m_map, dbase, x, e)
  BY <1>4 DEF StoredOf
<1>6. ASSUME NEW x \in Blocks, NEW e \in Entities
      PROVE  /\ Dropped(m2, dbase, alive, x, e) /\ OnDiskToo(m2, dbase, alive, x, e)
             /\ Fresh(m2, dbase, alive, WasActive, x, e) /\ Created(m2, dbase, created, x, e)
  <2>1. /\ Dropped(m_map, dbase, alive, x, e) /\ OnDiskToo(m_map, dbase, alive, x, e)
        /\ Fresh(m_map, dbase, alive, WasActive, x, e) /\ Created(m_map, dbase, created, x, e)
    BY <1>3 DEF MapCopies
  <2>2. Fresh(m2, dbase, alive, WasActive, x, e) /\ Created(m2, dbase, created, x, e)
    BY <1>4, <1>5, <2>1 DEF Fresh, Created
  <2>3. CASE x \in DOMAIN m_map /\ x \in chunk
    <3>1. m2[x].modified
      BY <1>4, <2>3
    <3>2. e \notin alive => ~(m_map[x].stored[e] > 0)
      <4>1. m_map[x].stored = NoneStored => m_map[x].stored[e] = 0
        BY DEF NoneStored
      <4> QED BY <1>1, <2>1, <2>3, <4>1 DEF Dropped, StoredOf, StampOf
    <3>3. StoredOf(m2, dbase, x, e) = m_map[x].stored[e]
      BY <1>4, <2>3 DEF StoredOf
    <3> QED BY <2>2, <2>3, <3>1, <3>2, <3>3, <1>4 DEF Dropped, OnDiskToo
  <2>4. CASE x \in DOMAIN m_map /\ x \notin chunk
    <3>1. /\ StampOf(m2, dbase, x) = StampOf(m_map, dbase, x)
          /\ HasEntry(m2, x, e) <=> HasEntry(m_map, x, e)
          /\ m2[x].stored[e] = m_map[x].stored[e] /\ m2[x].stamp = m_map[x].stamp
          /\ m_map[x].modified => m2[x].modified
      BY <1>4, <2>4 DEF StampOf, HasEntry
    <3>2. Dropped(m2, dbase, alive, x, e)
      BY <1>5, <2>1, <3>1 DEF Dropped
    <3>3. OnDiskToo(m2, dbase, alive, x, e)
      BY <2>1, <2>4, <3>1 DEF OnDiskToo
    <3> QED BY <2>2, <3>2, <3>3
  <2>5. CASE x \notin DOMAIN m_map
    <3>1. x \notin DOMAIN m2
      BY <1>4, <2>5
    <3> QED BY <1>5, <2>1, <2>2, <2>5, <3>1 DEF Dropped, OnDiskToo, StampOf
  <2> QED BY <2>3, <2>4, <2>5
<1>7. MapCopies(m2, dbase, alive, WasActive, created)
  BY <1>6 DEF MapCopies
<1>8. SameEntries(m2, m_map)
  BY <1>4 DEF SameEntries, Entry
<1>9. SameStored(m2, dbase, m_map, dbase, alive)
  <2>1. alive \subseteq Entities
    BY DEF CopyInv, IInv, TypeOK
  <2> QED BY <1>5, <2>1 DEF SameStored
<1> QED BY <1>1, <1>2, <1>7, <1>8, <1>9, MapStep DEF m2

LEMMA StampPlaces ==
    ASSUME CopyInv, StampRemoved
    PROVE  AllPlaces'
<1> DEFINE Stamped(b) ==
             IF b \in removed THEN [m_map[b] EXCEPT !.modified = TRUE, !.stamp = "current"]
             ELSE m_map[b]
<1>1. /\ pc' = "activate" /\ removed' = {}
      /\ m_map' = [b \in DOMAIN m_map |-> Stamped(b)]
      /\ UNCHANGED <<m_active_objects, dbase, m_active_blocks, added, created, alive>>
  BY Zenon DEF StampRemoved
<1> HIDE DEF Stamped
<1>2. Phases' /\ WasActive' \subseteq WasActive
  BY <1>1 DEF Phases, WasActive
<1>3. MapType(m_map) /\ MapCopies(m_map, dbase, alive, WasActive, created)
  BY Types DEF CopyInv, IInv, AllPlaces
<1> DEFINE m2 == m_map'
<1>4. /\ DOMAIN m2 = DOMAIN m_map
      /\ \A b \in DOMAIN m_map :
            /\ m2[b].stored = m_map[b].stored /\ m2[b].active = m_map[b].active
            /\ b \in removed => m2[b].modified
            /\ b \notin removed => m2[b] = m_map[b]
  <2>1. DOMAIN m2 = DOMAIN m_map
    BY <1>1
  <2>2. ASSUME NEW b \in DOMAIN m_map
        PROVE  /\ m2[b].stored = m_map[b].stored /\ m2[b].active = m_map[b].active
               /\ b \in removed => m2[b].modified
               /\ b \notin removed => m2[b] = m_map[b]
    <3>1. m_map[b] \in MapBlock
      BY <1>3 DEF MapType
    <3>2. m2[b] = Stamped(b)
      BY <1>1
    <3> QED BY <3>1, <3>2 DEF Stamped, MapBlock
  <2> QED BY <2>1, <2>2
<1> HIDE DEF m2
<1>5. \A x \in Blocks, e \in Entities : StoredOf(m2, dbase, x, e) = StoredOf(m_map, dbase, x, e)
  BY <1>4 DEF StoredOf
<1>6. ASSUME NEW x \in Blocks, NEW e \in Entities
      PROVE  /\ Dropped(m2, dbase, alive, x, e) /\ OnDiskToo(m2, dbase, alive, x, e)
             /\ Fresh(m2, dbase, alive, WasActive', x, e) /\ Created(m2, dbase, created, x, e)
  <2>1. /\ Dropped(m_map, dbase, alive, x, e) /\ OnDiskToo(m_map, dbase, alive, x, e)
        /\ Fresh(m_map, dbase, alive, WasActive, x, e) /\ Created(m_map, dbase, created, x, e)
    BY <1>3 DEF MapCopies
  <2>2. Fresh(m2, dbase, alive, WasActive', x, e) /\ Created(m2, dbase, created, x, e)
    BY <1>2, <1>4, <1>5, <2>1 DEF Fresh, Created
  <2>3. CASE x \in removed /\ x \in DOMAIN m_map
    <3>1. x \in WasActive
      BY <2>3 DEF WasActive
    <3>2. m2[x].modified /\ (e \in alive \/ StoredOf(m2, dbase, x, e) = 0)
      BY <1>4, <1>5, <2>1, <2>3, <3>1 DEF Fresh, StoredOf
    <3> QED BY <2>2, <3>2 DEF Dropped, OnDiskToo
  <2>4. CASE ~(x \in removed /\ x \in DOMAIN m_map)
    <3>1. (x \in DOMAIN m2 <=> x \in DOMAIN m_map) /\ (x \in DOMAIN m_map => m2[x] = m_map[x])
      BY <1>4, <2>4
    <3> QED BY <2>1, <2>2, <3>1 DEF Dropped, OnDiskToo, StoredOf, StampOf, HasEntry
  <2> QED BY <2>3, <2>4
<1>7. MapCopies(m2, dbase, alive, WasActive', created)
  BY <1>6 DEF MapCopies
<1>8. SameEntries(m2, m_map)
  BY <1>4 DEF SameEntries, Entry
<1>9. SameStored(m2, dbase, m_map, dbase, alive)
  <2>1. alive \subseteq Entities
    BY DEF CopyInv, IInv, TypeOK
  <2> QED BY <1>5, <2>1 DEF SameStored
<1>10. pc' # "shutdown" /\ UNCHANGED <<m_active_objects, alive, created>> /\ dbase' = dbase
  BY <1>1
<1> QED BY <1>2, <1>7, <1>8, <1>9, <1>10, MapStep DEF m2

-----------------------------------------------------------------------------
(* What is written to the database                                         *)

\* The objects of which block b has active static data of e.
EntriesFor(m, b, e) == {id \in DOMAIN m[b].active : m[b].active[id] = e}

\* An entity that is alive has one entry in a block at most, one that was not
\* created has none.
LEMMA EntriesCounted ==
    ASSUME CopyInv, NEW b \in DOMAIN m_map, NEW e \in Entities
    PROVE  /\ Cardinality(EntriesFor(m_map, b, e)) \in Nat
           /\ ~HasEntry(m_map, b, e) => Cardinality(EntriesFor(m_map, b, e)) = 0
           /\ e \in alive /\ HasEntry(m_map, b, e) => Cardinality(EntriesFor(m_map, b, e)) = 1
           /\ HasEntry(m_map, b, e) => e \in created
<1> DEFINE S == EntriesFor(m_map, b, e)
<1>1. TypeOK /\ StaticEntries
  BY DEF CopyInv, IInv
<1>2. \A id \in S : id \in Objects /\ id \in Ids /\ m_active_objects[id].entity = e
  BY <1>1, Types DEF StaticEntries, EntriesFor
<1>3. IsFiniteSet(S)
  <2>1. S \in SUBSET Ids
    BY <1>2
  <2> QED BY <2>1, FS_Subset
<1>4. Cardinality(S) \in Nat
  BY <1>3, FS_CardinalityType
<1>5. ~HasEntry(m_map, b, e) => Cardinality(S) = 0
  <2>1. ~HasEntry(m_map, b, e) => S = {}
    BY DEF HasEntry, EntriesFor
  <2> QED BY <2>1, FS_EmptySet
<1>6. ASSUME e \in alive, HasEntry(m_map, b, e) PROVE Cardinality(S) = 1
  <2>1. PICK id : id \in S
    BY <1>6 DEF HasEntry, EntriesFor
  <2>2. \A i \in S : i = id
    BY <1>2, <1>6, <2>1, OnlyObject
  <2>3. S = {id}
    BY <2>1, <2>2
  <2> QED BY <2>3, FS_Singleton
<1>7. ASSUME HasEntry(m_map, b, e) PROVE e \in created
  <2>1. PICK id : id \in S
    BY <1>7 DEF HasEntry, EntriesFor
  <2> QED BY <1>2, <2>1, ObjectFacts
<1> QED BY <1>4, <1>5, <1>6, <1>7

\* A block that is written has on disk what it stores and its entries.
WrittenAs(d, m, b, e) ==
    /\ b \in DOMAIN d /\ d[b].stamp = m[b].stamp
    /\ e \in alive => d[b].stored[e] = m[b].stored[e] + (IF HasEntry(m, b, e) THEN 1 ELSE 0)
    /\ ~HasEntry(m, b, e) => d[b].stored[e] = m[b].stored[e]

LEMMA WrittenCopies ==
    ASSUME CopyInv, NEW blocks \in SUBSET DOMAIN m_map, NEW d, d = Written(blocks)
    PROVE  /\ DOMAIN d = DOMAIN dbase \cup {x \in blocks : m_map[x].modified}
           /\ \A b \in blocks, e \in Entities : m_map[b].modified => WrittenAs(d, m_map, b, e)
           /\ \A b : ~(b \in blocks /\ m_map[b].modified) =>
                 (b \in DOMAIN d <=> b \in DOMAIN dbase) /\ (b \in DOMAIN dbase => d[b] = dbase[b])
<1> DEFINE at(b) == IF b \in blocks /\ m_map[b].modified THEN OnDisk(m_map[b]) ELSE dbase[b]
           dom == DOMAIN dbase \cup {x \in blocks : m_map[x].modified}
<1>1. d = [b \in dom |-> at(b)]
  BY DEF Written
<1>2. ASSUME NEW b \in blocks, NEW e \in Entities, m_map[b].modified
      PROVE  WrittenAs(d, m_map, b, e)
  <2>1. b \in dom /\ d[b] = OnDisk(m_map[b])
    BY <1>1, <1>2
  <2>2. /\ OnDisk(m_map[b]).stamp = m_map[b].stamp
        /\ OnDisk(m_map[b]).stored[e] = m_map[b].stored[e] + Cardinality(EntriesFor(m_map, b, e))
    BY DEF OnDisk, EntriesFor
  <2>3. m_map[b].stored[e] \in Nat
    <3>1. m_map[b] \in MapBlock
      BY Types DEF CopyInv, IInv, MapType
    <3> QED BY <3>1 DEF MapBlock, Stored
  <2>4. /\ ~HasEntry(m_map, b, e) => Cardinality(EntriesFor(m_map, b, e)) = 0
        /\ e \in alive /\ HasEntry(m_map, b, e) => Cardinality(EntriesFor(m_map, b, e)) = 1
    BY EntriesCounted
  <2>5. b \in DOMAIN d
    BY <1>1, <2>1
  <2> HIDE DEF dom, at
  <2> QED BY <2>1, <2>2, <2>3, <2>4, <2>5 DEF WrittenAs
<1>3. DOMAIN d = dom
  BY <1>1
<1> QED BY <1>1, <1>2, <1>3

LEMMA SaveMapPlaces ==
    ASSUME CopyInv, SaveMap
    PROVE  AllPlaces'
<1> DEFINE m2 == m_map'
           d2 == dbase'
<1>1. /\ UNCHANGED <<m_active_objects, m_active_blocks, updateVars, created, alive>>
      /\ d2 = Written(DOMAIN m_map)
      /\ m2 = [b \in DOMAIN m_map |-> [m_map[b] EXCEPT !.modified = FALSE]]
  BY DEF SaveMap
<1>2. Phases' /\ WasActive' = WasActive /\ pc' = pc
  BY <1>1 DEF CopyInv, AllPlaces, Phases, WasActive, updateVars
<1>3. MapType(m_map) /\ MapCopies(m_map, dbase, alive, WasActive, created)
  BY Types DEF CopyInv, IInv, AllPlaces
<1>4. /\ DOMAIN m2 = DOMAIN m_map
      /\ \A b \in DOMAIN m_map :
            /\ m2[b].stored = m_map[b].stored /\ m2[b].active = m_map[b].active
            /\ m2[b].stamp = m_map[b].stamp
  BY <1>1, <1>3 DEF MapType, MapBlock
<1> HIDE DEF m2, d2
<1>5. /\ DOMAIN d2 = DOMAIN dbase \cup {x \in DOMAIN m_map : m_map[x].modified}
      /\ \A b \in DOMAIN m_map, e \in Entities : m_map[b].modified => WrittenAs(d2, m_map, b, e)
      /\ \A b : ~(b \in DOMAIN m_map /\ m_map[b].modified) =>
            (b \in DOMAIN d2 <=> b \in DOMAIN dbase) /\ (b \in DOMAIN dbase => d2[b] = dbase[b])
  <2>1. DOMAIN m_map \in SUBSET DOMAIN m_map
    OBVIOUS
  <2> QED BY <1>1, <2>1, WrittenCopies
<1>6. \A x \in Blocks, e \in Entities : StoredOf(m2, d2, x, e) = StoredOf(m_map, dbase, x, e)
  BY <1>4, <1>5 DEF StoredOf, DiskOf
<1>7. ASSUME NEW x \in Blocks, NEW e \in Entities
      PROVE  /\ Dropped(m2, d2, alive, x, e) /\ OnDiskToo(m2, d2, alive, x, e)
             /\ Fresh(m2, d2, alive, WasActive, x, e) /\ Created(m2, d2, created, x, e)
  <2>1. /\ Dropped(m_map, dbase, alive, x, e) /\ OnDiskToo(m_map, dbase, alive, x, e)
        /\ Fresh(m_map, dbase, alive, WasActive, x, e) /\ Created(m_map, dbase, created, x, e)
    BY <1>3 DEF MapCopies
  <2>2. StoredOf(m2, d2, x, e) = StoredOf(m_map, dbase, x, e)
    BY <1>6
  <2>3. CASE x \in DOMAIN m_map
    <3>1. /\ x \in DOMAIN m2 /\ m2[x].stored = m_map[x].stored /\ m2[x].stamp = m_map[x].stamp
          /\ HasEntry(m2, x, e) <=> HasEntry(m_map, x, e)
      BY <1>4, <2>3 DEF HasEntry
    <3>2. Dropped(m2, d2, alive, x, e) /\ Fresh(m2, d2, alive, WasActive, x, e)
      BY <2>1, <2>2, <2>3, <3>1 DEF Dropped, Fresh, StampOf
    <3>3. m_map[x].stored[e] \in Nat
      BY <1>3, <2>3 DEF MapType, MapBlock, Stored
    <3>4. CASE m_map[x].modified
      <4>1. WrittenAs(d2, m_map, x, e)
        BY <1>5, <2>3, <3>4
      <4>2. DiskOf(d2, x, e) = d2[x].stored[e]
        BY <4>1 DEF WrittenAs, DiskOf
      <4>3. HasEntry(m_map, x, e) => e \in created
        BY <2>3, EntriesCounted
      <4>4. Created(m2, d2, created, x, e)
        BY <2>1, <2>2, <2>3, <4>1, <4>2, <4>3 DEF Created, WrittenAs, StoredOf
      <4>5. m_map[x].stored[e] > 0 /\ e \notin alive => m_map[x].stamp = "old"
        BY <2>1, <2>3 DEF Dropped, StoredOf, StampOf
      <4>6. OnDiskToo(m2, d2, alive, x, e)
        BY <3>1, <3>3, <4>1, <4>2, <4>5 DEF OnDiskToo, WrittenAs
      <4> QED BY <3>2, <4>4, <4>6
    <3>5. CASE ~m_map[x].modified
      <4>1. (x \in DOMAIN d2 <=> x \in DOMAIN dbase) /\ (x \in DOMAIN dbase => d2[x] = dbase[x])
        BY <1>5, <3>5
      <4>2. DiskOf(d2, x, e) = DiskOf(dbase, x, e)
        BY <4>1 DEF DiskOf
      <4>3. DiskOf(dbase, x, e) > 0 => x \in DOMAIN dbase
        BY DEF DiskOf
      <4>4. OnDiskToo(m2, d2, alive, x, e)
        BY <2>1, <2>3, <3>1, <3>5, <4>1, <4>2, <4>3 DEF OnDiskToo
      <4> QED BY <2>1, <2>2, <3>2, <4>2, <4>4 DEF Created
    <3> QED BY <3>4, <3>5
  <2>4. CASE x \notin DOMAIN m_map
    <3>1. /\ x \notin DOMAIN m2
          /\ (x \in DOMAIN d2 <=> x \in DOMAIN dbase) /\ (x \in DOMAIN dbase => d2[x] = dbase[x])
      BY <1>4, <1>5, <2>4
    <3>2. DiskOf(d2, x, e) = DiskOf(dbase, x, e) /\ (DiskOf(dbase, x, e) > 0 => x \in DOMAIN dbase)
      BY <3>1 DEF DiskOf
    <3> QED BY <2>1, <2>2, <2>4, <3>1, <3>2 DEF Dropped, OnDiskToo, Fresh, Created, StampOf, StoredOf
  <2> QED BY <2>3, <2>4
<1>8. MapCopies(m2, d2, alive, WasActive, created)
  BY <1>7 DEF MapCopies
<1>9. SameEntries(m2, m_map)
  BY <1>4 DEF SameEntries, Entry
<1>10. SameStored(m2, d2, m_map, dbase, alive)
  <2>1. alive \subseteq Entities
    BY DEF CopyInv, IInv, TypeOK
  <2> QED BY <1>6, <2>1 DEF SameStored
<1> QED BY <1>1, <1>2, <1>8, <1>9, <1>10, MapStep DEF m2, d2

\* Blocks that are written as far as it is needed and then leave the memory
\* have stored what they had, but for what was dropped from them.
LEMMA UnloadCopies ==
    ASSUME CopyInv, NEW blocks \in SUBSET DOMAIN m_map,
           \A b \in blocks : b \notin WasActive /\ \A e \in Entities : ~HasEntry(m_map, b, e),
           NEW m2, DOMAIN m2 = DOMAIN m_map \ blocks, \A b \in DOMAIN m2 : m2[b] = m_map[b],
           NEW d2, d2 = Written(blocks)
    PROVE  /\ MapCopies(m2, d2, alive, WasActive, created)
           /\ SameStored(m2, d2, m_map, dbase, alive)
<1>1. MapType(m_map) /\ MapCopies(m_map, dbase, alive, WasActive, created)
  BY Types DEF CopyInv, IInv, AllPlaces
<1>2. /\ DOMAIN d2 = DOMAIN dbase \cup {x \in blocks : m_map[x].modified}
      /\ \A b \in blocks, e \in Entities : m_map[b].modified => WrittenAs(d2, m_map, b, e)
      /\ \A b : ~(b \in blocks /\ m_map[b].modified) =>
            (b \in DOMAIN d2 <=> b \in DOMAIN dbase) /\ (b \in DOMAIN dbase => d2[b] = dbase[b])
  BY WrittenCopies
<1>3. ASSUME NEW x \in Blocks, NEW e \in Entities
      PROVE  /\ Dropped(m2, d2, alive, x, e) /\ OnDiskToo(m2, d2, alive, x, e)
             /\ Fresh(m2, d2, alive, WasActive, x, e) /\ Created(m2, d2, created, x, e)
             /\ e \in alive => StoredOf(m2, d2, x, e) = StoredOf(m_map, dbase, x, e)
  <2>1. /\ Dropped(m_map, dbase, alive, x, e) /\ OnDiskToo(m_map, dbase, alive, x, e)
        /\ Fresh(m_map, dbase, alive, WasActive, x, e) /\ Created(m_map, dbase, created, x, e)
    BY <1>1 DEF MapCopies
  <2>2. CASE x \in blocks
    <3>1. x \in DOMAIN m_map /\ x \notin DOMAIN m2 /\ x \notin WasActive /\ ~HasEntry(m_map, x, e)
      BY <2>2
    <3>2. StoredOf(m2, d2, x, e) = DiskOf(d2, x, e) /\ StampOf(m2, d2, x) = d2[x].stamp
      BY <3>1 DEF StoredOf, StampOf
    <3>3. m_map[x].stored[e] \in Nat
      BY <1>1, <3>1 DEF MapType, MapBlock, Stored
    <3>4. CASE m_map[x].modified
      <4>1. WrittenAs(d2, m_map, x, e)
        BY <1>2, <2>2, <3>4
      <4>2. DiskOf(d2, x, e) = m_map[x].stored[e] /\ d2[x].stamp = m_map[x].stamp
        BY <3>1, <4>1 DEF WrittenAs, DiskOf
      <4> QED BY <2>1, <3>1, <3>2, <4>2 DEF Dropped, OnDiskToo, Fresh, Created, StoredOf, StampOf
    <3>5. CASE ~m_map[x].modified
      <4>1. (x \in DOMAIN d2 <=> x \in DOMAIN dbase) /\ (x \in DOMAIN dbase => d2[x] = dbase[x])
        BY <1>2, <3>5
      <4>2. DiskOf(d2, x, e) = DiskOf(dbase, x, e) /\ (DiskOf(dbase, x, e) > 0 => x \in DOMAIN dbase)
        BY <4>1 DEF DiskOf
      <4>3. e \in alive => DiskOf(dbase, x, e) = m_map[x].stored[e]
        BY <2>1, <3>1, <3>3, <3>5 DEF OnDiskToo
      <4>4. e \notin alive /\ DiskOf(dbase, x, e) > 0 => d2[x].stamp = "old"
        BY <2>1, <3>1, <3>5, <4>1, <4>2 DEF OnDiskToo
      <4> QED BY <2>1, <3>1, <3>2, <4>2, <4>3, <4>4
              DEF Dropped, OnDiskToo, Fresh, Created, StoredOf
    <3> QED BY <3>4, <3>5
  <2>3. CASE x \notin blocks
    <3>1. /\ x \in DOMAIN m2 <=> x \in DOMAIN m_map
          /\ x \in DOMAIN m_map => m2[x] = m_map[x]
          /\ (x \in DOMAIN d2 <=> x \in DOMAIN dbase) /\ (x \in DOMAIN dbase => d2[x] = dbase[x])
      BY <1>2, <2>3
    <3>2. DiskOf(d2, x, e) = DiskOf(dbase, x, e) /\ (DiskOf(dbase, x, e) > 0 => x \in DOMAIN dbase)
      BY <3>1 DEF DiskOf
    <3> QED BY <2>1, <3>1, <3>2
            DEF Dropped, OnDiskToo, Fresh, Created, StampOf, StoredOf, HasEntry
  <2> QED BY <2>2, <2>3
<1>4. alive \subseteq Entities
  BY DEF CopyInv, IInv, TypeOK
<1> QED BY <1>3, <1>4 DEF MapCopies, SameStored

LEMMA UnloadPlaces ==
    ASSUME CopyInv, RacesApart, NEW b \in Blocks, UnloadBlock(b)
    PROVE  AllPlaces'
<1>1. /\ UNCHANGED <<m_active_objects, m_active_blocks, updateVars, created, alive>>
      /\ pc = "idle" /\ b \in DOMAIN m_map \ m_active_blocks
      /\ dbase' = Written({b}) /\ m_map' = Without(m_map, {b})
  BY DEF UnloadBlock
<1>2. Phases' /\ WasActive' = WasActive /\ pc' = pc /\ b \notin WasActive
  BY <1>1 DEF CopyInv, AllPlaces, Phases, WasActive, updateVars
<1>3. DOMAIN m_map[b].active = {}
  BY Zenon DEF UnloadBlock, RacesApart
<1>4. DOMAIN m_map' = DOMAIN m_map \ {b} /\ \A x \in DOMAIN m_map' : m_map'[x] = m_map[x]
  BY <1>1 DEF Without
<1>5. \A e \in Entities : ~HasEntry(m_map, b, e)
  BY <1>3 DEF HasEntry
<1>6. /\ MapCopies(m_map', dbase', alive, WasActive, created)
      /\ SameStored(m_map', dbase', m_map, dbase, alive)
  <2>1. {b} \in SUBSET DOMAIN m_map
    BY <1>1
  <2>2. \A x \in {b} : x \notin WasActive /\ \A e \in Entities : ~HasEntry(m_map, x, e)
    BY <1>2, <1>5
  <2> QED BY <1>1, <1>4, <2>1, <2>2, UnloadCopies
<1>7. SameEntries(m_map', m_map)
  BY <1>3, <1>4 DEF SameEntries, Entry
<1> QED BY <1>1, <1>2, <1>6, <1>7, MapStep

LEMMA RestartPlaces ==
    ASSUME CopyInv, Restart
    PROVE  AllPlaces'
<1>1. /\ UNCHANGED <<m_active_objects, m_active_blocks, removed, added, created, alive>>
      /\ pc = "shutdown" /\ todo = {} /\ pc' = "idle"
      /\ dbase' = Written(DOMAIN m_map) /\ m_map' = Nothing
  BY DEF Restart
<1>2. Phases' /\ WasActive' = WasActive /\ WasActive = {}
  BY <1>1 DEF CopyInv, AllPlaces, Phases, WasActive
<1>3. \A b, id : ~Entry(m_map, b, id)
  <2>1. Objects = {} /\ StaticEntries
    BY <1>1 DEF CopyInv, IInv
  <2> QED BY <2>1 DEF StaticEntries, Entry
<1>4. DOMAIN m_map' = {}
  BY <1>1, NothingIsTable
<1>5. /\ MapCopies(m_map', dbase', alive, WasActive, created)
      /\ SameStored(m_map', dbase', m_map, dbase, alive)
  <2>1. \A b \in DOMAIN m_map : b \notin WasActive /\ \A e \in Entities : ~HasEntry(m_map, b, e)
    BY <1>2, <1>3 DEF HasEntry, Entry
  <2>2. DOMAIN m_map' = DOMAIN m_map \ DOMAIN m_map /\ \A x \in DOMAIN m_map' : m_map'[x] = m_map[x]
    BY <1>4
  <2>3. DOMAIN m_map \in SUBSET DOMAIN m_map
    OBVIOUS
  <2> QED BY <1>1, <2>1, <2>2, <2>3, UnloadCopies
<1>6. SameEntries(m_map', m_map)
  BY <1>3, <1>4 DEF SameEntries, Entry
<1> QED BY <1>1, <1>2, <1>5, <1>6, MapStep

-----------------------------------------------------------------------------
(* Steps that move copies                                                  *)

LEMMA InitPlaces == Init => AllPlaces
<1> SUFFICES ASSUME Init PROVE AllPlaces
  OBVIOUS
<1>1. /\ DOMAIN m_active_objects = {} /\ DOMAIN m_map = {} /\ DOMAIN dbase = {}
      /\ pc = "idle" /\ removed = {} /\ added = {} /\ m_active_blocks = {} /\ alive = {}
  BY NothingIsTable DEF Init
<1>2. MapCopies(m_map, dbase, alive, WasActive, created)
  BY <1>1 DEF MapCopies, Dropped, OnDiskToo, Fresh, Created, StoredOf, DiskOf, WasActive
<1>3. ObjectCopies(m_active_objects, m_map, alive, created, pc = "shutdown")
  BY <1>1 DEF ObjectCopies
<1>4. OnePlace(m_active_objects, m_map, dbase, alive)
  BY <1>1 DEF OnePlace
<1> QED BY <1>1, <1>2, <1>3, <1>4 DEF AllPlaces, Phases

LEMMA FewerActive ==
    ASSUME NEW m, NEW d, NEW a, NEW w, NEW c, MapCopies(m, d, a, w, c), NEW w2 \in SUBSET w
    PROVE  MapCopies(m, d, a, w2, c)
<1>1. ASSUME NEW b \in Blocks, NEW e \in Entities PROVE Fresh(m, d, a, w2, b, e)
  <2>1. Fresh(m, d, a, w, b, e)
    BY DEF MapCopies
  <2> QED BY <2>1 DEF Fresh
<1> QED BY <1>1 DEF MapCopies

\* When nothing is left behind, what dead objects there are at shutdown have no
\* static data and are allowed none.
LEMMA StopPlaces ==
    ASSUME CopyInv, RacesApart, deactivateBlocksAndObjects
    PROVE  AllPlaces'
<1>1. /\ \A id \in Objects : ~LeftBehind(id)
      /\ m_active_blocks' = {} /\ pc = "idle" /\ pc' = "shutdown"
      /\ UNCHANGED <<m_active_objects, m_map, dbase, removed, added, created, alive>>
  BY Zenon DEF deactivateBlocksAndObjects, RacesApart
<1>2. /\ MapCopies(m_map, dbase, alive, WasActive, created)
      /\ ObjectCopies(m_active_objects, m_map, alive, created, pc = "shutdown")
      /\ OnePlace(m_active_objects, m_map, dbase, alive)
      /\ Phases
  BY DEF CopyInv, AllPlaces
<1>3. Phases' /\ WasActive' \in SUBSET WasActive
  BY <1>1, <1>2 DEF Phases, WasActive
<1>4. MapCopies(m_map, dbase, alive, WasActive', created)
  BY <1>2, <1>3, FewerActive
<1>5. ObjectCopies(m_active_objects, m_map, alive, created, pc' = "shutdown")
  <2> SUFFICES ASSUME NEW id \in Objects
               PROVE  ObjectCopy(m_active_objects[id], id, m_map, alive, created, pc' = "shutdown")
    BY DEF ObjectCopies, Objects
  <2> DEFINE o == m_active_objects[id]
  <2>1. ObjectCopy(o, id, m_map, alive, created, pc = "shutdown")
    BY <1>2 DEF ObjectCopies, Objects
  <2>2. ~LeftBehind(id)
    BY <1>1
  <2>3. ASSUME o.entity \notin alive
        PROVE  ~o.static_allowed /\ ~Entry(m_map, o.static_block, id)
    <3>1. Gone(o) /\ (Entry(m_map, o.static_block, id) => o.pending_removal)
          /\ (~o.pending_removal /\ o.pending_deactivation /\ o.static_allowed
              => o.static_block # None)
      BY <2>1, <2>3 DEF ObjectCopy
    <3>2. /\ ~o.pending_removal
          /\ o.pending_deactivation /\ o.static_block # None => Entry(m_map, o.static_block, id)
      BY <2>2 DEF LeftBehind, Entry
    <3> QED BY <3>1, <3>2 DEF Gone
  <2> QED BY <2>1, <2>3 DEF ObjectCopy
<1> QED BY <1>1, <1>2, <1>3, <1>4, <1>5, AllPlacesNext

\* An object that is deleted from its block, which is written, and saved in
\* another stays the one copy of its entity.
LEMMA ResavePlaces ==
    ASSUME CopyInv, RoomInBlocks, NEW id \in Ids, ResaveObject(id)
    PROVE  AllPlaces'
<1> DEFINE old == m_active_objects[id]
           d == deleteStaticFromBlock(m_map, id, old, TRUE)
           s == saveStaticToBlock(d.map, old.pos, id, d.obj, TRUE)
<1>1. /\ pc = "deactivate" /\ id \in Objects /\ ~Gone(old)
      /\ m_active_objects' = [m_active_objects EXCEPT ![id] = s.obj] /\ m_map' = s.map
      /\ UNCHANGED <<dbase, m_active_blocks, pc, removed, added, created, alive>>
  BY DEF ResaveObject
<1>2. Phases' /\ WasActive' = WasActive
  BY <1>1 DEF CopyInv, AllPlaces, Phases, WasActive
<1>3. /\ id # None /\ old \in ServerActiveObject /\ old.pos \in Blocks
      /\ MapType(m_map) /\ DbaseType /\ ObjectsType(m_active_objects)
      /\ MapCopies(m_map, dbase, alive, WasActive, created)
      /\ ObjectCopy(old, id, m_map, alive, created, pc = "shutdown")
      /\ old.entity \in created /\ alive \in SUBSET Entities
  BY <1>1, ObjectFacts
<1>4. old.entity \in alive
  BY <1>1, <1>3 DEF ObjectCopy
<1>5. /\ MapCopies(d.map, dbase, alive, WasActive, created)
      /\ StoredAlike(d.map, m_map, dbase) /\ KeepsEntries(d.map, m_map, id)
  BY <1>3, DeleteCopies
<1>6. /\ MapType(d.map) /\ d.obj \in ServerActiveObject
      /\ d.obj = old \/ d.obj = [old EXCEPT !.static_block = None]
      /\ SubEntries(d.map, m_map)
  <2>1. PICK w \in BOOLEAN : w = TRUE
    OBVIOUS
  <2>2. d = deleteStaticFromBlock(m_map, id, old, w)
    BY <2>1
  <2> HIDE DEF d, old
  <2> QED BY <1>3, <2>2, DeleteStatic
<1>7. StoredIn(d.map, old.pos) = StoredIn(m_map, old.pos)
  BY <1>3, DeleteKeepsStored
<1> HIDE DEF d, s, old
<1>8. ~Full(d.map, old.pos)
  BY <1>3, <1>7 DEF RoomInBlocks, Full
<1>9. /\ d.obj.entity = old.entity
      /\ d.obj.pending_removal = old.pending_removal
      /\ d.obj.pending_deactivation = old.pending_deactivation
  BY <1>3, <1>6 DEF ServerActiveObject
<1>10. Saved(s, d.map, old.pos, id, d.obj)
  BY <1>3, <1>6, SaveStatic DEF s
<1>11. /\ s.obj = [d.obj EXCEPT !.static_block = old.pos] /\ s.obj \in ServerActiveObject
       /\ AddsEntry(s.map, d.map, old.pos, id, d.obj.entity)
  BY <1>3, <1>8, <1>10 DEF Saved
<1>12. /\ s.obj.entity = old.entity /\ s.obj.pending_removal = old.pending_removal
       /\ s.obj.pending_deactivation = old.pending_deactivation
  BY <1>6, <1>9, <1>11 DEF ServerActiveObject
<1>13. /\ MapCopies(s.map, dbase, alive, WasActive, created)
       /\ StoredAlike(s.map, d.map, dbase) /\ KeepsEntries(s.map, d.map, id)
  <2>1. PICK md, od, a, v, c, p :
               md = d.map /\ od = d.obj /\ a = alive /\ v = WasActive /\ c = created /\ p = old.pos
    OBVIOUS
  <2>2. /\ MapType(md) /\ p \in Blocks /\ od \in ServerActiveObject
        /\ MapCopies(md, dbase, a, v, c) /\ ~Full(md, p)
        /\ od.entity \in a /\ od.entity \in c
        /\ s = saveStaticToBlock(md, p, id, od, TRUE)
    BY <1>3, <1>4, <1>5, <1>6, <1>8, <1>9, <2>1 DEF s
  <2>3. /\ MapCopies(s.map, dbase, a, v, c)
        /\ StoredFor(s.map, md, dbase, p, id, od.entity)
        /\ \A i : KeepsEntries(s.map, md, i)
    BY <1>3, <2>2, SaveCopies
  <2> QED BY <1>3, <2>1, <2>3 DEF StoredFor
<1>14. SameStored(s.map, dbase, m_map, dbase, alive)
  BY <1>3, <1>5, <1>13 DEF StoredAlike, SameStored
<1>15. KeepsEntries(s.map, m_map, id) /\ NoMoreEntries(s.map, m_map, id)
  BY <1>5, <1>6, <1>11, <1>13 DEF KeepsEntries, NoMoreEntries, AddsEntry, SubEntries
<1>16. /\ DOMAIN m_active_objects' = DOMAIN m_active_objects /\ m_active_objects'[id] = s.obj
       /\ \A i \in DOMAIN m_active_objects : i # id => m_active_objects'[i] = m_active_objects[i]
  BY <1>1, <1>3 DEF ObjectsType, Objects
<1>17. ObjectCopies(m_active_objects', s.map, alive, created, pc = "shutdown")
  <2>1. ObjectCopies(m_active_objects, m_map, alive, created, pc = "shutdown")
    BY DEF CopyInv, AllPlaces
  <2>2. ObjectCopy(s.obj, id, s.map, alive, created, pc = "shutdown")
    BY <1>1, <1>3, <1>4, <1>12 DEF ObjectCopy, Gone
  <2>3. OthersStay(m_active_objects', m_active_objects, alive, alive, id)
    BY <1>16 DEF OthersStay
  <2> QED BY <1>15, <1>16, <2>1, <2>2, <2>3, ObjectCopyChanges
<1>18. OnePlace(m_active_objects', s.map, dbase, alive)
  <2>1. SameHolders(m_active_objects', m_active_objects, alive)
    BY <1>1, <1>12, <1>16 DEF SameHolders, old, Objects
  <2>2. OnePlace(m_active_objects, m_map, dbase, alive)
    BY DEF CopyInv, AllPlaces
  <2> QED BY <1>14, <2>1, <2>2, PlacesStay
<1> QED BY <1>1, <1>2, <1>13, <1>17, <1>18, AllPlacesNext

\* An object that is not to be saved goes with its entity: no static data is
\* left of it, and its block is written.
LEMMA Vanishes ==
    ASSUME CopyInv, NEW id \in Objects, ~m_active_objects[id].static_allowed,
           NEW pending \in BOOLEAN, NEW data_changed \in DataChanged(id),
           DeactivateObject(id, pending, data_changed)
    PROVE  /\ MapCopies(m_map', dbase, alive', WasActive, created)
           /\ StoredAlike(m_map', m_map, dbase)
           /\ KeepsEntries(m_map', m_map, id) /\ NoMoreEntries(m_map', m_map, id)
           /\ \A x : ~Entry(m_map', x, id)
           /\ alive' = alive \ {m_active_objects[id].entity}
           /\ ~pending => m_active_objects' = Without(m_active_objects, {id})
           /\ pending => \E o : /\ m_active_objects' = [m_active_objects EXCEPT ![id] = o]
                                /\ o.entity = m_active_objects[id].entity
                                /\ o.pending_deactivation /\ ~o.static_allowed
<1> DEFINE old == m_active_objects[id]
           e == old.entity
           d == deleteStaticFromBlock(m_map, id, old, TRUE)
           o == [d.obj EXCEPT !.pending_deactivation = TRUE]
<1>1. /\ m_map' = d.map /\ alive' = alive \ {e}
      /\ m_active_objects' =
           IF pending THEN [m_active_objects EXCEPT ![id] = o] ELSE Without(m_active_objects, {id})
  <2> DEFINE r(x) == [ok |-> TRUE, map |-> x.map, obj |-> x.obj]
  <2>1. ASSUME NEW x PROVE r(x).ok /\ r(x).map = x.map /\ r(x).obj = x.obj
    OBVIOUS
  <2>2. ~old.static_allowed
    OBVIOUS
  <2> DEFINE shall_be_written == old.static_block # old.pos \/ data_changed
             dd == deleteStaticFromBlock(m_map, id, old, old.static_allowed => shall_be_written)
  <2>3. dd = d
    <3>1. (old.static_allowed => shall_be_written) = TRUE
      BY <2>2
    <3> QED BY <3>1
  <2>4. /\ m_map' = r(dd).map
        /\ m_active_objects' =
             IF pending /\ r(dd).ok
             THEN [m_active_objects EXCEPT ![id] = [r(dd).obj EXCEPT !.pending_deactivation = TRUE]]
             ELSE Without(m_active_objects, {id})
        /\ alive' = alive \ {e}
    BY <2>2 DEF DeactivateObject
  <2> HIDE DEF r, dd, d
  <2> QED BY <2>1, <2>3, <2>4
<1>2. /\ id \in Ids /\ old \in ServerActiveObject
      /\ MapType(m_map) /\ DbaseType
      /\ MapCopies(m_map, dbase, alive, WasActive, created)
      /\ alive \in SUBSET Entities
  BY ObjectFacts
<1>3. /\ MapCopies(d.map, dbase, alive, WasActive, created)
      /\ StoredAlike(d.map, m_map, dbase) /\ KeepsEntries(d.map, m_map, id)
  BY <1>2, DeleteCopies
<1>4. /\ d.obj \in ServerActiveObject
      /\ d.obj = old \/ d.obj = [old EXCEPT !.static_block = None]
      /\ SubEntries(d.map, m_map) /\ \A x : ~Entry(d.map, x, id)
  <2>1. PICK w \in BOOLEAN : w = TRUE
    OBVIOUS
  <2>2. d = deleteStaticFromBlock(m_map, id, old, w)
    BY <2>1
  <2>3. \A x : ~Entry(d.map, x, id)
    <3>1. TypeOK /\ StaticEntries
      BY DEF CopyInv, IInv
    <3> HIDE DEF d
    <3> QED BY <2>2, <3>1, DeletedEverywhere
  <2> HIDE DEF d, old
  <2> QED BY <1>2, <2>2, <2>3, DeleteStatic
<1> HIDE DEF d
<1>5. o.entity = e /\ o.pending_deactivation /\ ~o.static_allowed
  <2>1. d.obj.entity = e /\ ~d.obj.static_allowed
    BY <1>2, <1>4 DEF ServerActiveObject
  <2> QED BY <1>4, <2>1 DEF ServerActiveObject
<1> HIDE DEF o, e
<1>6. \A x \in alive \cap {e}, b \in Blocks : StoredOf(d.map, dbase, b, x) = 0
  <2> SUFFICES ASSUME e \in alive, NEW b \in Blocks PROVE StoredOf(d.map, dbase, b, e) = 0
    OBVIOUS
  <2>1. StoredOf(m_map, dbase, b, e) = 0
    BY OnlyObject DEF e
  <2> QED BY <1>2, <1>3, <2>1 DEF StoredAlike, SameStored
<1>7. MapCopies(d.map, dbase, alive \ {e}, WasActive, created)
  BY <1>3, <1>6, MapDies
<1>8. NoMoreEntries(d.map, m_map, id)
  BY <1>4 DEF NoMoreEntries, SubEntries
<1> QED BY <1>1, <1>3, <1>4, <1>5, <1>7, <1>8 DEF e

\* Deactivation keeps the one copy of what is to be saved.
LEMMA DeactivatesCopies ==
    ASSUME CopyInv, RoomInBlocks, NEW id \in Objects, NEW pending \in BOOLEAN,
           m_active_objects[id].static_allowed => m_active_objects[id].entity \in alive,
           pending => ~Gone(m_active_objects[id]) /\ pc # "shutdown",
           NEW data_changed \in DataChanged(id), DeactivateObject(id, pending, data_changed)
    PROVE  /\ MapCopies(m_map', dbase, alive', WasActive, created)
           /\ ObjectCopies(m_active_objects', m_map', alive', created, pc = "shutdown")
           /\ OnePlace(m_active_objects', m_map', dbase, alive')
<1> DEFINE old == m_active_objects[id]
<1>1. /\ id \in DOMAIN m_active_objects /\ id # None /\ old.entity \in created /\ old.pos \in Blocks
      /\ ObjectsType(m_active_objects) /\ alive \in SUBSET Entities
  BY ObjectFacts
<1>2. /\ ObjectCopies(m_active_objects, m_map, alive, created, pc = "shutdown")
      /\ OnePlace(m_active_objects, m_map, dbase, alive)
  BY DEF CopyInv, AllPlaces
<1>3. ASSUME m_active_objects' = Without(m_active_objects, {id})
      PROVE  /\ id \notin DOMAIN m_active_objects'
             /\ DOMAIN m_active_objects' = DOMAIN m_active_objects \ {id}
             /\ \A i \in DOMAIN m_active_objects' : m_active_objects'[i] = m_active_objects[i]
  BY <1>3 DEF Without
<1>4. ASSUME NEW o, m_active_objects' = [m_active_objects EXCEPT ![id] = o]
      PROVE  /\ DOMAIN m_active_objects' = DOMAIN m_active_objects /\ m_active_objects'[id] = o
             /\ \A i \in DOMAIN m_active_objects : i # id => m_active_objects'[i] = m_active_objects[i]
  BY <1>1, <1>4 DEF ObjectsType
<1>5. CASE old.static_allowed
  <2>1. old.entity \in alive
    BY <1>5
  <2>2. /\ MapCopies(m_map', dbase, alive, WasActive, created)
        /\ StoredFor(m_map', m_map, dbase, old.pos, IF pending THEN id ELSE None, old.entity)
        /\ KeepsEntries(m_map', m_map, id) /\ NoMoreEntries(m_map', m_map, id)
        /\ alive' = alive
        /\ ~pending => m_active_objects' = Without(m_active_objects, {id})
        /\ pending => /\ Entry(m_map', old.pos, id)
                      /\ \E o : /\ m_active_objects' = [m_active_objects EXCEPT ![id] = o]
                                /\ Deactivated(o, old)
    BY <1>5, <2>1, Settles
  <2>3. CASE pending
    <3>1. PICK o : m_active_objects' = [m_active_objects EXCEPT ![id] = o] /\ Deactivated(o, old)
      BY <2>2, <2>3
    <3>2. /\ DOMAIN m_active_objects' = DOMAIN m_active_objects /\ m_active_objects'[id] = o
          /\ \A i \in DOMAIN m_active_objects : i # id => m_active_objects'[i] = m_active_objects[i]
      BY <1>4, <3>1
    <3>3. Entry(m_map', old.pos, id) /\ StoredAlike(m_map', m_map, dbase)
      BY <1>1, <2>2, <2>3 DEF StoredFor
    <3>4. ~Gone(old) /\ pc # "shutdown"
      BY <2>3
    <3> HIDE DEF old
    <3>5. ObjectCopy(o, id, m_map', alive, created, pc = "shutdown")
      <4>1. /\ o.entity = old.entity /\ o.static_block = old.pos /\ o.pending_deactivation
            /\ o.pending_removal = old.pending_removal /\ ~old.pending_removal
        BY <3>1, <3>4 DEF Deactivated, Gone
      <4>2. old.pos # None
        BY <1>1
      <4> QED BY <1>1, <2>1, <3>3, <4>1, <4>2 DEF ObjectCopy, Gone
    <3>6. OthersStay(m_active_objects', m_active_objects, alive, alive, id)
      BY <3>2 DEF OthersStay
    <3>7. ObjectCopies(m_active_objects', m_map', alive, created, pc = "shutdown")
      BY <1>2, <2>2, <3>2, <3>5, <3>6, ObjectCopyChanges
    <3>8. OnePlace(m_active_objects', m_map', dbase, alive)
      <4>1. SameHolders(m_active_objects', m_active_objects, alive)
        BY <1>1, <3>1, <3>2 DEF SameHolders, Deactivated, old
      <4>2. SameStored(m_map', dbase, m_map, dbase, alive)
        BY <1>1, <3>3 DEF StoredAlike, SameStored
      <4> QED BY <1>2, <4>1, <4>2, PlacesStay
    <3> QED BY <2>2, <3>7, <3>8
  <2>4. CASE ~pending
    <3>1. m_active_objects' = Without(m_active_objects, {id})
      BY <2>2, <2>4
    <3>2. StoredMore(m_map', m_map, dbase, old.pos, old.entity)
      BY <2>2, <2>4 DEF StoredFor
    <3>3. OnePlace(m_active_objects', m_map', dbase, alive)
      <4>1. OnePlace(Without(m_active_objects, {id}), m_map', dbase, alive)
        BY <1>1, <1>2, <2>1, <3>2, PlaceStores
      <4> QED BY <3>1, <4>1
    <3>4. OthersStay(m_active_objects', m_active_objects, alive, alive, id)
      BY <1>3, <3>1 DEF OthersStay
    <3>5. ObjectCopies(m_active_objects', m_map', alive, created, pc = "shutdown")
      BY <1>2, <1>3, <2>2, <3>1, <3>4, ObjectCopyChanges
    <3> QED BY <2>2, <3>3, <3>5
  <2> QED BY <2>3, <2>4
<1>6. CASE ~old.static_allowed
  <2>1. /\ MapCopies(m_map', dbase, alive', WasActive, created)
        /\ StoredAlike(m_map', m_map, dbase)
        /\ KeepsEntries(m_map', m_map, id) /\ NoMoreEntries(m_map', m_map, id)
        /\ \A x : ~Entry(m_map', x, id)
        /\ alive' = alive \ {old.entity}
        /\ ~pending => m_active_objects' = Without(m_active_objects, {id})
        /\ pending => \E o : /\ m_active_objects' = [m_active_objects EXCEPT ![id] = o]
                             /\ o.entity = old.entity
                             /\ o.pending_deactivation /\ ~o.static_allowed
    BY <1>6, Vanishes
  <2>2. \A i \in DOMAIN m_active_objects' : i # id =>
           /\ i \in DOMAIN m_active_objects /\ m_active_objects'[i] = m_active_objects[i]
    <3>1. CASE pending
      <4>1. PICK o : m_active_objects' = [m_active_objects EXCEPT ![id] = o]
        BY <2>1, <3>1
      <4> QED BY <1>4, <4>1
    <3>2. CASE ~pending
      BY <1>3, <2>1, <3>2
    <3> QED BY <3>1, <3>2
  <2>3. /\ \A i \in DOMAIN m_active_objects : i # id => i \in DOMAIN m_active_objects'
        /\ id \in DOMAIN m_active_objects' => pending /\ m_active_objects'[id].entity = old.entity
              /\ m_active_objects'[id].pending_deactivation /\ ~m_active_objects'[id].static_allowed
    <3>1. CASE pending
      <4>1. PICK o : /\ m_active_objects' = [m_active_objects EXCEPT ![id] = o]
                     /\ o.entity = old.entity
                     /\ o.pending_deactivation /\ ~o.static_allowed
        BY <2>1, <3>1
      <4> HIDE DEF old
      <4> QED BY <1>4, <3>1, <4>1
    <3>2. CASE ~pending
      BY <1>3, <2>1, <3>2
    <3> QED BY <3>1, <3>2
  <2>4. \A i \in DOMAIN m_active_objects : i # id /\ m_active_objects[i].entity \in alive =>
           m_active_objects[i].entity # old.entity
    BY OnlyObject DEF Objects
  <2> HIDE DEF old
  <2>5. OthersStay(m_active_objects', m_active_objects, alive', alive, id)
    BY <2>1, <2>2, <2>4 DEF OthersStay
  <2>6. id \in DOMAIN m_active_objects' =>
           ObjectCopy(m_active_objects'[id], id, m_map', alive', created, pc = "shutdown")
    <3> SUFFICES ASSUME id \in DOMAIN m_active_objects'
                 PROVE  ObjectCopy(m_active_objects'[id], id, m_map', alive', created, pc = "shutdown")
      OBVIOUS
    <3>1. /\ m_active_objects'[id].entity \in created /\ m_active_objects'[id].entity \notin alive'
          /\ m_active_objects'[id].pending_deactivation /\ ~m_active_objects'[id].static_allowed
          /\ pc # "shutdown"
      BY <1>1, <2>1, <2>3
    <3> QED BY <2>1, <3>1 DEF ObjectCopy, Gone
  <2>7. ObjectCopies(m_active_objects', m_map', alive', created, pc = "shutdown")
    BY <1>2, <2>1, <2>5, <2>6, ObjectCopyChanges
  <2>8. OnePlace(m_active_objects', m_map', dbase, alive')
    <3>1. SameHolders(m_active_objects', m_active_objects, alive')
      BY <1>1, <2>1, <2>2, <2>3 DEF SameHolders, old
    <3>2. SameStored(m_map', dbase, m_map, dbase, alive')
      BY <1>1, <2>1 DEF StoredAlike, SameStored
    <3>3. alive' \in SUBSET alive
      BY <2>1
    <3> QED BY <1>2, <3>1, <3>2, <3>3, PlacesStay
  <2> QED BY <2>1, <2>7, <2>8
<1> QED BY <1>5, <1>6

LEMMA FarPlaces ==
    ASSUME CopyInv, RoomInBlocks, NEW id \in Ids, DeactivateFar(id)
    PROVE  AllPlaces'
<1> DEFINE old == m_active_objects[id]
<1>1. /\ pc = "deactivate" /\ id \in Objects /\ ~Gone(old)
      /\ UNCHANGED <<dbase, m_active_blocks, pc, removed, added, created>>
  BY DEF DeactivateFar
<1>2. PICK data_changed \in DataChanged(id) : DeactivateObject(id, old.known_by_count > 0, data_changed)
  BY DEF DeactivateFar
<1>3. Phases' /\ WasActive' = WasActive
  BY <1>1 DEF CopyInv, AllPlaces, Phases, WasActive
<1>4. old.entity \in alive
  <2>1. ObjectCopy(old, id, m_map, alive, created, pc = "shutdown")
    BY <1>1, ObjectFacts
  <2> QED BY <1>1, <2>1 DEF ObjectCopy
<1>5. PICK pending \in BOOLEAN : DeactivateObject(id, pending, data_changed)
  <2> DEFINE known == old.known_by_count > 0
  <2>1. DeactivateObject(id, known, data_changed) /\ known \in BOOLEAN
    BY <1>2
  <2> HIDE DEF known
  <2> QED BY <2>1
<1>6. pc # "shutdown"
  BY <1>1
<1>7. /\ MapCopies(m_map', dbase, alive', WasActive, created)
      /\ ObjectCopies(m_active_objects', m_map', alive', created, pc = "shutdown")
      /\ OnePlace(m_active_objects', m_map', dbase, alive')
  BY <1>1, <1>4, <1>5, <1>6, DeactivatesCopies
<1> QED BY <1>1, <1>3, <1>7, AllPlacesNext

LEMMA ForcedPlaces ==
    ASSUME CopyInv, RoomInBlocks, NEW id \in Ids, DeactivateForced(id)
    PROVE  AllPlaces'
<1> DEFINE old == m_active_objects[id]
<1>1. /\ pc = "shutdown" /\ id \in todo
      /\ UNCHANGED <<dbase, m_active_blocks, pc, removed, added, created>>
  BY DEF DeactivateForced
<1>2. id \in Objects
  BY <1>1 DEF CopyInv, IInv
<1>3. PICK data_changed \in DataChanged(id) : DeactivateObject(id, FALSE, data_changed)
  BY DEF DeactivateForced
<1>4. Phases' /\ WasActive' = WasActive
  BY <1>1 DEF CopyInv, AllPlaces, Phases, WasActive
<1>5. old.static_allowed => old.entity \in alive
  <2>1. ObjectCopy(old, id, m_map, alive, created, pc = "shutdown")
    BY <1>2, ObjectFacts
  <2> QED BY <1>1, <2>1 DEF ObjectCopy
<1>6. PICK pending \in BOOLEAN : pending = FALSE
  <2>1. FALSE \in BOOLEAN /\ FALSE = FALSE
    OBVIOUS
  <2> QED BY <2>1, Zenon
<1>7. DeactivateObject(id, pending, data_changed) /\ ~pending
  BY <1>3, <1>6
<1>8. /\ MapCopies(m_map', dbase, alive', WasActive, created)
      /\ ObjectCopies(m_active_objects', m_map', alive', created, pc = "shutdown")
      /\ OnePlace(m_active_objects', m_map', dbase, alive')
  BY <1>2, <1>5, <1>7, DeactivatesCopies
<1> QED BY <1>1, <1>4, <1>8, AllPlacesNext

\* What is created has left nothing anywhere before.
LEMMA MapBorn ==
    ASSUME NEW m, NEW d, NEW a, NEW w, NEW c, MapCopies(m, d, a, w, c), NEW e, e \notin c,
           \A b \in DOMAIN m : ~HasEntry(m, b, e)
    PROVE  MapCopies(m, d, a \cup {e}, w, c \cup {e})
<1> SUFFICES ASSUME NEW b \in Blocks, NEW i \in Entities
             PROVE  /\ Dropped(m, d, a \cup {e}, b, i) /\ OnDiskToo(m, d, a \cup {e}, b, i)
                    /\ Fresh(m, d, a \cup {e}, w, b, i) /\ Created(m, d, c \cup {e}, b, i)
  BY DEF MapCopies
<1>1. /\ Dropped(m, d, a, b, i) /\ OnDiskToo(m, d, a, b, i)
      /\ Fresh(m, d, a, w, b, i) /\ Created(m, d, c, b, i)
  BY DEF MapCopies
<1>2. CASE i = e
  <2>1. StoredOf(m, d, b, e) = 0 /\ DiskOf(d, b, e) = 0
    BY <1>1, <1>2 DEF Created
  <2>2. b \in DOMAIN m => m[b].stored[e] = 0
    BY <2>1 DEF StoredOf
  <2>3. OnDiskToo(m, d, a \cup {e}, b, i)
    BY <1>2, <2>1, <2>2 DEF OnDiskToo
  <2>4. Fresh(m, d, a \cup {e}, w, b, i)
    BY <1>1, <1>2 DEF Fresh
  <2> QED BY <1>2, <2>3, <2>4 DEF Dropped, Created
<1>3. CASE i # e
  <2>1. (i \in a \cup {e} <=> i \in a) /\ (i \in c \cup {e} <=> i \in c)
    BY <1>3
  <2> QED BY <1>1, <2>1 DEF Dropped, OnDiskToo, Fresh, Created
<1> QED BY <1>2, <1>3

LEMMA AddPlaces ==
    ASSUME CopyInv, NEW e \in Entities, NEW b \in Blocks, addActiveObject(e, b)
    PROVE  AllPlaces'
<1> DEFINE static == IF e \in NotSaved THEN None ELSE b
           o == NewObject(e, b, static)
           m2 == emergeBlock(m_map, b, TRUE)
           a2 == alive \cup {e}
           c2 == created \cup {e}
<1>1. PICK id \in FreeIds :
        /\ m_active_objects' = With(m_active_objects, id, o)
        /\ LET block == [m2[b] EXCEPT !.active = With(@, id, e), !.modified = TRUE]
           IN  m_map' = IF e \in NotSaved THEN m_map ELSE [m2 EXCEPT ![b] = block]
  BY ZenonT(60) DEF addActiveObject
<1>2. /\ pc' = pc /\ UNCHANGED <<dbase, m_active_blocks, removed, added>>
      /\ created' = c2 /\ alive' = a2 /\ e \notin created
  BY DEF addActiveObject, ByMod, updateVars
<1>3. /\ o.entity = e /\ ~Gone(o) /\ ~o.pending_deactivation
  BY DEF NewObject, Gone
<1>4. /\ id \in Ids /\ id \notin DOMAIN m_active_objects /\ MapType(m_map) /\ DbaseType
      /\ EntriesOf(m_map, m_active_objects)
      /\ alive \subseteq created /\ alive \subseteq Entities /\ created \subseteq Entities
  BY Types, StaticEntriesOf DEF FreeIds, CopyInv, IInv, Objects, TypeOK
<1>5. /\ MapCopies(m_map, dbase, alive, WasActive, created)
      /\ ObjectCopies(m_active_objects, m_map, alive, created, pc = "shutdown")
      /\ OnePlace(m_active_objects, m_map, dbase, alive)
  BY DEF CopyInv, AllPlaces
<1>6. \A i \in DOMAIN m_active_objects : m_active_objects[i].entity # e
  BY <1>2, ObjectFacts DEF Objects
<1>7. Phases' /\ WasActive' = WasActive
  BY <1>2 DEF CopyInv, AllPlaces, Phases, WasActive
<1> HIDE DEF o, a2, c2, static
<1>8. /\ DOMAIN m_active_objects' = DOMAIN m_active_objects \cup {id}
      /\ m_active_objects'[id] = o
      /\ \A i \in DOMAIN m_active_objects : i # id /\ m_active_objects'[i] = m_active_objects[i]
  BY <1>1, <1>4 DEF With
<1>9. /\ MapCopies(m_map', dbase, a2, WasActive, c2)
      /\ StoredAlike(m_map', m_map, dbase)
      /\ KeepsEntries(m_map', m_map, id) /\ NoMoreEntries(m_map', m_map, id)
  <2>1. CASE e \in NotSaved
    <3>1. m_map' = m_map
      BY <1>1, <2>1
    <3>2. \A x \in DOMAIN m_map : ~HasEntry(m_map, x, e)
      BY <1>4, <1>6 DEF HasEntry, EntriesOf, Entry
    <3>3. MapCopies(m_map, dbase, a2, WasActive, c2)
      BY <1>2, <1>5, <3>2, MapBorn DEF a2, c2
    <3> QED BY <3>1, <3>3 DEF StoredAlike, SameStored, KeepsEntries, NoMoreEntries
  <2>2. CASE e \notin NotSaved
    <3> DEFINE block == [m2[b] EXCEPT !.active = With(@, id, e), !.modified = TRUE]
    <3>1. MapType(m2) /\ b \in DOMAIN m2 /\ SubEntries(m2, m_map)
      BY <1>4, EmergeBlock
    <3>2. m_map' = [m2 EXCEPT ![b] = block]
      BY <1>1, <2>2
    <3>3. PICK r : r = m2
      OBVIOUS
    <3>4. /\ MapCopies(r, dbase, alive, WasActive, created)
          /\ StoredAlike(r, m_map, dbase) /\ KeepsEntries(r, m_map, id)
      BY <1>4, <1>5, <3>3, EmergeCopies
    <3> HIDE DEF m2
    <3>5. \A x \in DOMAIN r : ~HasEntry(r, x, e)
      BY <1>4, <1>6, <3>1, <3>3 DEF HasEntry, EntriesOf, Entry, SubEntries
    <3>6. MapCopies(r, dbase, a2, WasActive, c2)
      BY <1>2, <3>4, <3>5, MapBorn DEF a2, c2
    <3>7. r[b] \in MapBlock
      BY <3>1, <3>3 DEF MapType
    <3>8. /\ block.modified /\ block.stored = r[b].stored /\ block.stamp = r[b].stamp
          /\ DOMAIN block.active = DOMAIN r[b].active \cup {id}
      BY <3>3, <3>7 DEF MapBlock, With
    <3> HIDE DEF block
    <3>9. MapCopies(m_map', dbase, a2, WasActive, c2) /\ StoredBut(m_map', r, dbase, b, block)
      <4>1. MayBecome(block, r[b], a2, c2)
        BY <3>8 DEF MayBecome
      <4>2. MapType(r) /\ b \in DOMAIN r /\ m_map' = [r EXCEPT ![b] = block]
        BY <3>1, <3>2, <3>3
      <4> QED BY <3>6, <4>1, <4>2, ChangeBlock
    <3>10. StoredAlike(m_map', m_map, dbase)
      <4>1. \A i \in Entities : StoredOf(r, dbase, b, i) = r[b].stored[i]
        BY <3>1, <3>3 DEF StoredOf
      <4> QED BY <3>4, <3>8, <3>9, <4>1 DEF StoredAlike, SameStored, StoredBut
    <3>11. /\ DOMAIN m_map' = DOMAIN r /\ m_map'[b] = block
           /\ \A x \in DOMAIN r : x # b => m_map'[x] = r[x]
      BY <3>1, <3>2, <3>3 DEF MapType
    <3>12. KeepsEntries(m_map', m_map, id)
      BY <3>4, <3>8, <3>11 DEF KeepsEntries, Entry
    <3>13. NoMoreEntries(m_map', m_map, id)
      <4>1. \A x, i : i # id /\ Entry(m_map', x, i) => Entry(r, x, i)
        BY <3>8, <3>11 DEF Entry
      <4> QED BY <3>1, <3>3, <4>1 DEF NoMoreEntries, SubEntries
    <3> QED BY <3>9, <3>10, <3>12, <3>13
  <2> QED BY <2>1, <2>2
<1>10. ObjectCopies(m_active_objects', m_map', a2, c2, pc = "shutdown")
  <2>1. OthersStay(m_active_objects', m_active_objects, a2, alive, id)
    BY <1>6, <1>8 DEF OthersStay, a2
  <2>2. ObjectCopy(o, id, m_map', a2, c2, pc = "shutdown")
    BY <1>3 DEF ObjectCopy, a2, c2
  <2>3. created \subseteq c2
    BY DEF c2
  <2> QED BY <1>5, <1>8, <1>9, <2>1, <2>2, <2>3, ObjectCopyChanges
<1>11. OnePlace(m_active_objects', m_map', dbase, a2)
  <2>1. OnePlace(m_active_objects', m_map', dbase, alive)
    <3>1. SameHolders(m_active_objects', m_active_objects, alive)
      BY <1>2, <1>3, <1>4, <1>8 DEF SameHolders
    <3>2. SameStored(m_map', dbase, m_map, dbase, alive)
      BY <1>4, <1>9 DEF StoredAlike, SameStored
    <3> QED BY <1>5, <3>1, <3>2, PlacesStay
  <2>2. IsObject(m_active_objects', m_map', dbase, e)
    <3>1. \A x \in Blocks : StoredOf(m_map, dbase, x, e) = 0
      BY <1>2, <1>5 DEF MapCopies, Created
    <3>2. \A x \in Blocks : StoredOf(m_map', dbase, x, e) = 0
      BY <1>9, <3>1 DEF StoredAlike, SameStored
    <3>3. /\ id \in DOMAIN m_active_objects' /\ m_active_objects'[id].entity = e
          /\ \A i \in DOMAIN m_active_objects' : m_active_objects'[i].entity = e => i = id
      BY <1>3, <1>6, <1>8
    <3> QED BY <3>2, <3>3 DEF IsObject
  <2> QED BY <2>1, <2>2 DEF OnePlace, a2
<1> QED BY <1>2, <1>7, <1>9, <1>10, <1>11, AllPlacesNext

\* An object that is gone leaves: its static data is deleted when it was
\* removed, and stored when it only waited for its id.
LEMMA GonePlaces ==
    ASSUME CopyInv, NEW id \in Objects, removeRemovedObject(id)
    PROVE  AllPlaces'
<1> DEFINE old == m_active_objects[id]
           b == old.static_block
           dd == deleteStaticFromBlock(m_map, id, old, TRUE)
           d == IF old.pending_removal THEN dd ELSE [map |-> m_map, obj |-> old]
           stores == ~old.pending_removal /\ b # None
           m == emergeBlock(m_map, b, FALSE)
           m2 == Stores(m, b, id, old.entity)
<1>1. /\ pc = "idle" /\ Gone(old)
      /\ UNCHANGED <<dbase, m_active_blocks, updateVars, created, alive>>
  BY DEF removeRemovedObject
<1>2. /\ old.known_by_count > 0 =>
            m_active_objects' = [m_active_objects EXCEPT ![id] = d.obj] /\ m_map' = d.map
      /\ ~(old.known_by_count > 0) =>
            /\ m_active_objects' = Without(m_active_objects, {id})
            /\ m_map' = IF stores THEN m2 ELSE d.map
  BY DEF removeRemovedObject, Stores, Moved
<1>3. Phases' /\ WasActive' = WasActive /\ pc' = pc
  BY <1>1 DEF CopyInv, AllPlaces, Phases, WasActive, updateVars
<1>4. /\ id \in Ids /\ id \in DOMAIN m_active_objects /\ old \in ServerActiveObject
      /\ b \in Blocks \cup {None}
      /\ old.entity \in created /\ old.entity \in Entities
      /\ MapType(m_map) /\ DbaseType /\ ObjectsType(m_active_objects)
      /\ EntriesOf(m_map, m_active_objects)
      /\ MapCopies(m_map, dbase, alive, WasActive, created)
      /\ ObjectCopy(old, id, m_map, alive, created, pc = "shutdown")
      /\ alive \in SUBSET Entities
  BY ObjectFacts DEF ServerActiveObject
<1>5. /\ ObjectCopies(m_active_objects, m_map, alive, created, pc = "shutdown")
      /\ OnePlace(m_active_objects, m_map, dbase, alive)
  BY DEF CopyInv, AllPlaces
<1>6. /\ old.entity \in alive => ~old.pending_removal
      /\ old.entity \notin alive /\ Entry(m_map, b, id) => old.pending_removal
  BY <1>1, <1>4 DEF ObjectCopy
<1>7. /\ old.known_by_count > 0 =>
            /\ DOMAIN m_active_objects' = DOMAIN m_active_objects /\ m_active_objects'[id] = d.obj
            /\ \A i \in DOMAIN m_active_objects : i # id => m_active_objects'[i] = m_active_objects[i]
      /\ ~(old.known_by_count > 0) =>
            /\ DOMAIN m_active_objects' = DOMAIN m_active_objects \ {id}
            /\ \A i \in DOMAIN m_active_objects' : m_active_objects'[i] = m_active_objects[i]
  <2> HIDE DEF d, m2, stores
  <2> QED BY <1>2, <1>4 DEF ObjectsType, Without
<1>8. OthersStay(m_active_objects', m_active_objects, alive, alive, id)
  <2> HIDE DEF d
  <2> QED BY <1>7 DEF OthersStay
\* what remains to be shown of a map like the old one
<1>9. ASSUME MapCopies(m_map', dbase, alive, WasActive, created),
             SameStored(m_map', dbase, m_map, dbase, alive),
             KeepsEntries(m_map', m_map, id), NoMoreEntries(m_map', m_map, id),
             SameHolders(m_active_objects', m_active_objects, alive),
             id \in DOMAIN m_active_objects' =>
                ObjectCopy(m_active_objects'[id], id, m_map', alive, created, pc = "shutdown")
      PROVE  AllPlaces'
  <2>1. ObjectCopies(m_active_objects', m_map', alive, created, pc = "shutdown")
    BY <1>5, <1>8, <1>9, ObjectCopyChanges
  <2>2. OnePlace(m_active_objects', m_map', dbase, alive)
    BY <1>5, <1>9, PlacesStay
  <2> QED BY <1>1, <1>3, <1>9, <2>1, <2>2, AllPlacesNext
<1>10. CASE old.pending_removal
  <2>1. old.entity \notin alive
    BY <1>6, <1>10
  <2>2. m_map' = dd.map /\ d = dd
    BY <1>2, <1>10
  <2>3. /\ MapCopies(dd.map, dbase, alive, WasActive, created)
        /\ StoredAlike(dd.map, m_map, dbase) /\ KeepsEntries(dd.map, m_map, id)
    BY <1>4, DeleteCopies
  <2>4. /\ dd.obj = old \/ dd.obj = [old EXCEPT !.static_block = None]
        /\ SubEntries(dd.map, m_map) /\ \A x : ~Entry(dd.map, x, id)
    <3>1. PICK w \in BOOLEAN : w = TRUE
      OBVIOUS
    <3>2. dd = deleteStaticFromBlock(m_map, id, old, w)
      BY <3>1
    <3>3. \A x : ~Entry(dd.map, x, id)
      <4>1. TypeOK /\ StaticEntries
        BY DEF CopyInv, IInv
      <4> HIDE DEF dd
      <4> QED BY <3>2, <4>1, DeletedEverywhere
    <3> HIDE DEF dd, old
    <3> QED BY <1>4, <3>2, <3>3, DeleteStatic
  <2>5. dd.obj.entity = old.entity /\ dd.obj.pending_removal
    <3> HIDE DEF dd
    <3> QED BY <1>4, <1>10, <2>4 DEF ServerActiveObject
  <2>6. id \in DOMAIN m_active_objects' => m_active_objects'[id] = dd.obj
    BY <1>7, <2>2
  <2> HIDE DEF dd, d
  <2>7. SameStored(m_map', dbase, m_map, dbase, alive)
    BY <1>4, <2>2, <2>3 DEF StoredAlike, SameStored
  <2>8. NoMoreEntries(m_map', m_map, id)
    BY <2>2, <2>4 DEF NoMoreEntries, SubEntries
  <2>9. SameHolders(m_active_objects', m_active_objects, alive)
    BY <1>7, <2>1, <2>5, <2>6 DEF SameHolders
  <2>10. id \in DOMAIN m_active_objects' =>
            ObjectCopy(m_active_objects'[id], id, m_map', alive, created, pc = "shutdown")
    <3> HIDE DEF old
    <3> QED BY <1>1, <1>4, <2>1, <2>2, <2>4, <2>5, <2>6 DEF ObjectCopy, Gone
  <2> QED BY <1>9, <2>2, <2>3, <2>7, <2>8, <2>9, <2>10
<1>11. CASE ~old.pending_removal /\ old.known_by_count > 0
  <2>1. m_map' = m_map /\ m_active_objects'[id] = old
    BY <1>2, <1>7, <1>11
  <2>2. SameHolders(m_active_objects', m_active_objects, alive)
    BY <1>7, <1>11, <2>1 DEF SameHolders
  <2>3. /\ SameStored(m_map, dbase, m_map, dbase, alive)
        /\ KeepsEntries(m_map, m_map, id) /\ NoMoreEntries(m_map, m_map, id)
    BY DEF SameStored, KeepsEntries, NoMoreEntries
  <2> QED BY <1>4, <1>9, <2>1, <2>2, <2>3
<1>12. CASE ~old.pending_removal /\ ~(old.known_by_count > 0)
  <2>1. m_active_objects' = Without(m_active_objects, {id}) /\ id \notin DOMAIN m_active_objects'
    BY <1>2, <1>7, <1>12
  <2>2. CASE old.entity \in alive
    <3>1. b \in Blocks /\ Entry(m_map, b, id) /\ b \in DOMAIN m_map /\ id \in DOMAIN m_map[b].active
      BY <1>1, <1>4, <2>2 DEF ObjectCopy, Entry, MapType
    <3>2. m = m_map
      BY <3>1 DEF emergeBlock
    <3> DEFINE block == [m_map[b] EXCEPT !.stored = Plus(@, old.entity),
                                         !.active = Without(@, {id}), !.modified = TRUE]
    <3>3. m_map' = [m_map EXCEPT ![b] = block]
      <4>1. stores
        BY <1>4, <1>12, <3>1
      <4>2. m_map' = m2
        BY <1>2, <1>12, <4>1
      <4>3. m2 = [m_map EXCEPT ![b] = block]
        BY <3>1, <3>2 DEF Stores, Moved
      <4> QED BY <4>2, <4>3
    <3>4. m_map[b] \in MapBlock /\ m_map[b].stored \in [Entities -> Nat]
      BY <1>4, <3>1 DEF MapType, MapBlock, Stored
    <3>5. /\ block.modified /\ block.stamp = m_map[b].stamp
          /\ block.stored = Plus(m_map[b].stored, old.entity)
          /\ block.active = Without(m_map[b].active, {id})
      BY <3>4 DEF MapBlock
    <3> HIDE DEF block, old, m, m2, d
    <3>6. /\ block.stored[old.entity] = m_map[b].stored[old.entity] + 1
          /\ \A e \in Entities : e # old.entity => block.stored[e] = m_map[b].stored[e]
      BY <1>4, <3>4, <3>5 DEF Plus
    <3>7. MapCopies(m_map', dbase, alive, WasActive, created) /\ StoredBut(m_map', m_map, dbase, b, block)
      <4>1. MayBecome(block, m_map[b], alive, created)
        BY <1>4, <2>2, <3>5, <3>6 DEF MayBecome
      <4> HIDE DEF b
      <4> QED BY <1>4, <3>1, <3>3, <4>1, ChangeBlock
    <3>8. StoredMore(m_map', m_map, dbase, b, old.entity)
      <4>1. \A e \in Entities : StoredOf(m_map, dbase, b, e) = m_map[b].stored[e]
        BY <3>1 DEF StoredOf
      <4> QED BY <1>4, <3>1, <3>6, <3>7, <4>1 DEF StoredMore, StoredBut
    <3>9. /\ DOMAIN m_map' = DOMAIN m_map /\ m_map'[b] = block
          /\ \A x \in DOMAIN m_map : x # b => m_map'[x] = m_map[x]
      BY <1>4, <3>1, <3>3 DEF MapType
    <3>10. DOMAIN block.active = DOMAIN m_map[b].active \ {id}
      BY <3>5 DEF Without
    <3>11. KeepsEntries(m_map', m_map, id) /\ NoMoreEntries(m_map', m_map, id)
      BY <3>9, <3>10 DEF KeepsEntries, NoMoreEntries, Entry
    <3>12. ObjectCopies(m_active_objects', m_map', alive, created, pc = "shutdown")
      BY <1>5, <1>8, <2>1, <3>11, ObjectCopyChanges
    <3>13. OnePlace(m_active_objects', m_map', dbase, alive)
      <4>1. m_active_objects[id].entity \in alive
            /\ StoredMore(m_map', m_map, dbase, b, m_active_objects[id].entity)
        BY <2>2, <3>8 DEF old
      <4> HIDE DEF b
      <4>2. OnePlace(Without(m_active_objects, {id}), m_map', dbase, alive)
        BY <1>4, <1>5, <3>1, <4>1, PlaceStores
      <4> QED BY <2>1, <4>2
    <3> QED BY <1>1, <1>3, <3>7, <3>12, <3>13, AllPlacesNext
  <2>3. CASE old.entity \notin alive
    <3>1. ~Entry(m_map, b, id)
      BY <1>6, <1>12, <2>3
    <3>2. m_map' = m_map \/ (b \in Blocks /\ m_map' = emergeBlock(m_map, b, FALSE))
      <4>1. CASE ~stores
        BY <1>2, <1>12, <4>1
      <4>2. CASE stores
        <5>1. b \in Blocks /\ m_map' = m2
          BY <1>2, <1>4, <1>12, <4>2
        <5>2. SubEntries(m, m_map)
          BY <1>4, <5>1, EmergeBlock
        <5>3. ~Entry(m, b, id)
          BY <3>1, <5>2 DEF SubEntries
        <5>4. m2 = m
          BY <5>3 DEF Stores, Entry
        <5> QED BY <5>1, <5>4
      <4> QED BY <4>1, <4>2
    <3> HIDE DEF b, m, m2, d, stores
    <3>3. /\ MapCopies(m_map', dbase, alive, WasActive, created)
          /\ StoredAlike(m_map', m_map, dbase)
          /\ KeepsEntries(m_map', m_map, id) /\ NoMoreEntries(m_map', m_map, id)
      <4>1. CASE m_map' = m_map
        BY <1>4, <4>1 DEF StoredAlike, SameStored, KeepsEntries, NoMoreEntries
      <4>2. CASE b \in Blocks /\ m_map' = emergeBlock(m_map, b, FALSE)
        <5>1. PICK r : r = m_map'
          OBVIOUS
        <5>2. /\ MapCopies(r, dbase, alive, WasActive, created)
              /\ StoredAlike(r, m_map, dbase) /\ KeepsEntries(r, m_map, id)
          BY <1>4, <4>2, <5>1, EmergeCopies
        <5>3. SubEntries(r, m_map)
          BY <1>4, <4>2, <5>1, EmergeBlock
        <5> QED BY <5>1, <5>2, <5>3 DEF NoMoreEntries, SubEntries
      <4> QED BY <3>2, <4>1, <4>2
    <3>4. SameStored(m_map', dbase, m_map, dbase, alive)
      BY <1>4, <3>3 DEF StoredAlike, SameStored
    <3>5. SameHolders(m_active_objects', m_active_objects, alive)
      BY <1>7, <1>12, <2>3 DEF SameHolders
    <3> QED BY <1>9, <2>1, <3>3, <3>4, <3>5
  <2> QED BY <2>2, <2>3
<1> QED BY <1>10, <1>11, <1>12

-----------------------------------------------------------------------------
(* Steps that delete and clear                                             *)

\* Deleting a block by a mod takes with it what is stored in it and what waits
\* in it for its id; every other entity stays where it is.
LEMMA DeleteBlockPlaces ==
    ASSUME CopyInv, NEW b \in Blocks, deleteBlock(b)
    PROVE  AllPlaces'
<1> DEFINE HeldIn == {id \in DOMAIN m_map[b].active : id \in Objects /\ Gone(m_active_objects[id])}
           lost == IF b \in DOMAIN m_map
                   THEN Kinds(m_map[b].stored) \cup {m_map[b].active[id] : id \in HeldIn}
                   ELSE Kinds(dbase[b].stored)
           m2 == m_map'
           d2 == dbase'
           a2 == alive \ lost
<1>1. /\ pc # "shutdown" /\ b \in DOMAIN m_map \cup DOMAIN dbase
      /\ m2 = Without(m_map, {b}) /\ d2 = Without(dbase, {b}) /\ alive' = a2
      /\ UNCHANGED <<m_active_objects, m_active_blocks, updateVars, created>>
  BY DEF deleteBlock, ByMod
<1>2. Phases' /\ WasActive' = WasActive /\ pc' = pc
  BY <1>1 DEF CopyInv, AllPlaces, Phases, WasActive, updateVars
<1>3. /\ MapType(m_map) /\ DbaseType /\ EntriesOf(m_map, m_active_objects)
      /\ alive \subseteq Entities
      /\ MapCopies(m_map, dbase, alive, WasActive, created)
      /\ ObjectCopies(m_active_objects, m_map, alive, created, pc = "shutdown")
      /\ OnePlace(m_active_objects, m_map, dbase, alive)
  BY Types, StaticEntriesOf DEF CopyInv, IInv, AllPlaces, TypeOK
<1>4. /\ DOMAIN m2 = DOMAIN m_map \ {b} /\ \A x \in DOMAIN m2 : m2[x] = m_map[x]
      /\ DOMAIN d2 = DOMAIN dbase \ {b} /\ \A x \in DOMAIN d2 : d2[x] = dbase[x]
  BY <1>1 DEF Without
<1> HIDE DEF m2, d2
<1>5. \A e \in Entities : /\ StoredOf(m2, d2, b, e) = 0
                          /\ \A x \in Blocks : x # b => StoredOf(m2, d2, x, e) = StoredOf(m_map, dbase, x, e)
  BY <1>4 DEF StoredOf, DiskOf
<1>6. \A x, i : Entry(m2, x, i) <=> Entry(m_map, x, i) /\ x # b
  BY <1>4 DEF Entry
<1>7. MapCopies(m2, d2, alive, WasActive, created)
  <2> SUFFICES ASSUME NEW x \in Blocks, NEW e \in Entities
               PROVE  /\ Dropped(m2, d2, alive, x, e) /\ OnDiskToo(m2, d2, alive, x, e)
                      /\ Fresh(m2, d2, alive, WasActive, x, e) /\ Created(m2, d2, created, x, e)
    BY DEF MapCopies
  <2>1. /\ Dropped(m_map, dbase, alive, x, e) /\ OnDiskToo(m_map, dbase, alive, x, e)
        /\ Fresh(m_map, dbase, alive, WasActive, x, e) /\ Created(m_map, dbase, created, x, e)
    BY <1>3 DEF MapCopies
  <2>2. CASE x = b
    BY <1>4, <1>5, <2>2 DEF Dropped, OnDiskToo, Fresh, Created, DiskOf
  <2>3. CASE x # b
    <3>1. /\ (x \in DOMAIN m2 <=> x \in DOMAIN m_map) /\ (x \in DOMAIN m_map => m2[x] = m_map[x])
          /\ (x \in DOMAIN d2 <=> x \in DOMAIN dbase) /\ (x \in DOMAIN dbase => d2[x] = dbase[x])
      BY <1>4, <2>3
    <3>2. DiskOf(d2, x, e) = DiskOf(dbase, x, e) /\ (DiskOf(dbase, x, e) > 0 => x \in DOMAIN dbase)
      BY <3>1 DEF DiskOf
    <3>3. StoredOf(m2, d2, x, e) > 0 => x \in DOMAIN m2 \/ x \in DOMAIN d2
      BY DEF StoredOf, DiskOf
    <3>4. StoredOf(m2, d2, x, e) = StoredOf(m_map, dbase, x, e)
      BY <1>5, <2>3
    <3>5. OnDiskToo(m2, d2, alive, x, e)
      BY <2>1, <3>1, <3>2 DEF OnDiskToo, HasEntry
    <3> QED BY <2>1, <3>1, <3>2, <3>3, <3>4, <3>5 DEF Dropped, Fresh, Created, StampOf
  <2> QED BY <2>2, <2>3
\* what is lost is an object whose entry is in b, or stored in b
<1>8. \A e \in alive : e \in lost <=> \/ StoredOf(m_map, dbase, b, e) > 0
                                      \/ \E id \in Objects : /\ m_active_objects[id].entity = e
                                                             /\ Gone(m_active_objects[id])
                                                             /\ Entry(m_map, b, id)
  <2> SUFFICES ASSUME NEW e \in alive
               PROVE  e \in lost <=> \/ StoredOf(m_map, dbase, b, e) > 0
                                     \/ \E id \in Objects : /\ m_active_objects[id].entity = e
                                                            /\ Gone(m_active_objects[id])
                                                            /\ Entry(m_map, b, id)
    OBVIOUS
  <2>1. e \in Entities
    BY <1>3
  <2>2. CASE b \in DOMAIN m_map
    <3>1. lost = Kinds(m_map[b].stored) \cup {m_map[b].active[id] : id \in HeldIn}
      BY <2>2
    <3>2. e \in Kinds(m_map[b].stored) <=> StoredOf(m_map, dbase, b, e) > 0
      BY <2>1, <2>2 DEF Kinds, StoredOf
    <3>3. e \in {m_map[b].active[id] : id \in HeldIn} <=>
             \E id \in Objects : /\ m_active_objects[id].entity = e
                                 /\ Gone(m_active_objects[id]) /\ Entry(m_map, b, id)
      <4>1. \A id : Entry(m_map, b, id) <=> id \in DOMAIN m_map[b].active
        BY <2>2 DEF Entry
      <4>2. \A id \in DOMAIN m_map[b].active :
               id \in Objects /\ m_active_objects[id].entity = m_map[b].active[id]
        BY <1>3, <4>1 DEF EntriesOf, Objects
      <4>3. \A id : id \in HeldIn <=> Entry(m_map, b, id) /\ Gone(m_active_objects[id])
        BY <4>1, <4>2
      <4> HIDE DEF HeldIn
      <4> QED BY <4>1, <4>2, <4>3
    <3> HIDE DEF lost, HeldIn
    <3> QED BY <3>1, <3>2, <3>3
  <2>3. CASE b \notin DOMAIN m_map
    <3>1. lost = Kinds(dbase[b].stored) /\ b \in DOMAIN dbase
      BY <1>1, <2>3
    <3>2. e \in Kinds(dbase[b].stored) <=> StoredOf(m_map, dbase, b, e) > 0
      BY <2>1, <2>3, <3>1 DEF Kinds, StoredOf, DiskOf
    <3>3. \A id : ~Entry(m_map, b, id)
      BY <2>3 DEF Entry
    <3> HIDE DEF lost, HeldIn
    <3> QED BY <3>1, <3>2, <3>3
  <2> QED BY <2>2, <2>3
<1> HIDE DEF lost
<1>9. \A e \in alive \cap lost, x \in Blocks : StoredOf(m2, d2, x, e) = 0
  <2> SUFFICES ASSUME NEW e \in alive, e \in lost, NEW x \in Blocks, x # b
               PROVE  StoredOf(m_map, dbase, x, e) = 0
    BY <1>3, <1>5
  <2>1. IsObject(m_active_objects, m_map, dbase, e) \/ IsStored(m_active_objects, m_map, dbase, e)
    BY <1>3 DEF OnePlace
  <2>2. CASE StoredOf(m_map, dbase, b, e) > 0
    <3>1. IsStored(m_active_objects, m_map, dbase, e)
      BY <2>1, <2>2 DEF IsObject
    <3>2. PICK y \in Blocks : \A z \in Blocks : z # y => StoredOf(m_map, dbase, z, e) = 0
      BY <3>1 DEF IsStored
    <3> QED BY <2>2, <3>2
  <2>3. CASE \E id \in Objects : m_active_objects[id].entity = e
    BY <2>1, <2>3 DEF IsStored, IsObject, Objects
  <2> QED BY <1>8, <2>2, <2>3
<1>10. MapCopies(m2, d2, a2, WasActive, created)
  BY <1>7, <1>9, MapDies
<1>11. ObjectCopies(m_active_objects, m2, a2, created, pc = "shutdown")
  <2> SUFFICES ASSUME NEW id \in Objects
               PROVE  ObjectCopy(m_active_objects[id], id, m2, a2, created, pc = "shutdown")
    BY DEF ObjectCopies, Objects
  <2> DEFINE o == m_active_objects[id]
  <2>0. Entry(m2, o.static_block, id) <=> Entry(m_map, o.static_block, id) /\ o.static_block # b
    BY <1>6
  <2>1. ObjectCopy(o, id, m_map, alive, created, pc = "shutdown")
    BY <1>3 DEF ObjectCopies, Objects
  <2>2. \A x : Entry(m_map, x, id) => o.static_block = x
    BY <1>3 DEF EntriesOf
  <2>3. CASE o.entity \in a2
    <3>1. Gone(o) => ~Entry(m_map, b, id)
      BY <1>8, <2>3
    <3>2. o.entity \in alive
      BY <2>3
    <3> HIDE DEF a2
    <3> QED BY <1>1, <2>0, <2>1, <2>3, <3>1, <3>2 DEF ObjectCopy
  <2>4. CASE o.entity \notin alive
    <3>1. o.entity \notin a2
      BY <2>4
    <3> HIDE DEF a2
    <3> QED BY <1>1, <2>0, <2>1, <2>4, <3>1 DEF ObjectCopy
  <2>5. CASE o.entity \in alive /\ o.entity \in lost
    <3>1. StoredOf(m_map, dbase, b, o.entity) = 0
          /\ \A i \in Objects : m_active_objects[i].entity = o.entity => i = id
      BY <2>5, OnlyObject
    <3>2. Gone(o) /\ Entry(m_map, b, id)
      BY <1>8, <2>5, <3>1
    <3>3. ~Entry(m2, o.static_block, id)
      BY <1>6, <2>2, <3>2
    <3>4. o.entity \notin a2
      BY <2>5
    <3> HIDE DEF a2
    <3> QED BY <1>1, <2>1, <2>5, <3>2, <3>3, <3>4 DEF ObjectCopy
  <2> QED BY <2>3, <2>4, <2>5
<1>12. OnePlace(m_active_objects, m2, d2, a2)
  <2> SUFFICES ASSUME NEW e \in a2
               PROVE  \/ IsObject(m_active_objects, m2, d2, e)
                      \/ IsStored(m_active_objects, m2, d2, e)
    BY DEF OnePlace
  <2>1. IsObject(m_active_objects, m_map, dbase, e) \/ IsStored(m_active_objects, m_map, dbase, e)
    BY <1>3 DEF OnePlace
  <2>2. ~(StoredOf(m_map, dbase, b, e) > 0) /\ e \in Entities
    BY <1>3, <1>8
  <2>3. CASE IsObject(m_active_objects, m_map, dbase, e)
    <3>1. \A x \in Blocks : StoredOf(m2, d2, x, e) = 0
      BY <1>5, <2>2, <2>3 DEF IsObject
    <3> QED BY <2>3, <3>1 DEF IsObject
  <2>4. CASE IsStored(m_active_objects, m_map, dbase, e)
    <3>1. PICK y \in Blocks : /\ StoredOf(m_map, dbase, y, e) = 1
                              /\ \A z \in Blocks : z # y => StoredOf(m_map, dbase, z, e) = 0
      BY <2>4 DEF IsStored
    <3>2. y # b
      BY <2>2, <3>1
    <3>3. /\ StoredOf(m2, d2, y, e) = 1
          /\ \A z \in Blocks : z # y => StoredOf(m2, d2, z, e) = 0
      BY <1>5, <2>2, <3>1, <3>2
    <3> QED BY <2>4, <3>3 DEF IsStored
  <2> QED BY <2>1, <2>3, <2>4
<1> QED BY <1>1, <1>2, <1>10, <1>11, <1>12, AllPlacesNext DEF m2, d2

\* An object that is cleared, which clients know.
Cleared(o, old) == o.entity = old.entity /\ o.pending_removal

\* A block that is cleared and need not be written had nothing in it.
ClearedBlock(new, old) ==
    /\ new.stored = NoneStored /\ new.active = Nothing
    /\ ~new.modified => ~old.modified /\ old.stored = NoneStored /\ old.active = Nothing

\* A block on disk that is cleared: what it had is gone or to be dropped.
ClearedOnDisk(new, old, emptied) ==
    /\ emptied => new.stored = NoneStored
    /\ ~emptied => new.stored = old.stored
    /\ new.stamp = Aged(old.stamp)

LEMMA ClearedState ==
    ASSUME CopyInv, NEW full \in BOOLEAN, clearObjects(full)
    PROVE  /\ pc # "shutdown" /\ Phases' /\ WasActive' = WasActive /\ pc' = pc /\ created' = created
           /\ alive' = IF full THEN {} ELSE {e \in alive : Missed(e)}
           /\ DOMAIN m_active_objects' \subseteq Objects
           /\ \A id \in DOMAIN m_active_objects' :
                 Cleared(m_active_objects'[id], m_active_objects[id])
           /\ DOMAIN m_map' = DOMAIN m_map
           /\ \A b \in DOMAIN m_map : ClearedBlock(m_map'[b], m_map[b])
           /\ DOMAIN dbase' = DOMAIN dbase
           /\ \A b \in DOMAIN dbase :
                 ClearedOnDisk(dbase'[b], dbase[b], full /\ b \notin DOMAIN m_map)
<1> DEFINE Left(id) == [m_active_objects[id] EXCEPT
                           !.pending_removal = TRUE,
                           !.static_block = IF @ \in DOMAIN m_map THEN None ELSE @]
           Empty(b) == [stored |-> NoneStored, active |-> Nothing,
                        modified |-> \/ m_map[b].modified
                                     \/ m_map[b].stored # NoneStored \/ m_map[b].active # Nothing
                                     \/ \E id \in Objects : m_active_objects[id].static_block = b,
                        stamp |-> IF b \in m_active_blocks \ added THEN m_map[b].stamp
                                  ELSE Aged(m_map[b].stamp)]
           Old(b) == [stored |-> IF full /\ b \notin DOMAIN m_map THEN NoneStored ELSE dbase[b].stored,
                      stamp |-> Aged(dbase[b].stamp)]
           known == {i \in Objects : m_active_objects[i].known_by_count > 0}
<1>1. pc # "shutdown" /\ UNCHANGED <<m_active_blocks, pc, removed, added, created>>
  <2>1. ByMod /\ UNCHANGED <<m_active_blocks, updateVars, created>>
    BY ZenonT(30) DEF clearObjects
  <2> QED BY <2>1 DEF ByMod, updateVars
<1>6. /\ alive' = IF full THEN {} ELSE {e \in alive : Missed(e)}
      /\ m_active_objects' = [id \in known |-> Left(id)]
      /\ m_map' = [b \in DOMAIN m_map |-> Empty(b)]
      /\ dbase' = [b \in DOMAIN dbase |-> Old(b)]
  BY ZenonT(60) DEF clearObjects
<1>2. \A id \in Objects : Cleared(Left(id), m_active_objects[id])
  <2>1. \A id \in Objects : m_active_objects[id] \in ServerActiveObject
    BY Types DEF CopyInv, IInv
  <2> QED BY <2>1 DEF Cleared, ServerActiveObject
<1>3. \A b \in DOMAIN m_map : ClearedBlock(Empty(b), m_map[b])
  BY DEF ClearedBlock
<1>4. \A b \in DOMAIN dbase : ClearedOnDisk(Old(b), dbase[b], full /\ b \notin DOMAIN m_map)
  BY DEF ClearedOnDisk
<1>5. Phases' /\ WasActive' = WasActive /\ pc' = pc
  BY <1>1 DEF CopyInv, AllPlaces, Phases, WasActive
<1> HIDE DEF Left, Empty, Old
<1> QED BY <1>1, <1>2, <1>3, <1>4, <1>5, <1>6

LEMMA ClearPlaces ==
    ASSUME CopyInv, NEW full \in BOOLEAN, clearObjects(full)
    PROVE  AllPlaces'
<1> DEFINE m2 == m_map'
           d2 == dbase'
           a2 == alive'
           f2 == m_active_objects'
<1>1. /\ pc # "shutdown" /\ Phases' /\ WasActive' = WasActive /\ pc' = pc /\ created' = created
      /\ a2 = IF full THEN {} ELSE {e \in alive : Missed(e)}
      /\ DOMAIN f2 \subseteq Objects
      /\ \A id \in DOMAIN f2 : Cleared(f2[id], m_active_objects[id])
      /\ DOMAIN m2 = DOMAIN m_map /\ \A b \in DOMAIN m_map : ClearedBlock(m2[b], m_map[b])
      /\ DOMAIN d2 = DOMAIN dbase
      /\ \A b \in DOMAIN dbase : ClearedOnDisk(d2[b], dbase[b], full /\ b \notin DOMAIN m_map)
  BY ClearedState
<1>2. /\ DbaseType /\ alive \subseteq Entities
      /\ MapCopies(m_map, dbase, alive, WasActive, created)
      /\ ObjectCopies(m_active_objects, m_map, alive, created, pc = "shutdown")
      /\ OnePlace(m_active_objects, m_map, dbase, alive)
  BY Types DEF CopyInv, IInv, AllPlaces, TypeOK
<1> HIDE DEF m2, d2, a2, f2
<1>3. \A b \in DOMAIN m_map, e \in Entities :
         /\ m2[b].stored[e] = 0 /\ ~HasEntry(m2, b, e)
         /\ ~m2[b].modified => ~m_map[b].modified /\ m_map[b].stored[e] = 0 /\ ~HasEntry(m_map, b, e)
  <2>1. \A e \in Entities : NoneStored[e] = 0
    BY DEF NoneStored
  <2>2. DOMAIN Nothing = {}
    BY NothingIsTable
  <2> QED BY <1>1, <2>1, <2>2 DEF ClearedBlock, HasEntry
<1>4. \A x, i : ~Entry(m2, x, i)
  BY <1>1, NothingIsTable DEF Entry, ClearedBlock
\* what is on disk
<1>5. \A b \in Blocks, e \in Entities :
         /\ full /\ b \notin DOMAIN m_map => DiskOf(d2, b, e) = 0
         /\ ~(full /\ b \notin DOMAIN m_map) => DiskOf(d2, b, e) = DiskOf(dbase, b, e)
         /\ DiskOf(d2, b, e) > 0 => b \in DOMAIN dbase /\ d2[b].stamp = Aged(dbase[b].stamp)
  <2> SUFFICES ASSUME NEW b \in Blocks, NEW e \in Entities
               PROVE  /\ full /\ b \notin DOMAIN m_map => DiskOf(d2, b, e) = 0
                      /\ ~(full /\ b \notin DOMAIN m_map) => DiskOf(d2, b, e) = DiskOf(dbase, b, e)
                      /\ DiskOf(d2, b, e) > 0 => b \in DOMAIN dbase /\ d2[b].stamp = Aged(dbase[b].stamp)
    OBVIOUS
  <2>1. CASE b \notin DOMAIN dbase
    BY <1>1, <2>1 DEF DiskOf
  <2>2. CASE b \in DOMAIN dbase
    <3>1. ClearedOnDisk(d2[b], dbase[b], full /\ b \notin DOMAIN m_map)
      BY <1>1, <2>2
    <3> QED BY <1>1, <2>2, <3>1 DEF ClearedOnDisk, DiskOf, NoneStored
  <2> QED BY <2>1, <2>2
\* an entity is missed where it is stored on disk only
<1>6. \A e \in a2 : /\ ~full /\ e \in alive /\ e \in Entities
                    /\ \E b \in Blocks : b \notin DOMAIN m_map /\ StoredOf(m_map, dbase, b, e) > 0
  <2> SUFFICES ASSUME NEW e \in a2
               PROVE  /\ ~full /\ e \in alive /\ e \in Entities
                      /\ \E b \in Blocks : b \notin DOMAIN m_map /\ StoredOf(m_map, dbase, b, e) > 0
    OBVIOUS
  <2>1. ~full /\ e \in alive /\ Missed(e)
    BY <1>1
  <2>2. PICK b \in DOMAIN dbase \ DOMAIN m_map : dbase[b].stored[e] > 0
    BY <2>1 DEF Missed
  <2>3. b \in Blocks /\ StoredOf(m_map, dbase, b, e) > 0
    BY <1>2, <2>2 DEF DbaseType, StoredOf, DiskOf
  <2> QED BY <1>2, <2>1, <2>2, <2>3
<1>7. \A e \in alive, b \in Blocks :
         e \notin a2 /\ b \notin DOMAIN m_map /\ DiskOf(d2, b, e) > 0 => Aged(dbase[b].stamp) = "old"
  <2> SUFFICES ASSUME NEW e \in alive, NEW b \in Blocks, e \notin a2, b \notin DOMAIN m_map,
                      DiskOf(d2, b, e) > 0
               PROVE  Aged(dbase[b].stamp) = "old"
    OBVIOUS
  <2>1. ~full /\ b \in DOMAIN dbase /\ DiskOf(dbase, b, e) > 0
    BY <1>2, <1>5
  <2>2. ~Missed(e)
    BY <1>1, <2>1
  <2>3. dbase[b].stamp # "undefined"
    BY <2>1, <2>2 DEF Missed, DiskOf
  <2>4. dbase[b].stamp \in Stamps
    BY <1>2, <2>1 DEF DbaseType, StoredBlock
  <2> QED BY <2>3, <2>4 DEF Aged, Stamps
<1>8. Aged("old") = "old"
  BY DEF Aged
<1>9. ASSUME NEW b \in Blocks, NEW e \in Entities
      PROVE  /\ Dropped(m2, d2, a2, b, e) /\ OnDiskToo(m2, d2, a2, b, e)
             /\ Fresh(m2, d2, a2, WasActive, b, e) /\ Created(m2, d2, created, b, e)
  <2>1. /\ Dropped(m_map, dbase, alive, b, e) /\ OnDiskToo(m_map, dbase, alive, b, e)
        /\ Fresh(m_map, dbase, alive, WasActive, b, e) /\ Created(m_map, dbase, created, b, e)
    BY <1>2 DEF MapCopies
  <2>2. e \in a2 => e \in alive
    BY <1>6
  <2>3. CASE b \in DOMAIN m_map
    <3>1. /\ b \in DOMAIN m2 /\ m2[b].stored[e] = 0 /\ StoredOf(m2, d2, b, e) = 0
          /\ DiskOf(d2, b, e) = DiskOf(dbase, b, e)
      BY <1>1, <1>3, <1>5, <2>3 DEF StoredOf
    <3>2. OnDiskToo(m2, d2, a2, b, e)
      <4> SUFFICES ASSUME ~m2[b].modified PROVE OnDiskToo(m2, d2, a2, b, e)
        BY DEF OnDiskToo
      <4>1. ~m_map[b].modified /\ m_map[b].stored[e] = 0 /\ ~HasEntry(m_map, b, e) /\ ~HasEntry(m2, b, e)
        BY <1>3, <2>3
      <4>2. /\ e \in alive => DiskOf(dbase, b, e) = 0
            /\ e \notin alive /\ DiskOf(dbase, b, e) > 0 => dbase[b].stamp = "old"
        BY <2>1, <2>3, <4>1 DEF OnDiskToo
      <4> QED BY <1>5, <1>8, <2>2, <3>1, <4>1, <4>2 DEF OnDiskToo
    <3> QED BY <2>1, <3>1, <3>2 DEF Dropped, Fresh, Created
  <2>4. CASE b \notin DOMAIN m_map
    <3>1. b \notin DOMAIN m2 /\ StoredOf(m2, d2, b, e) = DiskOf(d2, b, e)
          /\ StampOf(m2, d2, b) = d2[b].stamp
      BY <1>1, <2>4 DEF StoredOf, StampOf
    <3>2. ASSUME e \notin a2, DiskOf(d2, b, e) > 0 PROVE d2[b].stamp = "old"
      <4>1. d2[b].stamp = Aged(dbase[b].stamp)
        BY <1>5, <3>2
      <4>2. CASE e \in alive
        BY <1>7, <2>4, <3>2, <4>1, <4>2
      <4>3. CASE e \notin alive
        <5>1. DiskOf(dbase, b, e) > 0
          BY <1>5, <3>2
        <5>2. dbase[b].stamp = "old"
          BY <2>1, <2>4, <4>3, <5>1 DEF Dropped, StoredOf, StampOf
        <5> QED BY <1>8, <4>1, <5>2
      <4> QED BY <4>2, <4>3
    <3>3. Created(m2, d2, created, b, e)
      BY <1>5, <2>1, <2>4, <3>1 DEF Created, StoredOf
    <3>4. Fresh(m2, d2, a2, WasActive, b, e)
      BY <1>1, <2>1, <2>4, <3>1 DEF Fresh
    <3> QED BY <3>1, <3>2, <3>3, <3>4 DEF Dropped, OnDiskToo
  <2> QED BY <2>3, <2>4
<1>10. MapCopies(m2, d2, a2, WasActive, created)
  BY <1>9 DEF MapCopies
<1>11. ASSUME NEW e \in a2
       PROVE  IsStored(m_active_objects, m_map, dbase, e) /\ IsStored(f2, m2, d2, e)
  <2>1. PICK b \in Blocks : b \notin DOMAIN m_map /\ StoredOf(m_map, dbase, b, e) > 0
    BY <1>6
  <2>2. ~full /\ e \in alive /\ e \in Entities
    BY <1>6
  <2>3. IsStored(m_active_objects, m_map, dbase, e)
    BY <1>2, <2>1, <2>2 DEF OnePlace, IsObject
  <2>4. PICK y \in Blocks : /\ StoredOf(m_map, dbase, y, e) = 1
                            /\ \A z \in Blocks : z # y => StoredOf(m_map, dbase, z, e) = 0
    BY <2>3 DEF IsStored
  <2>5. y = b
    BY <2>1, <2>4
  <2>6. \A z \in Blocks : StoredOf(m2, d2, z, e) = IF z \in DOMAIN m_map THEN 0 ELSE StoredOf(m_map, dbase, z, e)
    BY <1>1, <1>3, <1>5, <2>2 DEF StoredOf
  <2>7. StoredOf(m2, d2, b, e) = 1 /\ \A z \in Blocks : z # b => StoredOf(m2, d2, z, e) = 0
    BY <2>1, <2>4, <2>5, <2>6
  <2>8. \A id \in DOMAIN f2 : f2[id].entity # e
    BY <1>1, <2>3 DEF IsStored, Cleared, Objects
  <2> QED BY <2>3, <2>7, <2>8 DEF IsStored
<1>12. OnePlace(f2, m2, d2, a2)
  BY <1>11 DEF OnePlace
<1>13. ObjectCopies(f2, m2, a2, created, pc = "shutdown")
  <2> SUFFICES ASSUME NEW id \in DOMAIN f2
               PROVE  ObjectCopy(f2[id], id, m2, a2, created, pc = "shutdown")
    BY DEF ObjectCopies
  <2>1. /\ id \in Objects /\ f2[id].entity = m_active_objects[id].entity
        /\ f2[id].pending_removal
    BY <1>1 DEF Cleared
  <2>2. f2[id].entity \in created
    BY <2>1, ObjectFacts
  <2>3. f2[id].entity \notin a2
    BY <1>11, <2>1 DEF IsStored, Objects
  <2>4. ~Entry(m2, f2[id].static_block, id)
    BY <1>4
  <2> QED BY <1>1, <2>1, <2>2, <2>3, <2>4 DEF ObjectCopy, Gone
<1> QED BY <1>1, <1>10, <1>12, <1>13, AllPlacesNext DEF m2, d2, a2, f2

-----------------------------------------------------------------------------
(* Activation makes objects of what is stored                              *)

\* There are ids for all that a block stores that is to be activated.
RoomForIds ==
    \A b \in added \cap DOMAIN m_map : StoredSize(m_map[b].stored) <= Cardinality(FreeIds)

LEMMA CopiesStored ==
    ASSUME NEW stored \in Stored
    PROVE  /\ \A copy \in CopiesIn(stored) :
                 copy[1] \in Entities /\ copy[2] \in 1 .. stored[copy[1]]
                 /\ copy = <<copy[1], copy[2]>>
           /\ \A e \in Entities : \A i \in 1 .. stored[e] : <<e, i>> \in CopiesIn(stored)
           /\ IsFiniteSet(CopiesIn(stored)) /\ Cardinality(CopiesIn(stored)) \in Nat
<1> DEFINE Of(e) == {<<e, i>> : i \in 1 .. stored[e]}
           All == {Of(e) : e \in Entities}
<1>1. CopiesIn(stored) = UNION All
  BY DEF CopiesIn
<1>2. \A e \in Entities : IsFiniteSet(Of(e))
  <2> SUFFICES ASSUME NEW e \in Entities PROVE IsFiniteSet(Of(e))
    OBVIOUS
  <2> DEFINE f == [i \in 1 .. stored[e] |-> <<e, i>>]
  <2>1. IsFiniteSet(1 .. stored[e])
    <3>1. stored[e] \in Int
      BY DEF Stored
    <3> QED BY <3>1, FS_Interval
  <2>2. f \in Surjection(1 .. stored[e], Of(e))
    BY DEF Surjection
  <2> HIDE DEF f, Of
  <2> QED BY <2>1, <2>2, FS_Surjection
<1>3. IsFiniteSet(All)
  <2> DEFINE f == [e \in Entities |-> Of(e)]
  <2>1. f \in Surjection(Entities, All)
    <3> HIDE DEF Of
    <3> QED BY DEF Surjection
  <2> HIDE DEF f, All
  <2> QED BY <2>1, FS_Surjection
<1>4. IsFiniteSet(CopiesIn(stored))
  <2>1. \A T \in All : IsFiniteSet(T)
    BY <1>2
  <2> HIDE DEF All
  <2> QED BY <1>1, <1>3, <2>1, FS_UNION
<1>5. Cardinality(CopiesIn(stored)) \in Nat
  BY <1>4, FS_CardinalityType
<1>6. \A copy \in CopiesIn(stored) :
         copy[1] \in Entities /\ copy[2] \in 1 .. stored[copy[1]] /\ copy = <<copy[1], copy[2]>>
  BY DEF CopiesIn
<1>7. \A e \in Entities : \A i \in 1 .. stored[e] : <<e, i>> \in CopiesIn(stored)
  BY DEF CopiesIn
<1> QED BY <1>4, <1>5, <1>6, <1>7

\* Block b is activated with objects under new ids.
Activates(b, ids, entity_of) ==
    /\ ids \subseteq Ids \ Objects
    /\ DOMAIN m_active_objects' = Objects \cup ids
    /\ \A id \in Objects : m_active_objects'[id] = m_active_objects[id]
    /\ \A id \in ids : m_active_objects'[id] = NewObject(entity_of[id], b, b)
    /\ DOMAIN m_map' = DOMAIN m_map /\ \A x \in DOMAIN m_map : x # b => m_map'[x] = m_map[x]
    /\ m_map'[b].stored = NoneStored /\ m_map'[b].stamp = "current"
    /\ m_map'[b].modified = m_map[b].modified
    /\ DOMAIN m_map'[b].active = DOMAIN m_map[b].active \cup ids
    /\ \A id \in ids : m_map'[b].active[id] = entity_of[id]
    /\ \A id \in DOMAIN m_map[b].active \ ids : m_map'[b].active[id] = m_map[b].active[id]

\* One new object is of entity e.
MadeOnce(ids, entity_of, e) ==
    \E id \in ids : entity_of[id] = e /\ \A i \in ids : entity_of[i] = e => i = id

\* The objects are what block b stored of e, but for an old block.
Makes(b, ids, entity_of, e) ==
    /\ m_map[b].stamp = "old" => ids = {} /\ (e \in alive' <=> e \in alive /\ m_map[b].stored[e] = 0)
    /\ m_map[b].stamp # "old" =>
          /\ e \in alive' <=> e \in alive
          /\ m_map[b].stored[e] = 0 => \A id \in ids : entity_of[id] # e
          /\ m_map[b].stored[e] = 1 => MadeOnce(ids, entity_of, e)

LEMMA Activated ==
    ASSUME CopyInv, RoomInBlocks, RoomForIds, NEW b \in added \cap DOMAIN m_map, ActivateObjects(b)
    PROVE  \E ids, entity_of : /\ Activates(b, ids, entity_of)
                               /\ \A e \in Entities : Makes(b, ids, entity_of, e)
<1> DEFINE block == m_map[b]
           copies == CopiesIn(block.stored)
           stored == IF block.stamp = "old" THEN {} ELSE copies
           too_many == Cardinality(stored) > MaxObjectsPerBlock
<1>1. /\ MapType(m_map) /\ block \in MapBlock /\ b \in Blocks /\ block.stored \in Stored
      /\ block.modified \in BOOLEAN /\ alive \subseteq Entities
  BY Types DEF CopyInv, IInv, MapType, MapBlock, TypeOK
<1>2. PICK made \in SUBSET stored :
        /\ CASE too_many -> made = {}
             [] Cardinality(stored) <= Cardinality(FreeIds) -> made = stored
             [] OTHER -> Cardinality(made) = Cardinality(FreeIds)
        /\ \E id_of \in Injection(made, FreeIds) :
              LET ids == Range(id_of)
                  entity_of == [id \in ids |-> (CHOOSE copy \in made : id_of[copy] = id)[1]]
              IN
              /\ m_active_objects' = [id \in Objects \cup ids |->
                     IF id \in ids THEN NewObject(entity_of[id], b, b) ELSE m_active_objects[id]]
              /\ m_map' = [m_map EXCEPT ![b] =
                     [stored |-> NoneStored,
                      active |-> [id \in DOMAIN block.active \cup ids |->
                                     IF id \in ids THEN entity_of[id] ELSE block.active[id]],
                      modified |-> block.modified \/ too_many,
                      stamp |-> "current"]]
        /\ alive' = alive \ {copy[1] : copy \in copies \ made}
  BY ZenonT(60) DEF ActivateObjects
<1>15. PICK id_of \in Injection(made, FreeIds) :
        LET ids == Range(id_of)
            entity_of == [id \in ids |-> (CHOOSE copy \in made : id_of[copy] = id)[1]]
        IN
        /\ m_active_objects' = [id \in Objects \cup ids |->
               IF id \in ids THEN NewObject(entity_of[id], b, b) ELSE m_active_objects[id]]
        /\ m_map' = [m_map EXCEPT ![b] =
               [stored |-> NoneStored,
                active |-> [id \in DOMAIN block.active \cup ids |->
                               IF id \in ids THEN entity_of[id] ELSE block.active[id]],
                modified |-> block.modified \/ too_many,
                stamp |-> "current"]]
  BY <1>2
<1> DEFINE ids == Range(id_of)
           entity_of == [id \in ids |-> (CHOOSE copy \in made : id_of[copy] = id)[1]]
           active == [id \in DOMAIN block.active \cup ids |->
                         IF id \in ids THEN entity_of[id] ELSE block.active[id]]
           now == [stored |-> NoneStored, active |-> active,
                   modified |-> block.modified \/ too_many, stamp |-> "current"]
<1>3. /\ m_active_objects' = [id \in Objects \cup ids |->
             IF id \in ids THEN NewObject(entity_of[id], b, b) ELSE m_active_objects[id]]
      /\ m_map' = [m_map EXCEPT ![b] = now]
  BY <1>15
\* there is room for all
<1>4. ~too_many
  <2>1. CASE block.stamp = "old"
    <3>1. stored = {}
      BY <2>1
    <3>2. Cardinality(stored) = 0
      BY <3>1, FS_EmptySet
    <3> HIDE DEF stored
    <3> QED BY <3>2
  <2>2. CASE block.stamp # "old"
    <3>1. ~(Cardinality(copies) >= MaxObjectsPerBlock)
      <4>1. ~Full(m_map, b)
        BY <1>1 DEF RoomInBlocks
      <4>2. StoredIn(m_map, b) = block.stored
        BY DEF StoredIn, emergeBlock
      <4> QED BY <4>1, <4>2 DEF Full, StoredSize
    <3>2. Cardinality(copies) \in Nat
      BY <1>1, CopiesStored
    <3> HIDE DEF copies
    <3> QED BY <2>2, <3>1, <3>2
  <2> QED BY <2>1, <2>2
<1>5. block.stamp # "old" => made = copies
  <2>1. Cardinality(copies) <= Cardinality(FreeIds)
    BY DEF RoomForIds, StoredSize
  <2> HIDE DEF copies, too_many
  <2> QED BY <1>2, <1>4, <2>1
<1>6. block.stamp = "old" => made = {}
  BY <1>2
<1>7. made \subseteq copies
  BY <1>2
\* the new ids
<1>8. ids \subseteq Ids \ Objects
  BY <1>15 DEF Range, Injection, FreeIds
<1>9. \A id \in ids : \E copy \in made : id_of[copy] = id /\ entity_of[id] = copy[1]
  BY <1>15 DEF Range, Injection
<1>10. \A x, y \in made : id_of[x] = id_of[y] => x = y
  BY <1>15 DEF Injection, IsInjective
<1>11. \A copy \in made : id_of[copy] \in ids
  BY <1>15 DEF Range, Injection
<1> HIDE DEF ids, entity_of
<1>12. \A copy \in made : entity_of[id_of[copy]] = copy[1]
  BY <1>9, <1>10, <1>11
\* the state
<1>13. Activates(b, ids, entity_of)
  <2>1. /\ DOMAIN active = DOMAIN block.active \cup ids
        /\ \A id \in ids : active[id] = entity_of[id]
        /\ \A id \in DOMAIN block.active \ ids : active[id] = block.active[id]
    OBVIOUS
  <2>2. /\ now.stored = NoneStored /\ now.active = active /\ now.stamp = "current"
        /\ now.modified = block.modified
    <3> HIDE DEF active, too_many
    <3> QED BY <1>1, <1>4
  <2> HIDE DEF active, now
  <2>3. /\ DOMAIN m_map' = DOMAIN m_map /\ m_map'[b] = now
        /\ \A x \in DOMAIN m_map : x # b => m_map'[x] = m_map[x]
    BY <1>1, <1>3 DEF MapType
  <2>4. /\ DOMAIN m_active_objects' = Objects \cup ids
        /\ \A id \in ids : m_active_objects'[id] = NewObject(entity_of[id], b, b)
        /\ \A id \in Objects : m_active_objects'[id] = m_active_objects[id]
    BY <1>3, <1>8
  <2> QED BY <1>8, <2>1, <2>2, <2>3, <2>4 DEF Activates
\* who is made
<1>14. ASSUME NEW e \in Entities PROVE Makes(b, ids, entity_of, e)
  <2>1. /\ \A copy \in copies : copy[1] \in Entities /\ copy[2] \in 1 .. block.stored[copy[1]]
                                /\ copy = <<copy[1], copy[2]>>
        /\ \A i \in 1 .. block.stored[e] : <<e, i>> \in copies
        /\ block.stored[e] \in Nat
    BY <1>1, CopiesStored DEF Stored
  <2>2. e \in alive' <=> e \in alive /\ \A copy \in copies \ made : copy[1] # e
    BY <1>2
  <2> HIDE DEF copies
  <2>3. CASE block.stamp = "old"
    <3>1. ids = {}
      BY <1>6, <1>9, <2>3
    <3>2. (\A copy \in copies : copy[1] # e) <=> block.stored[e] = 0
      <4>1. ASSUME block.stored[e] # 0 PROVE \E copy \in copies : copy[1] = e
        <5>1. 1 \in 1 .. block.stored[e]
          BY <2>1, <4>1
        <5>2. <<e, 1>> \in copies /\ <<e, 1>>[1] = e
          BY <2>1, <5>1
        <5> QED BY <5>2
      <4>2. ASSUME block.stored[e] = 0, NEW copy \in copies, copy[1] = e PROVE FALSE
        <5>1. copy[2] \in 1 .. 0
          BY <2>1, <4>2
        <5> QED BY <5>1
      <4> QED BY <4>1, <4>2
    <3> QED BY <1>6, <2>2, <2>3, <3>1, <3>2 DEF Makes
  <2>4. CASE block.stamp # "old"
    <3>1. made = copies
      BY <1>5, <2>4
    <3>2. e \in alive' <=> e \in alive
      BY <2>2, <3>1
    <3>3. ASSUME block.stored[e] = 0, NEW id \in ids, entity_of[id] = e PROVE FALSE
      <4>1. PICK copy \in copies : copy[1] = e
        BY <1>9, <3>1, <3>3
      <4>2. copy[2] \in 1 .. 0
        BY <2>1, <3>3, <4>1
      <4> QED BY <4>2
    <3>4. ASSUME block.stored[e] = 1 PROVE MadeOnce(ids, entity_of, e)
      <4>1. <<e, 1>> \in made /\ <<e, 1>>[1] = e
        BY <2>1, <3>1, <3>4
      <4>2. PICK id : id = id_of[<<e, 1>>]
        OBVIOUS
      <4>3. id \in ids /\ entity_of[id] = e
        BY <1>11, <1>12, <4>1, <4>2
      <4>4. ASSUME NEW i \in ids, entity_of[i] = e PROVE i = id
        <5>1. PICK copy \in made : id_of[copy] = i /\ copy[1] = e
          BY <1>9, <4>4
        <5>2. copy = <<e, copy[2]>> /\ copy[2] \in 1 .. 1
          BY <2>1, <3>1, <3>4, <5>1
        <5>3. copy[2] = 1
          BY <5>2
        <5>4. copy = <<e, 1>>
          BY <5>2, <5>3
        <5> QED BY <4>2, <5>1, <5>4
      <4> QED BY <4>3, <4>4 DEF MadeOnce
    <3> QED BY <2>4, <3>2, <3>3, <3>4 DEF Makes
  <2> QED BY <2>3, <2>4
<1> QED BY <1>13, <1>14

\* A block that is activated: its stored copies become objects with active
\* static data, or are dropped when they are from before clearObjects.
LEMMA ActivatedPlaces ==
    ASSUME CopyInv, RoomInBlocks, RoomForIds, NEW b \in added \cap DOMAIN m_map, ActivateObjects(b),
           pc # "shutdown", NEW w, w \subseteq WasActive \cup {b}
    PROVE  /\ MapCopies(m_map', dbase, alive', w, created)
           /\ ObjectCopies(m_active_objects', m_map', alive', created, FALSE)
           /\ OnePlace(m_active_objects', m_map', dbase, alive')
<1> DEFINE m2 == m_map'
           a2 == alive'
           f2 == m_active_objects'
           f == m_active_objects
<1>1. PICK ids, entity_of : /\ Activates(b, ids, entity_of)
                            /\ \A e \in Entities : Makes(b, ids, entity_of, e)
  BY Activated
<1>2. /\ MapType(m_map) /\ b \in Blocks /\ alive \subseteq Entities /\ alive \subseteq created
      /\ a2 \subseteq alive /\ EntriesOf(m_map, f) /\ \A e \in Entities : m_map[b].stored[e] \in Nat
      /\ EntriesOf(m2, f2)
  <2>1. m_map[b] \in MapBlock
    BY Types DEF CopyInv, IInv, MapType
  <2>2. EntriesOf(m_map', m_active_objects') /\ a2 \subseteq alive
    BY ActivatesObjects, StaticEntriesOfNext DEF CopyInv
  <2> QED BY <2>1, <2>2, Types, StaticEntriesOf DEF CopyInv, IInv, MapType, MapBlock, Stored, TypeOK
<1>3. /\ MapCopies(m_map, dbase, alive, WasActive, created)
      /\ ObjectCopies(f, m_map, alive, created, FALSE)
      /\ OnePlace(f, m_map, dbase, alive)
  <2>1. PICK stopping \in BOOLEAN : stopping = FALSE /\ stopping = (pc = "shutdown")
    OBVIOUS
  <2> QED BY <2>1 DEF CopyInv, AllPlaces
<1>4. /\ ids \subseteq Ids \ Objects /\ DOMAIN f2 = Objects \cup ids
      /\ \A id \in Objects : f2[id] = f[id]
      /\ \A id \in ids : f2[id] = NewObject(entity_of[id], b, b)
      /\ DOMAIN m2 = DOMAIN m_map /\ \A x \in DOMAIN m_map : x # b => m2[x] = m_map[x]
      /\ m2[b].stored = NoneStored /\ m2[b].stamp = "current" /\ m2[b].modified = m_map[b].modified
      /\ DOMAIN m2[b].active = DOMAIN m_map[b].active \cup ids
      /\ \A id \in ids : m2[b].active[id] = entity_of[id]
      /\ \A id \in DOMAIN m_map[b].active \ ids : m2[b].active[id] = m_map[b].active[id]
  BY <1>1 DEF Activates
<1>5. DOMAIN f = Objects
  BY DEF Objects
<1> HIDE DEF m2, a2, f2, f
<1>6. \A id \in ids : /\ f2[id].entity = entity_of[id] /\ ~Gone(f2[id])
                      /\ ~f2[id].pending_removal /\ ~f2[id].pending_deactivation
  BY <1>4 DEF NewObject, Gone
<1>7. \A x \in Blocks, e \in Entities :
         StoredOf(m2, dbase, x, e) = IF x = b THEN 0 ELSE StoredOf(m_map, dbase, x, e)
  BY <1>4 DEF StoredOf, NoneStored
<1>8. \A e \in Entities : StoredOf(m_map, dbase, b, e) = m_map[b].stored[e] /\ m2[b].stored[e] = 0
  BY <1>4 DEF StoredOf, NoneStored
\* what becomes of an entity that the block stored, and of one that it did not
<1>9. ASSUME NEW e \in Entities, m_map[b].stored[e] = 0
      PROVE  /\ e \in a2 <=> e \in alive
             /\ \A id \in ids : entity_of[id] # e
             /\ HasEntry(m2, b, e) <=> HasEntry(m_map, b, e)
  <2>1. (e \in a2 <=> e \in alive) /\ \A id \in ids : entity_of[id] # e
    BY <1>1, <1>9 DEF Makes, a2
  <2>2. \A id \in ids : id \notin DOMAIN m_map[b].active
    BY <1>2, <1>4, <1>5 DEF EntriesOf, Entry
  <2> QED BY <1>4, <2>1, <2>2 DEF HasEntry
<1>10. ASSUME NEW e \in Entities, m_map[b].stored[e] # 0, e \in alive
       PROVE  /\ m_map[b].stored[e] = 1 /\ \A id \in Objects : f[id].entity # e
              /\ \A x \in Blocks : x # b => StoredOf(m_map, dbase, x, e) = 0
              /\ \A x \in DOMAIN m_map : ~HasEntry(m_map, x, e)
              /\ e \in a2 <=> m_map[b].stamp # "old"
              /\ e \in a2 => MadeOnce(ids, entity_of, e)
              /\ e \notin a2 => ids = {}
  <2>1. IsStored(f, m_map, dbase, e)
    BY <1>2, <1>3, <1>8, <1>10 DEF OnePlace, IsObject
  <2>2. PICK y \in Blocks : /\ StoredOf(m_map, dbase, y, e) = 1
                            /\ \A x \in Blocks : x # y => StoredOf(m_map, dbase, x, e) = 0
    BY <2>1 DEF IsStored
  <2>3. y = b
    BY <1>2, <1>8, <1>10, <2>2
  <2>4. m_map[b].stored[e] = 1 /\ \A id \in Objects : f[id].entity # e
    BY <1>5, <1>8, <2>1, <2>2, <2>3 DEF IsStored
  <2>5. \A x \in DOMAIN m_map : ~HasEntry(m_map, x, e)
    BY <1>2, <1>5, <2>4 DEF HasEntry, EntriesOf, Entry
  <2> QED BY <1>1, <1>10, <2>2, <2>3, <2>4, <2>5 DEF Makes, a2
<1>11. ASSUME NEW e \in Entities, m_map[b].stored[e] # 0, e \notin alive
       PROVE  e \notin a2 /\ m_map[b].stamp = "old" /\ ids = {}
  <2>1. Dropped(m_map, dbase, alive, b, e)
    BY <1>2, <1>3 DEF MapCopies
  <2>2. m_map[b].stamp = "old"
    BY <1>2, <1>8, <1>11, <2>1 DEF Dropped, StampOf
  <2> QED BY <1>1, <1>2, <1>11, <2>2 DEF Makes
<1>12. ids = {} => \A e : HasEntry(m2, b, e) <=> HasEntry(m_map, b, e)
  BY <1>4 DEF HasEntry
\* the map
<1>13. ASSUME NEW x \in Blocks, NEW e \in Entities
       PROVE  /\ Dropped(m2, dbase, a2, x, e) /\ OnDiskToo(m2, dbase, a2, x, e)
              /\ Fresh(m2, dbase, a2, w, x, e) /\ Created(m2, dbase, created, x, e)
  <2>1. /\ Dropped(m_map, dbase, alive, x, e) /\ OnDiskToo(m_map, dbase, alive, x, e)
        /\ Fresh(m_map, dbase, alive, WasActive, x, e) /\ Created(m_map, dbase, created, x, e)
    BY <1>3 DEF MapCopies
  <2>2. CASE x = b
    <3>1. b \in DOMAIN m2 /\ b \in DOMAIN m_map /\ StoredOf(m2, dbase, b, e) = 0 /\ m2[b].stored[e] = 0
      BY <1>4, <1>7, <1>8, <2>2
    <3>2. OnDiskToo(m2, dbase, a2, b, e)
      <4> SUFFICES ASSUME ~m2[b].modified PROVE OnDiskToo(m2, dbase, a2, b, e)
        BY DEF OnDiskToo
      <4>1. ~m_map[b].modified /\ m2[b].stamp # "old"
        BY <1>4
      <4>2. /\ e \in alive =>
                 /\ DiskOf(dbase, b, e) = m_map[b].stored[e] + (IF HasEntry(m_map, b, e) THEN 1 ELSE 0)
                 /\ DiskOf(dbase, b, e) > 0 /\ m_map[b].stamp = "old" => dbase[b].stamp = "old"
            /\ e \notin alive /\ DiskOf(dbase, b, e) > 0 =>
                 dbase[b].stamp = "old" \/ HasEntry(m_map, b, e)
        BY <2>1, <2>2, <3>1, <4>1 DEF OnDiskToo
      <4>3. CASE m_map[b].stored[e] = 0
        <5>1. (e \in a2 <=> e \in alive) /\ (HasEntry(m2, b, e) <=> HasEntry(m_map, b, e))
          BY <1>9, <4>3
        <5> QED BY <3>1, <4>1, <4>2, <4>3, <5>1 DEF OnDiskToo
      <4>4. CASE m_map[b].stored[e] # 0 /\ e \in alive
        <5>1. /\ m_map[b].stored[e] = 1 /\ ~HasEntry(m_map, b, e)
              /\ e \in a2 <=> m_map[b].stamp # "old"
              /\ e \in a2 => MadeOnce(ids, entity_of, e)
          BY <1>10, <4>4
        <5>2. DiskOf(dbase, b, e) = 1
          BY <4>2, <4>4, <5>1
        <5>3. e \in a2 => HasEntry(m2, b, e)
          BY <1>4, <5>1 DEF MadeOnce, HasEntry
        <5>4. e \notin a2 => dbase[b].stamp = "old"
          BY <4>2, <4>4, <5>1, <5>2
        <5> QED BY <3>1, <4>1, <5>2, <5>3, <5>4 DEF OnDiskToo
      <4>5. CASE m_map[b].stored[e] # 0 /\ e \notin alive
        <5>1. e \notin a2 /\ (HasEntry(m2, b, e) <=> HasEntry(m_map, b, e))
          BY <1>11, <1>12, <4>5
        <5> QED BY <4>2, <4>5, <5>1 DEF OnDiskToo
      <4> QED BY <4>3, <4>4, <4>5
    <3> QED BY <2>1, <2>2, <3>1, <3>2 DEF Dropped, Fresh, Created
  <2>3. CASE x # b
    <3>1. /\ x \in DOMAIN m2 <=> x \in DOMAIN m_map
          /\ x \in DOMAIN m_map => m2[x] = m_map[x]
          /\ x \in w => x \in WasActive
      BY <1>4, <2>3
    <3>2. CASE e \in a2 <=> e \in alive
      BY <2>1, <3>1, <3>2 DEF Dropped, OnDiskToo, Fresh, Created, StoredOf, StampOf, HasEntry
    <3>3. CASE e \in alive /\ e \notin a2
      <4>1. /\ StoredOf(m_map, dbase, x, e) = 0
            /\ x \in DOMAIN m_map => ~HasEntry(m_map, x, e)
        BY <1>9, <1>10, <2>3, <3>3
      <4>2. x \in DOMAIN m_map => m_map[x].stored[e] = 0
        BY <4>1 DEF StoredOf
      <4>3. OnDiskToo(m2, dbase, a2, x, e)
        BY <2>1, <3>1, <3>3, <4>1, <4>2 DEF OnDiskToo
      <4>4. Dropped(m2, dbase, a2, x, e) /\ Created(m2, dbase, created, x, e)
        BY <1>7, <2>1, <2>3, <4>1 DEF Dropped, Created
      <4>5. Fresh(m2, dbase, a2, w, x, e)
        BY <2>1, <3>1, <4>2 DEF Fresh
      <4> QED BY <4>3, <4>4, <4>5
    <3> QED BY <1>2, <3>2, <3>3
  <2> QED BY <2>2, <2>3
<1>14. MapCopies(m2, dbase, a2, w, created)
  BY <1>13 DEF MapCopies
\* the objects
<1>15. ASSUME NEW id \in ids
       PROVE  entity_of[id] \in a2 /\ entity_of[id] \in Entities
  <2>1. entity_of[id] \in Entities
    <3>1. f2[id] \in ServerActiveObject
      BY <1>4, ActivatesObjects DEF CopyInv, ObjectsType, f2
    <3> QED BY <1>6, <3>1 DEF ServerActiveObject
  <2>2. m_map[b].stored[entity_of[id]] # 0
    BY <1>9, <2>1
  <2>3. entity_of[id] \in alive
    BY <1>11, <2>1, <2>2
  <2> QED BY <1>10, <2>1, <2>2, <2>3
<1>16. ObjectCopies(f2, m2, a2, created, FALSE)
  <2> SUFFICES ASSUME NEW id \in DOMAIN f2 PROVE ObjectCopy(f2[id], id, m2, a2, created, FALSE)
    BY DEF ObjectCopies
  <2>1. CASE id \in ids
    <3>1. f2[id].entity \in a2 /\ f2[id].entity \in created
      BY <1>2, <1>6, <1>15, <2>1
    <3> QED BY <1>6, <2>1, <3>1 DEF ObjectCopy
  <2>2. CASE id \notin ids
    <3>1. id \in Objects /\ f2[id] = f[id]
      BY <1>4, <2>2
    <3>2. ObjectCopy(f[id], id, m_map, alive, created, FALSE)
      BY <1>3, <1>5, <3>1 DEF ObjectCopies
    <3>3. \A x : Entry(m2, x, id) <=> Entry(m_map, x, id)
      BY <1>4, <2>2 DEF Entry
    <3>4. f[id].entity \in a2 <=> f[id].entity \in alive
      <4>1. f[id].entity \in Entities
        BY <3>1, ObjectFacts DEF f
      <4> QED BY <1>2, <1>9, <1>10, <3>1, <4>1
    <3> QED BY <3>1, <3>2, <3>3, <3>4 DEF ObjectCopy
  <2> QED BY <2>1, <2>2
<1>17. OnePlace(f2, m2, dbase, a2)
  <2> SUFFICES ASSUME NEW e \in a2 PROVE IsObject(f2, m2, dbase, e) \/ IsStored(f2, m2, dbase, e)
    BY DEF OnePlace
  <2>1. e \in alive /\ e \in Entities
    BY <1>2
  <2>2. CASE m_map[b].stored[e] = 0
    <3>1. \A x \in Blocks : StoredOf(m2, dbase, x, e) = StoredOf(m_map, dbase, x, e)
      BY <1>7, <1>8, <2>1, <2>2
    <3>2. \A id : id \in DOMAIN f2 /\ f2[id].entity = e <=> id \in DOMAIN f /\ f[id].entity = e
      BY <1>4, <1>5, <1>6, <1>9, <2>1, <2>2
    <3>3. IsObject(f, m_map, dbase, e) \/ IsStored(f, m_map, dbase, e)
      BY <1>3, <2>1 DEF OnePlace
    <3>4. CASE IsObject(f, m_map, dbase, e)
      <4>1. PICK id \in DOMAIN f : f[id].entity = e /\ \A i \in DOMAIN f : f[i].entity = e => i = id
        BY <3>4 DEF IsObject
      <4>2. id \in DOMAIN f2 /\ f2[id].entity = e /\ \A i \in DOMAIN f2 : f2[i].entity = e => i = id
        BY <3>2, <4>1
      <4> QED BY <3>1, <3>4, <4>2 DEF IsObject
    <3>5. CASE IsStored(f, m_map, dbase, e)
      BY <3>1, <3>2, <3>5 DEF IsStored
    <3> QED BY <3>3, <3>4, <3>5
  <2>3. CASE m_map[b].stored[e] # 0
    <3>1. /\ \A id \in Objects : f[id].entity # e
          /\ \A x \in Blocks : x # b => StoredOf(m_map, dbase, x, e) = 0
          /\ MadeOnce(ids, entity_of, e)
      BY <1>10, <2>1, <2>3
    <3>2. PICK id \in ids : entity_of[id] = e /\ \A i \in ids : entity_of[i] = e => i = id
      BY <3>1 DEF MadeOnce
    <3>3. id \in DOMAIN f2 /\ f2[id].entity = e /\ \A i \in DOMAIN f2 : f2[i].entity = e => i = id
      BY <1>4, <1>6, <3>1, <3>2
    <3>4. \A x \in Blocks : StoredOf(m2, dbase, x, e) = 0
      BY <1>7, <2>1, <3>1
    <3> QED BY <3>3, <3>4 DEF IsObject
  <2> QED BY <2>2, <2>3
<1> QED BY <1>14, <1>16, <1>17 DEF m2, a2, f2

LEMMA ActivatePlaces ==
    ASSUME CopyInv, RoomInBlocks, RoomForIds, NEW b \in Blocks, ActivateBlock(b)
    PROVE  AllPlaces'
<1>1. /\ pc = "activate" /\ pc' = pc /\ added' = added \ {b}
      /\ UNCHANGED <<dbase, removed, created>>
  BY DEF ActivateBlock
<1>2. Phases' /\ removed = {}
  <2>1. pc # "shutdown" /\ pc # "idle" /\ removed = {}
    BY <1>1 DEF CopyInv, AllPlaces, Phases
  <2> QED BY <1>1, <2>1 DEF Phases
<1>3. CASE b \notin DOMAIN m_map
  <2>1. m_active_blocks' = m_active_blocks \ {b} /\ UNCHANGED <<m_active_objects, m_map, alive>>
    BY <1>3 DEF ActivateBlock
  <2>2. WasActive' \subseteq WasActive
    BY <1>1, <2>1 DEF WasActive
  <2>3. MapCopies(m_map, dbase, alive, WasActive', created)
    <3>1. MapCopies(m_map, dbase, alive, WasActive, created)
      BY DEF CopyInv, AllPlaces
    <3>2. PICK w : w = WasActive'
      OBVIOUS
    <3> QED BY <2>2, <3>1, <3>2 DEF MapCopies, Fresh
  <2> QED BY <1>1, <1>2, <2>1, <2>3, AllPlacesNext DEF CopyInv, AllPlaces
<1>4. CASE b \in DOMAIN m_map
  <2>1. ActivateObjects(b) /\ UNCHANGED m_active_blocks /\ b \in added
    BY <1>4 DEF ActivateBlock
  <2>2. WasActive' \subseteq WasActive \cup {b}
    BY <1>1, <2>1 DEF WasActive
  <2>3. pc # "shutdown"
    BY <1>1
  <2>4. /\ MapCopies(m_map', dbase, alive', WasActive', created)
        /\ ObjectCopies(m_active_objects', m_map', alive', created, FALSE)
        /\ OnePlace(m_active_objects', m_map', dbase, alive')
    <3>1. PICK w : w = WasActive'
      OBVIOUS
    <3> QED BY <1>4, <2>1, <2>2, <2>3, <3>1, ActivatedPlaces
  <2>5. ObjectCopies(m_active_objects', m_map', alive', created', pc' = "shutdown")
    <3>1. PICK stopping \in BOOLEAN : stopping = FALSE /\ stopping = (pc' = "shutdown")
      BY <1>1
    <3> QED BY <1>1, <2>4, <3>1
  <2> QED BY <1>1, <1>2, <2>4, <2>5, AllPlacesNext
<1> QED BY <1>3, <1>4

-----------------------------------------------------------------------------
(* Every entity is in one place                                            *)

LEMMA NextPlaces ==
    ASSUME CopyInv, RacesApart, RoomInBlocks, RoomForIds, [Next]_vars
    PROVE  AllPlaces'
<1>1. CASE Mods
  <2>1. \A id \in Objects : setStaticSave(id) \/ markForRemoval(id) => AllPlaces'
    BY ChangePlaces, MarkPlaces
  <2>2. \A id \in Objects, b \in Blocks : setBasePosition(id, b) => AllPlaces'
    BY ChangePlaces
  <2> QED BY <1>1, <2>1, <2>2, AddPlaces, ClearPlaces, DeleteBlockPlaces DEF Mods
<1>2. CASE Update
  BY <1>2, UpdatePlaces, KeepPlaces, ResavePlaces, FarPlaces, StampPlaces, ActivatePlaces,
     FinishPlaces DEF Update
<1>3. CASE Step
  <2>1. \A c \in Clients : DeleteClient(c) => AllPlaces'
    BY ClientPlaces
  <2>2. \A c \in Clients, in_range \in SUBSET Objects :
          SendActiveObjectRemoveAdd(c, in_range) => AllPlaces'
    BY ClientPlaces
  <2> QED BY <1>3, <2>1, <2>2, GonePlaces, LoadPlaces, MakePlaces,
         UnloadPlaces, SaveMapPlaces DEF Step
<1>4. CASE Stop
  BY <1>4, StopPlaces, ForcedPlaces, RestartPlaces DEF Stop
<1>5. CASE UNCHANGED vars
  <2>1. UNCHANGED <<m_active_objects, m_map, dbase, alive, created, m_active_blocks, pc, removed, added>>
    BY <1>5 DEF vars, updateVars
  <2>2. Phases' /\ WasActive' = WasActive
    BY <2>1 DEF CopyInv, AllPlaces, Phases, WasActive
  <2> QED BY <2>1, <2>2, AlikeStep DEF AlikeObject, Objects
<1> QED BY <1>1, <1>2, <1>3, <1>4, <1>5 DEF Next

LEMMA NextCopies == CopyInv /\ RacesApart /\ RoomInBlocks /\ RoomForIds /\ [Next]_vars => CopyInv'
<1> SUFFICES ASSUME CopyInv, RacesApart, RoomInBlocks, RoomForIds, [Next]_vars PROVE CopyInv'
  OBVIOUS
<1>1. IInv'
  BY NextInvariant DEF CopyInv
<1> QED BY <1>1, NextPlaces DEF CopyInv

\* A copy of e that is stored: copy i of those block b has.
StoredCopy(copy, e) ==
    \E b \in DOMAIN m_map \cup DOMAIN dbase : \E i :
        copy = <<"stored", b, i>> /\ i \in 1 .. StoredOf(m_map, dbase, b, e)

\* Static data waits only for an object that is gone, and not removed.
LEMMA CopiesOf ==
    ASSUME CopyInv, NEW e \in Entities
    PROVE  \A copy : copy \in Copies(e) <=>
               \/ \E id \in Objects : /\ copy = <<"object", id, 0>>
                                      /\ m_active_objects[id].entity = e /\ ~Gone(m_active_objects[id])
               \/ \E b \in DOMAIN m_map, id \in Objects :
                     /\ copy = <<"waiting", b, id>> /\ Entry(m_map, b, id)
                     /\ m_active_objects[id].static_block = b /\ m_active_objects[id].entity = e
                     /\ Gone(m_active_objects[id]) /\ ~m_active_objects[id].pending_removal
               \/ StoredCopy(copy, e)
<1> DEFINE StoredIn2(b) == IF b \in DOMAIN m_map THEN m_map[b].stored ELSE dbase[b].stored
           Waits(id) == ~(id \in Objects /\ (~Gone(m_active_objects[id])
                                             \/ m_active_objects[id].pending_removal))
           Living == {<<"object", id, 0>> : id \in {i \in Objects :
                         m_active_objects[i].entity = e /\ ~Gone(m_active_objects[i])}}
           Waiting(b) == {<<"waiting", b, id>> : id \in {i \in DOMAIN m_map[b].active :
                             m_map[b].active[i] = e /\ Waits(i)}}
           InStore(b) == {<<"stored", b, i>> : i \in 1 .. StoredIn2(b)[e]}
<1>1. Copies(e) = Living \cup (UNION {Waiting(b) : b \in DOMAIN m_map})
                  \cup (UNION {InStore(b) : b \in DOMAIN m_map \cup DOMAIN dbase})
  BY DEF Copies
<1>2. \A b, id : Entry(m_map, b, id) =>
         /\ id \in Objects /\ m_active_objects[id].static_block = b
         /\ m_active_objects[id].entity = m_map[b].active[id]
  BY StaticEntriesOf DEF CopyInv, IInv, EntriesOf, Objects
<1>3. \A b \in DOMAIN m_map \cup DOMAIN dbase : StoredIn2(b)[e] = StoredOf(m_map, dbase, b, e)
  BY DEF StoredOf, DiskOf
<1>4. \A copy : copy \in Living <=>
         \E id \in Objects : /\ copy = <<"object", id, 0>>
                             /\ m_active_objects[id].entity = e /\ ~Gone(m_active_objects[id])
  OBVIOUS
<1>5. \A copy, b : b \in DOMAIN m_map =>
         (copy \in Waiting(b) <=>
            \E id \in Objects :
               /\ copy = <<"waiting", b, id>> /\ Entry(m_map, b, id)
               /\ m_active_objects[id].static_block = b /\ m_active_objects[id].entity = e
               /\ Gone(m_active_objects[id]) /\ ~m_active_objects[id].pending_removal)
  BY <1>2 DEF Entry
<1>6. \A copy, b : b \in DOMAIN m_map \cup DOMAIN dbase =>
         (copy \in InStore(b) <=>
            \E i : copy = <<"stored", b, i>> /\ i \in 1 .. StoredOf(m_map, dbase, b, e))
  BY <1>3
<1> HIDE DEF Living, Waiting, InStore
<1>7. \A copy : copy \in Copies(e) <=>
         \/ copy \in Living
         \/ \E b \in DOMAIN m_map : copy \in Waiting(b)
         \/ \E b \in DOMAIN m_map \cup DOMAIN dbase : copy \in InStore(b)
  <2> DEFINE AllWaiting == UNION {Waiting(b) : b \in DOMAIN m_map}
             AllStored == UNION {InStore(b) : b \in DOMAIN m_map \cup DOMAIN dbase}
  <2>1. \A copy : copy \in AllWaiting <=> \E b \in DOMAIN m_map : copy \in Waiting(b)
    BY Zenon
  <2>2. \A copy : copy \in AllStored
                   <=> \E b \in DOMAIN m_map \cup DOMAIN dbase : copy \in InStore(b)
    BY Zenon
  <2>3. Copies(e) = Living \cup AllWaiting \cup AllStored
    BY <1>1
  <2> HIDE DEF AllWaiting, AllStored
  <2> QED BY <2>1, <2>2, <2>3
<1> QED BY <1>4, <1>5, <1>6, <1>7 DEF StoredCopy

\* What is alive has one copy, and the copies of the dead are to be dropped.
LEMMA CopiesAreOne == CopyInv => OneCopy
<1> SUFFICES ASSUME CopyInv, NEW e \in created
             PROVE  /\ e \in alive => Cardinality(Copies(e)) = 1
                    /\ e \notin alive => \A copy \in Copies(e) :
                          /\ copy[1] = "stored"
                          /\ (IF copy[2] \in DOMAIN m_map THEN m_map[copy[2]] ELSE dbase[copy[2]]).stamp
                                = "old"
  BY DEF OneCopy
<1>1. /\ e \in Entities /\ alive \subseteq created /\ MapType(m_map) /\ DbaseType
      /\ ObjectsType(m_active_objects)
  BY Types DEF CopyInv, IInv, TypeOK
<1>2. /\ MapCopies(m_map, dbase, alive, WasActive, created)
      /\ OnePlace(m_active_objects, m_map, dbase, alive)
  BY DEF CopyInv, AllPlaces
<1>3. \A id \in Objects :
         /\ ObjectCopy(m_active_objects[id], id, m_map, alive, created, pc = "shutdown")
  BY ObjectFacts
<1>4. \A b \in Blocks : StoredOf(m_map, dbase, b, e) \in Nat
  BY <1>1 DEF StoredOf, DiskOf, MapType, DbaseType, MapBlock, StoredBlock, Stored
<1>5. \A b \in DOMAIN m_map \cup DOMAIN dbase : b \in Blocks
  BY <1>1 DEF MapType, DbaseType
<1>6. ASSUME e \in alive PROVE Cardinality(Copies(e)) = 1
  <2>1. CASE IsObject(m_active_objects, m_map, dbase, e)
    <3>1. PICK id \in Objects : /\ m_active_objects[id].entity = e
                                /\ \A i \in Objects : m_active_objects[i].entity = e => i = id
      BY <2>1 DEF IsObject, Objects
    <3>2. \A copy : ~StoredCopy(copy, e)
      BY <1>5, <2>1 DEF IsObject, StoredCopy
    <3>3. CASE ~Gone(m_active_objects[id])
      <4>1. \A copy : copy \in Copies(e) <=> copy = <<"object", id, 0>>
        BY <1>1, <3>1, <3>2, <3>3, CopiesOf
      <4>2. Copies(e) = {<<"object", id, 0>>}
        BY <4>1
      <4> QED BY <4>2, FS_Singleton
    <3>4. CASE Gone(m_active_objects[id])
      <4> DEFINE b == m_active_objects[id].static_block
      <4>1. ~m_active_objects[id].pending_removal /\ Entry(m_map, b, id)
        BY <1>3, <1>6, <3>1, <3>4 DEF ObjectCopy
      <4>2. b \in DOMAIN m_map
        BY <4>1 DEF Entry
      <4>3. \A copy : copy \in Copies(e) <=> copy = <<"waiting", b, id>>
        BY <1>1, <3>1, <3>2, <3>4, <4>1, <4>2, CopiesOf
      <4>4. Copies(e) = {<<"waiting", b, id>>}
        BY <4>3
      <4> QED BY <4>4, FS_Singleton
    <3> QED BY <3>3, <3>4
  <2>2. CASE IsStored(m_active_objects, m_map, dbase, e)
    <3>1. PICK b \in Blocks : /\ StoredOf(m_map, dbase, b, e) = 1
                              /\ \A x \in Blocks : x # b => StoredOf(m_map, dbase, x, e) = 0
      BY <2>2 DEF IsStored
    <3>2. b \in DOMAIN m_map \cup DOMAIN dbase
      BY <3>1 DEF StoredOf, DiskOf
    <3>3. \A copy : StoredCopy(copy, e) <=> copy = <<"stored", b, 1>>
      <4>1. ASSUME NEW copy, StoredCopy(copy, e) PROVE copy = <<"stored", b, 1>>
        <5>1. PICK x, i : /\ x \in DOMAIN m_map \cup DOMAIN dbase
                          /\ copy = <<"stored", x, i>> /\ i \in 1 .. StoredOf(m_map, dbase, x, e)
          BY <4>1 DEF StoredCopy
        <5>2. x = b
          BY <1>5, <3>1, <5>1
        <5>3. i = 1
          BY <3>1, <5>1, <5>2
        <5> QED BY <5>1, <5>2, <5>3
      <4>2. StoredCopy(<<"stored", b, 1>>, e)
        <5>1. 1 \in 1 .. StoredOf(m_map, dbase, b, e)
          BY <3>1
        <5> QED BY <3>2, <5>1 DEF StoredCopy
      <4> QED BY <4>1, <4>2
    <3>4. \A id \in Objects : m_active_objects[id].entity # e
      BY <2>2 DEF IsStored, Objects
    <3>5. \A copy : copy \in Copies(e) <=> copy = <<"stored", b, 1>>
      BY <1>1, <3>3, <3>4, CopiesOf
    <3>6. Copies(e) = {<<"stored", b, 1>>}
      BY <3>5
    <3> QED BY <3>6, FS_Singleton
  <2> QED BY <1>2, <1>6, <2>1, <2>2 DEF OnePlace
<1>7. ASSUME e \notin alive, NEW copy \in Copies(e)
      PROVE  /\ copy[1] = "stored"
             /\ (IF copy[2] \in DOMAIN m_map THEN m_map[copy[2]] ELSE dbase[copy[2]]).stamp = "old"
  <2>1. \A id \in Objects : m_active_objects[id].entity = e =>
           /\ Gone(m_active_objects[id])
           /\ Entry(m_map, m_active_objects[id].static_block, id) => m_active_objects[id].pending_removal
    BY <1>3, <1>7 DEF ObjectCopy
  <2>2. StoredCopy(copy, e)
    BY <1>1, <1>7, <2>1, CopiesOf
  <2>3. PICK b, i : /\ b \in DOMAIN m_map \cup DOMAIN dbase
                    /\ copy = <<"stored", b, i>> /\ i \in 1 .. StoredOf(m_map, dbase, b, e)
    BY <2>2 DEF StoredCopy
  <2>4. StoredOf(m_map, dbase, b, e) > 0 /\ b \in Blocks
    BY <1>4, <1>5, <2>3
  <2>5. StampOf(m_map, dbase, b) = "old"
    BY <1>1, <1>2, <1>7, <2>4 DEF MapCopies, Dropped
  <2>6. copy[1] = "stored" /\ copy[2] = b
    BY <2>3
  <2> QED BY <2>5, <2>6 DEF StampOf
<1> QED BY <1>6, <1>7

\* An entity that nobody has removed is in one place, as an object, as static
\* data waiting for its id or stored once in memory or on disk, and one that
\* was removed or cleared is only in blocks that drop it, however blocks are
\* generated, unloaded and activated: while the blocks have room, there are ids
\* for what is activated, and none of the four races of KnownRaces happens.
\* saveStaticToBlock fails without room; without ids activateObjects drops
\* static objects that are still on disk.
THEOREM EntitiesInOnePlace ==
    ASSUME RacesApart
    PROVE  Spec /\ []RoomInBlocks /\ []RoomForIds => []OneCopy
<1>1. Init => CopyInv
  BY InitInvariant, InitPlaces DEF CopyInv
<1>2. CopyInv /\ RoomInBlocks /\ RoomForIds /\ [Next]_vars => CopyInv'
  BY NextCopies
<1> QED BY <1>1, <1>2, CopiesAreOne, PTL DEF Spec
=============================================================================
