--------------------------- MODULE MCActiveObjects ---------------------------
(* Instances of ActiveObjects: ids and blocks are alike.                   *)
EXTENDS ActiveObjects, TLC

Nowhere == {}
Alike == Permutations(Ids) \cup Permutations(Blocks)

\* What the documentation says, and the races "generate uncleared" and
\* "unload unsaved" break; OneCopy says both.
\* lua_api.md on clear_objects: a quick one clears unloaded blocks when they
\* are next activated, so that no object acts whose entity was cleared.
ClearedStayAway ==
    \A id \in Objects : ~Gone(m_active_objects[id]) => m_active_objects[id].entity \in alive

\* lua_api.md on static_save: without it an object is simply deleted when its
\* block is unloaded; test_sao.cpp: no static data is then left of it.
DeletedLeaveNothing ==
    \A e \in created \ alive : \A copy \in Copies(e) :
        (IF copy[2] \in DOMAIN m_map THEN m_map[copy[2]] ELSE dbase[copy[2]]).stamp = "old"

\* What does not hold: clearObjects only drops what was there when it ran, ...
StaleIsOld == \A b \in DOMAIN m_map : m_map[b].stamp = "old" => Kinds(m_map[b].stored) \cap alive = {}

\* ... an object that has static data finds it in its block.
StaticExists ==
    \A id \in Objects : m_active_objects[id].static_block # None =>
        LET b == m_active_objects[id].static_block IN
        IF b \in DOMAIN m_map THEN id \in DOMAIN m_map[b].active ELSE FALSE
=============================================================================
