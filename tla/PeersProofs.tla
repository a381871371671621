---------------------------- MODULE PeersProofs -----------------------------
(***************************************************************************)
(* No peer is used after it was freed, none is freed twice and none is     *)
(* forgotten, for any number of peers, ids and addresses.                  *)
(*                                                                         *)
(* The argument: a peer is in m_peers, or with the one thread that took it *)
(* out of m_peers, or it is marked as pending deletion, in which case      *)
(* nobody can get hold of it any more.  m_usage counts those that have it, *)
(* so that exactly one step ends both: Drop when nobody has the peer, or   *)
(* else the last DecUseCount.                                              *)
(*                                                                         *)
(* Then: the server's clients follow the events to the same peers, and the *)
(* peers that the server disconnects are sent their DISCO before they go.  *)
(***************************************************************************)
EXTENDS Peers, FiniteSetTheorems, TLAPS

\* Who holds peer o.
Held(o) == {h \in Helpers : helper[h] = o}

UsesCounted == \A o \in Objects : usage[o] = Cardinality(Held(o))

\* A peer has one place at a time.
OnePlace ==
    /\ \A i, j \in Ids : m_peers[i] = m_peers[j] => m_peers[i] = None \/ i = j
    /\ \A t \in Threads : erased[t] = None \/ announced[t] = None
    /\ \A t \in Threads, id \in Ids :
        m_peers[id] # None => m_peers[id] # erased[t] /\ m_peers[id] # announced[t]
    /\ \A t, u \in Threads : t # u =>
        /\ erased[t] # None => erased[t] # erased[u] /\ erased[t] # announced[u]
        /\ announced[t] # None => announced[t] # announced[u]

InMap(o) == \E id \in Ids : m_peers[id] = o
BeingDeleted(o) == \E t \in Threads : erased[t] = o \/ announced[t] = o

DroppedLast ==
    \A o \in 1 .. created :
        o \in pending_deletion <=> ~InMap(o) /\ ~BeingDeleted(o)

FreedOnce ==
    \A o \in Objects :
        freed[o] = IF o \in pending_deletion /\ usage[o] = 0 THEN 1 ELSE 0

UseInv == UsesCounted /\ OnePlace /\ DroppedLast /\ FreedOnce

\* The ids that the threads keep between their steps are ids.
NamesPeers ==
    /\ st.pc \in {"timeouts", "sendPackets"} /\ helper["send"] # None => st.id \in Ids
    /\ rt.pc # "idle" => rt.id \in Ids

-----------------------------------------------------------------------------
(* What the steps do to peers                                              *)

GetStep == \E h \in Helpers, id \in Ids :
    /\ helper[h] = None
    /\ m_peers[id] # None /\ m_peers[id] \notin pending_deletion
    /\ helper' = [helper EXCEPT ![h] = m_peers[id]]
    /\ usage' = [usage EXCEPT ![m_peers[id]] = @ + 1]
    /\ UNCHANGED <<pending_deletion, freed, mapVars, dropVars>>

ReleaseStep == \E h \in Helpers : Release(h) /\ UNCHANGED <<mapVars, dropVars>>

EraseStep == \E t \in Threads, id \in Ids : Erase(t, id) /\ UNCHANGED useVars

CreateStep ==
    /\ created < MaxPeers /\ created' = created + 1
    /\ \E id \in Ids : m_peers[id] = None /\ m_peers' = [m_peers EXCEPT ![id] = created']
    /\ UNCHANGED <<useVars, dropVars>>

\* A lookup finds a peer or changes nothing.
LEMMA LookupKind ==
    ASSUME NEW h \in Helpers, NEW id, getPeerNoEx(h, id), UNCHANGED <<mapVars, dropVars>>
    PROVE  GetStep \/ UNCHANGED <<useVars, mapVars, dropVars>>
  BY DEF getPeerNoEx, GetStep, useVars, mapVars, dropVars

\* Each step of the send thread is one of these.
LEMMA SendKinds ==
    ASSUME SendThread, st.doomed \subseteq Ids
    PROVE  \/ GetStep \/ ReleaseStep \/ EraseStep
           \/ (\E t \in Threads : PutRemoved(t) \/ Drop(t))
           \/ UNCHANGED <<useVars, mapVars, dropVars>>
  <1>h. {"send", "send inner"} \subseteq Helpers /\ "send" \in Threads
    BY DEF Helpers, Threads
  <1>1. CASE Visit
    BY <1>1, <1>h, LookupKind DEF Visit
  <1>2. CASE \E timed_out \in BOOLEAN : CheckTimeout(timed_out)
    BY <1>2, <1>h DEF CheckTimeout, ReleaseStep
  <1>3. CASE CheckDisconnect
    BY <1>3, <1>h DEF CheckDisconnect, ReleaseStep
  <1>4. CASE EndVisits
    BY <1>4 DEF EndVisits
  <1>5. CASE RemoveDoomed
    BY <1>5, <1>h DEF RemoveDoomed, EraseStep
  <1>6. CASE EndRemovals
    BY <1>6 DEF EndRemovals
  <1>7. CASE PutRemoved("send") \/ Drop("send")
    BY <1>7, <1>h
  <1>8. CASE DisconnectPeer
    BY <1>8, <1>h, LookupKind DEF DisconnectPeer
  <1>9. CASE SetPendingDisconnect
    BY <1>9, <1>h DEF SetPendingDisconnect, ReleaseStep
  <1>10. CASE EndCommands
    BY <1>10 DEF EndCommands
  <1>11. CASE TakeOutgoing
    BY <1>11, <1>h, LookupKind DEF TakeOutgoing
  <1>12. CASE RequeueOutgoing
    BY <1>12, <1>h DEF RequeueOutgoing, ReleaseStep
  <1>13. CASE SendOutgoing
    BY <1>13, <1>h, LookupKind DEF SendOutgoing
  <1>14. CASE EndOutgoing
    BY <1>14, <1>h DEF EndOutgoing, ReleaseStep
  <1>15. CASE EndSendPackets
    BY <1>15 DEF EndSendPackets
  <1> QED
    BY <1>1, <1>2, <1>3, <1>4, <1>5, <1>6, <1>7, <1>8, <1>9, <1>10, <1>11, <1>12,
       <1>13, <1>14, <1>15 DEF SendThread

\* Each step of the receive thread, the network and the server is, too.
LEMMA ReceiveKinds ==
    ASSUME ReceiveWork, NamesPeers
    PROVE  \/ GetStep \/ ReleaseStep \/ EraseStep
           \/ (\E t \in Threads : PutRemoved(t) \/ Drop(t))
           \/ UNCHANGED <<useVars, mapVars, dropVars>>
  <1>h. {"receive", "receive inner"} \subseteq Helpers /\ "receive" \in Threads
    BY DEF Helpers, Threads
  <1>1. CASE GetPeer
    BY <1>1, <1>h, LookupKind DEF GetPeer
  <1>2. CASE Refuse
    BY <1>2, <1>h DEF Refuse, ReleaseStep
  <1>3. CASE processPacket
    BY <1>3, <1>h, LookupKind DEF processPacket
  <1>4. CASE Disco
    BY <1>4, <1>h DEF Disco, EraseStep, NamesPeers
  <1>5. CASE PutRemoved("receive") \/ Drop("receive")
    BY <1>5, <1>h
  <1>6. CASE EndProcessPacket
    BY <1>6, <1>h DEF EndProcessPacket, ReleaseStep
  <1>7. CASE EndGetFromBuffers
    BY <1>7, <1>h DEF EndGetFromBuffers, ReleaseStep
  <1>8. CASE Deliver
    BY <1>8 DEF Deliver
  <1>9. CASE EndReceive
    BY <1>9, <1>h DEF EndReceive, ReleaseStep
  <1> QED
    BY <1>1, <1>2, <1>3, <1>4, <1>5, <1>6, <1>7, <1>8, <1>9 DEF ReceiveWork

LEMMA OtherKinds ==
    ASSUME Network \/ ServerThread
    PROVE  \/ GetStep \/ ReleaseStep \/ CreateStep
           \/ UNCHANGED <<useVars, mapVars, dropVars>>
  <1>h. "main" \in Helpers
    BY DEF Helpers
  <1>1. CASE Network
    BY <1>1 DEF Network, Arrive, createPeer, Unbuffer, CreateStep, mapVars
  <1>2. CASE HandleEvent \/ Kick
    BY <1>2 DEF HandleEvent, Kick
  <1>3. CASE GetPeerAddress
    BY <1>3, <1>h, LookupKind DEF GetPeerAddress
  <1>4. CASE EndGetPeerAddress
    BY <1>4, <1>h DEF EndGetPeerAddress, ReleaseStep
  <1> QED
    BY <1>1, <1>2, <1>3, <1>4 DEF ServerThread

-----------------------------------------------------------------------------
(* The uses                                                                *)

LEMMA HelpersFinite == IsFiniteSet(Helpers)
  <1>1. IsFiniteSet({"send"} \cup {"send inner"})
    BY FS_Singleton, FS_Union
  <1>2. IsFiniteSet({"receive"} \cup {"receive inner"})
    BY FS_Singleton, FS_Union
  <1>3. IsFiniteSet(({"send"} \cup {"send inner"}) \cup ({"receive"} \cup {"receive inner"}))
    BY <1>1, <1>2, FS_Union
  <1>4. IsFiniteSet((({"send"} \cup {"send inner"}) \cup ({"receive"} \cup {"receive inner"}))
                    \cup {"main"})
    BY <1>3, FS_Singleton, FS_Union
  <1>5. Helpers = (({"send"} \cup {"send inner"}) \cup ({"receive"} \cup {"receive inner"}))
                    \cup {"main"}
    BY DEF Helpers
  <1> QED
    BY <1>4, <1>5

\* Those who hold a peer are counted by a natural number.
LEMMA HeldFinite ==
    ASSUME NEW o
    PROVE  IsFiniteSet(Held(o)) /\ Cardinality(Held(o)) \in Nat
  BY HelpersFinite, FS_Subset, FS_CardinalityType DEF Held

\* A lookup adds one holder to the peer that it finds.
LEMMA GetKeepsUses ==
    ASSUME TypeOK, UseInv, GetStep
    PROVE  UseInv'
  <1>1. PICK h \in Helpers, id \in Ids :
        /\ helper[h] = None
        /\ m_peers[id] # None /\ m_peers[id] \notin pending_deletion
        /\ helper' = [helper EXCEPT ![h] = m_peers[id]]
        /\ usage' = [usage EXCEPT ![m_peers[id]] = @ + 1]
        /\ UNCHANGED <<pending_deletion, freed, mapVars, dropVars>>
    BY DEF GetStep
  <1>2. PICK p : p = m_peers[id]
    OBVIOUS
  <1>a. /\ p \in 1 .. created /\ p \in Objects
        /\ helper \in [Helpers -> 0 .. created] /\ usage \in [Objects -> Nat]
    <2>1. /\ m_peers \in [Ids -> 0 .. created] /\ created \in 0 .. MaxPeers
          /\ helper \in [Helpers -> 0 .. created] /\ usage \in [Objects -> Nat]
      BY DEF TypeOK
    <2>2. p \in 0 .. created /\ p # 0
      BY <1>1, <1>2, <2>1 DEF None
    <2> QED
      BY <2>1, <2>2, PeersAssumption DEF Objects
  <1>b. \A g \in Helpers : helper'[g] = IF g = h THEN p ELSE helper[g]
    BY <1>1, <1>2, <1>a
  <1>3. UsesCounted'
    <2>1. Held(p)' = Held(p) \cup {h} /\ h \notin Held(p)
      BY <1>1, <1>a, <1>b DEF Held, None
    <2>2. \A o \in Objects \ {p} : Held(o)' = Held(o)
      BY <1>1, <1>a, <1>b DEF Held, None, Objects
    <2>3. Cardinality(Held(p)') = Cardinality(Held(p)) + 1
      BY <2>1, HeldFinite, FS_AddElement
    <2>4. \A o \in Objects : usage'[o] = IF o = p THEN usage[p] + 1 ELSE usage[o]
      BY <1>1, <1>2, <1>a
    <2> QED
      BY <1>a, <2>2, <2>3, <2>4 DEF UseInv, UsesCounted
  <1>4. OnePlace' /\ DroppedLast'
    BY <1>1 DEF UseInv, OnePlace, DroppedLast, InMap, BeingDeleted, mapVars, dropVars
  <1>5. FreedOnce'
    BY <1>1, <1>2, <1>a DEF UseInv, FreedOnce
  <1> QED
    BY <1>3, <1>4, <1>5 DEF UseInv

\* The end of a use frees the peer if it was the last and the peer dropped.
LEMMA ReleaseKeepsUses ==
    ASSUME TypeOK, UseInv, ReleaseStep
    PROVE  UseInv'
  <1>1. PICK h \in Helpers : Release(h) /\ UNCHANGED <<mapVars, dropVars>>
    BY DEF ReleaseStep
  <1>2. PICK p : p = helper[h]
    OBVIOUS
  <1>a. /\ p \in 1 .. created /\ p \in Objects /\ usage[p] \in Nat
        /\ helper \in [Helpers -> 0 .. created]
        /\ usage \in [Objects -> Nat] /\ freed \in [Objects -> Nat]
    BY <1>1, <1>2, PeersAssumption, SMTT(30) DEF Release, TypeOK, Objects, None
  <1>b. /\ \A g \in Helpers : helper'[g] = IF g = h THEN None ELSE helper[g]
        /\ \A o \in Objects : usage'[o] = IF o = p THEN usage[p] - 1 ELSE usage[o]
        /\ \A o \in Objects :
                freed'[o] = IF o = p /\ LastUse(p, usage[p] - 1) THEN freed[p] + 1 ELSE freed[o]
        /\ pending_deletion' = pending_deletion
    BY <1>1, <1>2, <1>a DEF Release
  <1>3. Held(p)' = Held(p) \ {h} /\ h \in Held(p)
    BY <1>2, <1>a, <1>b DEF Held, None
  <1>4. usage[p] >= 1 /\ Cardinality(Held(p)') = usage[p] - 1
    <2>1. Cardinality(Held(p)') = Cardinality(Held(p)) - 1
      BY <1>3, HeldFinite, FS_RemoveElement
    <2>2. Cardinality(Held(p)) # 0
      BY <1>3, HeldFinite, FS_EmptySet
    <2>3. Cardinality(Held(p)) = usage[p]
      BY <1>a DEF UseInv, UsesCounted
    <2> QED
      BY <1>a, <2>1, <2>2, <2>3
  <1>5. UsesCounted'
    <2>1. \A o \in Objects \ {p} : Held(o)' = Held(o)
      BY <1>2, <1>a, <1>b DEF Held, None, Objects
    <2> QED
      BY <1>b, <1>4, <2>1 DEF UseInv, UsesCounted
  <1>6. OnePlace' /\ DroppedLast'
    BY <1>1, <1>b DEF UseInv, OnePlace, DroppedLast, InMap, BeingDeleted, mapVars, dropVars
  <1>7. FreedOnce'
    BY <1>a, <1>b, <1>4 DEF UseInv, FreedOnce, LastUse
  <1> QED
    BY <1>5, <1>6, <1>7 DEF UseInv

\* deletePeer, in three steps, moves a peer from one place to the next.
LEMMA EraseKeepsUses ==
    ASSUME TypeOK, UseInv, EraseStep
    PROVE  UseInv'
  <1>1. PICK t \in Threads, id \in Ids : Erase(t, id) /\ UNCHANGED useVars
    BY DEF EraseStep
  <1>2. UsesCounted' /\ FreedOnce'
    BY <1>1 DEF UseInv, UsesCounted, FreedOnce, Held, useVars
  <1>3. OnePlace'
    BY <1>1 DEF UseInv, OnePlace, Erase, TypeOK, None
  <1>4. \A o \in 1 .. created :
        (InMap(o)' \/ BeingDeleted(o)') <=> (InMap(o) \/ BeingDeleted(o))
    <2>1. \A o \in 1 .. created : InMap(o)' <=> InMap(o) /\ o # m_peers[id]
      BY <1>1, SMTT(30) DEF UseInv, OnePlace, Erase, TypeOK, InMap, None
    <2>2. \A o \in 1 .. created : BeingDeleted(o)' <=> BeingDeleted(o) \/ o = m_peers[id]
      BY <1>1 DEF Erase, TypeOK, BeingDeleted, None
    <2> QED
      BY <2>1, <2>2 DEF InMap
  <1>5. DroppedLast'
    BY <1>1, <1>4 DEF UseInv, DroppedLast, Erase, useVars
  <1> QED
    BY <1>2, <1>3, <1>5 DEF UseInv

LEMMA PutRemovedKeepsUses ==
    ASSUME TypeOK, UseInv, NEW t \in Threads, PutRemoved(t)
    PROVE  UseInv'
  <1>1. UsesCounted' /\ FreedOnce'
    BY DEF UseInv, UsesCounted, FreedOnce, Held, PutRemoved, useVars
  <1>2. OnePlace'
    BY DEF UseInv, OnePlace, PutRemoved, TypeOK, None, mapVars
  <1>3. \A o \in 1 .. created : BeingDeleted(o)' <=> BeingDeleted(o)
    BY DEF PutRemoved, TypeOK, BeingDeleted, None, UseInv, OnePlace
  <1>4. DroppedLast'
    BY <1>3 DEF UseInv, DroppedLast, PutRemoved, useVars, mapVars, InMap
  <1> QED
    BY <1>1, <1>2, <1>4 DEF UseInv

LEMMA DropKeepsUses ==
    ASSUME TypeOK, UseInv, NEW t \in Threads, Drop(t)
    PROVE  UseInv'
  <1>0. PICK p : p = announced[t]
    OBVIOUS
  <1>1. /\ p \in 1 .. created /\ p \in Objects
        /\ pending_deletion' = pending_deletion \cup {p}
        /\ freed' = [freed EXCEPT ![p] = IF Unused(p) THEN freed[p] + 1 ELSE freed[p]]
        /\ announced' = [announced EXCEPT ![t] = None]
        /\ UNCHANGED <<mapVars, usage, helper, erased>>
    BY <1>0, PeersAssumption DEF Drop, TypeOK, Objects, None
  <1>2. p \notin pending_deletion
    BY <1>0, <1>1 DEF UseInv, DroppedLast, BeingDeleted
  <1>3. UsesCounted'
    BY <1>1 DEF UseInv, UsesCounted, Held
  <1>4. FreedOnce'
    <2>1. freed \in [Objects -> Nat] /\ usage \in [Objects -> Nat]
      BY DEF TypeOK
    <2>2. \A o \in Objects :
            freed'[o] = IF o = p /\ usage[p] = 0 THEN freed[p] + 1 ELSE freed[o]
      BY <1>1, <2>1 DEF Unused
    <2> QED
      BY <1>1, <1>2, <2>1, <2>2 DEF UseInv, FreedOnce
  <1>5. OnePlace'
    BY <1>0, <1>1 DEF UseInv, OnePlace, TypeOK, None, mapVars
  <1>6. DroppedLast'
    <2>1. \A o \in 1 .. created : BeingDeleted(o)' <=> BeingDeleted(o) /\ o # p
      <3>1. announced \in [Threads -> 0 .. created] /\ created \in Nat
        BY DEF TypeOK
      <3>2. \A u \in Threads : announced'[u] = IF u = t THEN None ELSE announced[u]
        BY <1>1, <3>1
      <3>3. \A u \in Threads : erased[u] # p /\ (announced[u] = p => u = t)
        BY <1>0, <1>1 DEF UseInv, OnePlace, None
      <3> QED
        BY <1>0, <1>1, <3>2, <3>3 DEF BeingDeleted, None
    <2>2. ~InMap(p)
      BY <1>0, <1>1 DEF InMap, UseInv, OnePlace, None
    <2> QED
      BY <1>1, <2>1, <2>2 DEF UseInv, DroppedLast, mapVars, InMap
  <1> QED
    BY <1>3, <1>4, <1>5, <1>6 DEF UseInv

\* A new peer has a number that nobody has used.
LEMMA CreateKeepsUses ==
    ASSUME TypeOK, UseInv, CreateStep
    PROVE  UseInv'
  <1>1. PICK id \in Ids : m_peers[id] = None /\ m_peers' = [m_peers EXCEPT ![id] = created']
    BY DEF CreateStep
  <1>2. created' = created + 1 /\ created \in Nat /\ UNCHANGED <<useVars, dropVars>>
    BY DEF CreateStep, TypeOK
  <1>3. UsesCounted' /\ FreedOnce'
    BY <1>2 DEF UseInv, UsesCounted, FreedOnce, Held, useVars
  <1>4. OnePlace'
    BY <1>1, <1>2, SMTT(30) DEF UseInv, OnePlace, TypeOK, None, dropVars
  <1>5. DroppedLast'
    <2>1. \A o \in 1 .. created' : InMap(o)' <=> InMap(o) \/ o = created'
      BY <1>1, <1>2 DEF TypeOK, InMap, None
    <2>2. \A o \in 1 .. created' : BeingDeleted(o)' <=> BeingDeleted(o)
      BY <1>2 DEF BeingDeleted, dropVars
    <2>3. created' \notin pending_deletion /\ created' \in 1 .. created'
      BY <1>2 DEF TypeOK
    <2> QED
      BY <1>2, <2>1, <2>2, <2>3 DEF UseInv, DroppedLast, useVars
  <1> QED
    BY <1>3, <1>4, <1>5 DEF UseInv

LEMMA UseInvInit == Init => UseInv
  <1> SUFFICES ASSUME Init PROVE UseInv
    OBVIOUS
  <1>1. \A o \in Objects : Held(o) = {}
    BY DEF Init, Held, Objects, None
  <1>2. UsesCounted
    BY <1>1, FS_EmptySet DEF Init, UsesCounted
  <1> QED
    BY <1>2 DEF Init, UseInv, OnePlace, DroppedLast, FreedOnce, Objects, None

\* Every step keeps the uses in order.
LEMMA UseInvNext == TypeOK /\ NamesPeers /\ UseInv /\ [Next]_vars => UseInv'
  <1> SUFFICES ASSUME TypeOK, NamesPeers, UseInv, [Next]_vars PROVE UseInv'
    OBVIOUS
  <1>1. CASE GetStep
    BY <1>1, GetKeepsUses
  <1>2. CASE ReleaseStep
    BY <1>2, ReleaseKeepsUses
  <1>3. CASE EraseStep
    BY <1>3, EraseKeepsUses
  <1>4. CASE CreateStep
    BY <1>4, CreateKeepsUses
  <1>5. CASE \E t \in Threads : PutRemoved(t) \/ Drop(t)
    BY <1>5, PutRemovedKeepsUses, DropKeepsUses
  <1>6. CASE UNCHANGED <<useVars, mapVars, dropVars>>
    BY <1>6 DEF UseInv, UsesCounted, Held, OnePlace, DroppedLast, InMap, BeingDeleted,
       FreedOnce, useVars, mapVars, dropVars
  <1>7. CASE UNCHANGED vars
    BY <1>6, <1>7 DEF vars
  <1>8. st.doomed \subseteq Ids
    BY DEF TypeOK
  <1> QED
    BY <1>1, <1>2, <1>3, <1>4, <1>5, <1>6, <1>7, <1>8, SendKinds, ReceiveKinds, OtherKinds
       DEF Next

\* What it is for: a peer that can be reached is not freed, and the others
\* are, once.
LEMMA UseInvImplies == TypeOK /\ UseInv => NoUseAfterFree /\ NoLeak
  <1> SUFFICES ASSUME TypeOK, UseInv PROVE NoUseAfterFree /\ NoLeak
    OBVIOUS
  <1>0. /\ created \in 0 .. MaxPeers /\ helper \in [Helpers -> 0 .. created]
        /\ pending_deletion \subseteq 1 .. created
    BY DEF TypeOK
  <1>1. \A o \in Objects : usage[o] = 0 <=> \A h \in Helpers : helper[h] # o
    <2> SUFFICES ASSUME NEW o \in Objects PROVE usage[o] = 0 <=> Held(o) = {}
      BY DEF Held
    <2> QED
      BY HeldFinite, FS_EmptySet DEF UseInv, UsesCounted
  <1>2. \A o \in Objects : o \in Reachable =>
            (\E h \in Helpers : helper[h] = o) \/ InMap(o) \/ BeingDeleted(o)
    BY DEF Reachable, InMap, BeingDeleted
  <1>3. NoUseAfterFree
    <2>1. ASSUME NEW o \in Objects PROVE freed[o] \in {0, 1}
      BY DEF UseInv, FreedOnce
    <2>2. ASSUME NEW o \in Objects, o \in Reachable, o \in pending_deletion
          PROVE  usage[o] # 0
      BY <1>0, <1>1, <1>2, <2>2 DEF UseInv, DroppedLast
    <2> QED
      BY <2>1, <2>2 DEF NoUseAfterFree, UseInv, FreedOnce
  <1>4. ASSUME NEW o \in 1 .. created, o \notin Reachable PROVE freed[o] = 1
    <2>1. o \in Objects
      BY <1>0, PeersAssumption DEF Objects
    <2>2. usage[o] = 0
      BY <1>1, <1>4, <2>1 DEF Reachable
    <2>3. ~InMap(o) /\ ~BeingDeleted(o)
      BY <1>4 DEF Reachable, InMap, BeingDeleted
    <2> QED
      BY <2>1, <2>2, <2>3 DEF UseInv, DroppedLast, FreedOnce
  <1> QED
    BY <1>3, <1>4 DEF NoLeak

-----------------------------------------------------------------------------
(* The types                                                               *)

LEMMA TypesInit == Init => TypeOK /\ NamesPeers
  <1> SUFFICES ASSUME Init PROVE TypeOK /\ NamesPeers
    OBVIOUS
  <1> USE PeersAssumption DEF Init, None
  <1>1. created \in 0 .. MaxPeers /\ kicks \in 0 .. MaxKicks
    OBVIOUS
  <1>2. /\ object \in Seq([id : Ids, address : Addresses]) /\ Len(object) = created
        /\ events \in Seq([type : {"added", "removed", "data"}, id : Ids, peer : 0 .. created])
        /\ commands \in Seq(Ids)
    OBVIOUS
  <1>3. st \in [pc : Steps, todo : SUBSET Ids, doomed : SUBSET Ids, id : Ids \cup {None}]
    BY DEF Steps
  <1>4. rt \in [pc : {"idle", "known", "check", "disco", "deliver", "return"},
                id : Ids \cup {None}, from : Addresses \cup {None}, knew : BOOLEAN,
                what : Packets]
    BY DEF Idle, Packets
  <1>5. NamesPeers
    BY DEF NamesPeers, Idle, Helpers
  <1>6. /\ m_peers \in [Ids -> 0 .. created] /\ clients \in [Ids -> 0 .. created]
        /\ helper \in [Helpers -> 0 .. created]
        /\ erased \in [Threads -> 0 .. created] /\ announced \in [Threads -> 0 .. created]
        /\ usage \in [Objects -> Nat] /\ freed \in [Objects -> Nat]
    OBVIOUS
  <1> QED
    BY <1>1, <1>2, <1>3, <1>4, <1>5, <1>6 DEF TypeOK

\* A count that is changed stays a count.
LEMMA CountType ==
    ASSUME NEW f \in [Objects -> Nat], NEW p, NEW v, p \in Objects => v \in Nat
    PROVE  [f EXCEPT ![p] = v] \in [Objects -> Nat]
  OBVIOUS

\* The parts of TypeOK that are about the use of peers.
UseTypes ==
    /\ created \in 0 .. MaxPeers
    /\ m_peers \in [Ids -> 0 .. created]
    /\ helper \in [Helpers -> 0 .. created]
    /\ erased \in [Threads -> 0 .. created] /\ announced \in [Threads -> 0 .. created]
    /\ pending_deletion \subseteq 1 .. created
    /\ usage \in [Objects -> Nat] /\ freed \in [Objects -> Nat]

LEMMA UseTypesGet == UseTypes /\ GetStep => UseTypes'
  <1> SUFFICES ASSUME UseTypes, GetStep PROVE UseTypes'
    OBVIOUS
  <1>1. PICK h \in Helpers, id \in Ids :
        /\ helper' = [helper EXCEPT ![h] = m_peers[id]]
        /\ usage' = [usage EXCEPT ![m_peers[id]] = @ + 1]
        /\ UNCHANGED <<pending_deletion, freed, mapVars, dropVars>>
    BY DEF GetStep
  <1>2. helper' \in [Helpers -> 0 .. created]
    BY <1>1 DEF UseTypes
  <1>3. usage' \in [Objects -> Nat]
    <2>1. m_peers[id] \in Objects => usage[m_peers[id]] + 1 \in Nat
      BY DEF UseTypes
    <2>2. usage' = [usage EXCEPT ![m_peers[id]] = usage[m_peers[id]] + 1]
      BY <1>1
    <2> QED
      BY <2>1, <2>2, CountType DEF UseTypes
  <1> QED
    BY <1>1, <1>2, <1>3 DEF UseTypes, mapVars, dropVars

LEMMA UseTypesNext == TypeOK /\ NamesPeers /\ UseInv /\ [Next]_vars => UseTypes'
  <1> SUFFICES ASSUME TypeOK, NamesPeers, UseInv, [Next]_vars PROVE UseTypes'
    OBVIOUS
  <1>0. UseTypes
    BY DEF TypeOK, UseTypes
  <1>1. CASE GetStep
    BY <1>0, <1>1, UseTypesGet
  <1>2. CASE ReleaseStep
    <2>1. PICK h \in Helpers : Release(h) /\ UNCHANGED <<mapVars, dropVars>>
      BY <1>2 DEF ReleaseStep
    <2>2. UsesCounted'
      BY <1>2, ReleaseKeepsUses DEF UseInv
    <2>3. \A o \in Objects : usage'[o] \in Nat
      BY <2>2, HelpersFinite, FS_Subset, FS_CardinalityType DEF UsesCounted, Held
    <2>4. usage' \in [Objects -> Nat]
      BY <1>0, <2>1, <2>3 DEF Release, UseTypes
    <2>5. helper' \in [Helpers -> 0 .. created]
      BY <1>0, <2>1 DEF Release, UseTypes, None
    <2>6. freed' \in [Objects -> Nat]
      <3>1. PICK p : p = helper[h]
        OBVIOUS
      <3>2. freed' = [freed EXCEPT ![p] = IF LastUse(p, usage[p] - 1) THEN freed[p] + 1
                                          ELSE freed[p]]
        BY <1>0, <2>1, <3>1 DEF Release, UseTypes
      <3>3. p \in Objects =>
              (IF LastUse(p, usage[p] - 1) THEN freed[p] + 1 ELSE freed[p]) \in Nat
        BY <1>0 DEF UseTypes
      <3> QED
        BY <1>0, <3>2, <3>3, CountType DEF UseTypes
    <2> QED
      BY <1>0, <2>1, <2>4, <2>5, <2>6 DEF UseTypes, Release, mapVars, dropVars
  <1>3. CASE EraseStep
    BY <1>0, <1>3 DEF EraseStep, Erase, UseTypes, useVars, None
  <1>4. CASE CreateStep
    BY <1>0, <1>4, PeersAssumption DEF CreateStep, UseTypes, useVars, dropVars
  <1>5. CASE \E t \in Threads : PutRemoved(t)
    BY <1>0, <1>5 DEF PutRemoved, UseTypes, useVars, mapVars, None
  <1>6. CASE \E t \in Threads : Drop(t)
    <2>1. PICK t \in Threads : Drop(t)
      BY <1>6
    <2>2. PICK p : p = announced[t]
      OBVIOUS
    <2>3. /\ p # None /\ pending_deletion' = pending_deletion \cup {p}
          /\ freed' = [freed EXCEPT ![p] = IF Unused(p) THEN freed[p] + 1 ELSE freed[p]]
          /\ announced' = [announced EXCEPT ![t] = None]
          /\ UNCHANGED <<mapVars, usage, helper, erased>>
      BY <2>1, <2>2 DEF Drop
    <2>4. freed' \in [Objects -> Nat]
      <3>1. p \in Objects => (IF Unused(p) THEN freed[p] + 1 ELSE freed[p]) \in Nat
        BY <1>0 DEF UseTypes
      <3> QED
        BY <1>0, <2>3, <3>1, CountType DEF UseTypes
    <2>5. p \in 1 .. created
      BY <1>0, <2>2, <2>3 DEF UseTypes, None
    <2>6. announced' \in [Threads -> 0 .. created]
      BY <1>0, <2>3 DEF UseTypes, None
    <2> QED
      BY <1>0, <2>3, <2>4, <2>5, <2>6 DEF UseTypes, mapVars
  <1>7. CASE UNCHANGED <<useVars, mapVars, dropVars>>
    BY <1>0, <1>7 DEF UseTypes, useVars, mapVars, dropVars
  <1>8. CASE UNCHANGED vars
    BY <1>7, <1>8 DEF vars
  <1>9. st.doomed \subseteq Ids
    BY DEF TypeOK
  <1> QED
    BY <1>1, <1>2, <1>3, <1>4, <1>5, <1>6, <1>7, <1>8, <1>9, SendKinds, ReceiveKinds,
       OtherKinds DEF Next

LEMMA SeqElement ==
    ASSUME NEW S, NEW s \in Seq(S)
    PROVE  /\ \A i \in 1 .. Len(s) : s[i] \in S
           /\ s # << >> => Head(s) \in S
  OBVIOUS

LEMMA SeqWider ==
    ASSUME NEW S, NEW T, S \subseteq T, NEW s \in Seq(S)
    PROVE  s \in Seq(T)
  <1>1. /\ s = [i \in 1 .. Len(s) |-> s[i]] /\ Len(s) \in Nat
        /\ \A i \in 1 .. Len(s) : s[i] \in T
    BY SeqElement
  <1> QED
    BY <1>1

EventTypes(n) == [type : {"added", "removed", "data"}, id : Ids, peer : 0 .. n]

\* The rest of TypeOK: what the threads and the server keep.
RestTypes ==
    /\ kicks \in 0 .. MaxKicks /\ clients \in [Ids -> 0 .. created]
    /\ object \in Seq([id : Ids, address : Addresses]) /\ Len(object) = created
    /\ half_open \cup pending_disconnect \cup told \subseteq 1 .. created
    /\ events \in Seq(EventTypes(created))
    /\ commands \in Seq(Ids) /\ m_outgoing_queue \subseteq Ids

StTypes ==
    /\ st \in [pc : Steps, todo : SUBSET Ids, doomed : SUBSET Ids, id : Ids \cup {None}]
    /\ st.pc \in {"timeouts", "sendPackets"} /\ helper["send"] # None => st.id \in Ids

RtTypes ==
    /\ rt \in [pc : {"idle", "known", "check", "disco", "deliver", "return"},
               id : Ids \cup {None}, from : Addresses \cup {None}, knew : BOOLEAN,
               what : Packets]
    /\ rt.pc # "idle" => rt.id \in Ids

LEMMA TypesSplit == TypeOK /\ NamesPeers <=> UseTypes /\ RestTypes /\ StTypes /\ RtTypes
  BY DEF TypeOK, NamesPeers, UseTypes, RestTypes, StTypes, RtTypes, EventTypes

\* A helper that was released or was not looked up with holds nobody anew.
LEMMA HelperOfSend ==
    ASSUME TypeOK, [Next]_vars, ~SendThread
    PROVE  helper'["send"] = helper["send"] /\ st' = st
  <1>1. CASE ReceiveWork
    BY <1>1 DEF ReceiveWork, GetPeer, Refuse, processPacket, Disco, PutRemoved, Drop,
       EndProcessPacket, EndGetFromBuffers, Deliver, EndReceive, Release, getPeerNoEx,
       TypeOK, Helpers, useVars, sendVars
  <1>2. CASE Network
    BY <1>2 DEF Network, Arrive, createPeer, Unbuffer, useVars, sendVars
  <1>3. CASE ServerThread
    BY <1>3 DEF ServerThread, HandleEvent, GetPeerAddress, EndGetPeerAddress, Kick,
       Release, getPeerNoEx, TypeOK, Helpers, useVars, sendVars
  <1>4. CASE UNCHANGED vars
    BY <1>4 DEF vars, useVars, sendVars
  <1> QED
    BY <1>1, <1>2, <1>3, <1>4 DEF Next

LEMMA StTypesNext == TypeOK /\ NamesPeers /\ [Next]_vars => StTypes'
  <1> SUFFICES ASSUME TypeOK, NamesPeers, [Next]_vars PROVE StTypes'
    OBVIOUS
  <1>0. /\ StTypes /\ m_outgoing_queue \subseteq Ids
        /\ st = [pc |-> st.pc, todo |-> st.todo, doomed |-> st.doomed, id |-> st.id]
        /\ helper \in [Helpers -> 0 .. created] /\ "send" \in Helpers
    BY DEF TypeOK, NamesPeers, StTypes, Helpers
  <1>1. CASE Visit
    BY <1>0, <1>1, ZenonT(30) DEF Visit, StTypes, getPeerNoEx, SendFree, None
  <1>2. CASE \E timed_out \in BOOLEAN : CheckTimeout(timed_out)
    <2>1. PICK timed_out \in BOOLEAN : CheckTimeout(timed_out)
      BY <1>2
    <2>2. st.id \in Ids /\ helper'["send"] = None
      BY <1>0, <2>1 DEF CheckTimeout, StTypes, Release
    <2>3. PICK doomed \in SUBSET Ids : st' = [[st EXCEPT !.doomed = doomed] EXCEPT !.id = None]
      <3>1. (IF timed_out THEN st.doomed \cup {st.id} ELSE st.doomed) \in SUBSET Ids
        BY <1>0, <2>2 DEF StTypes
      <3> QED
        BY <2>1, <3>1 DEF CheckTimeout
    <2> QED
      BY <1>0, <2>2, <2>3 DEF StTypes
  <1>3. CASE CheckDisconnect
    BY <1>0, <1>3 DEF CheckDisconnect, StTypes, Release, None
  <1>4. CASE EndVisits
    BY <1>0, <1>4 DEF EndVisits, Goes, StTypes, Steps, SendFree
  <1>5. CASE RemoveDoomed
    BY <1>0, <1>5 DEF RemoveDoomed, StTypes, Erase
  <1>6. CASE EndRemovals
    BY <1>0, <1>6 DEF EndRemovals, Goes, StTypes, Steps, SendFree, Known, useVars
  <1>7. CASE PutRemoved("send") \/ Drop("send")
    BY <1>0, <1>7 DEF PutRemoved, Drop, StTypes, useVars, sendVars
  <1>8. CASE DisconnectPeer \/ SetPendingDisconnect
    BY <1>0, <1>8 DEF DisconnectPeer, SetPendingDisconnect, StTypes
  <1>9. CASE EndCommands
    BY <1>0, <1>9 DEF EndCommands, Goes, StTypes, Steps, SendFree, Known, useVars
  <1>10. CASE TakeOutgoing
    BY <1>0, <1>10, ZenonT(30) DEF TakeOutgoing, StTypes
  <1>11. CASE RequeueOutgoing
    BY <1>0, <1>11 DEF RequeueOutgoing, StTypes, StillPending
  <1>12. CASE SendOutgoing
    BY <1>0, <1>12 DEF SendOutgoing, StTypes
  <1>13. CASE EndOutgoing
    BY <1>0, <1>13 DEF EndOutgoing, StTypes, sendVars
  <1>14. CASE EndSendPackets
    BY <1>0, <1>14 DEF EndSendPackets, Goes, StTypes, Steps
  <1>15. CASE ~SendThread
    BY <1>0, <1>15, HelperOfSend DEF StTypes
  <1> QED
    BY <1>1, <1>2, <1>3, <1>4, <1>5, <1>6, <1>7, <1>8, <1>9, <1>10, <1>11, <1>12,
       <1>13, <1>14, <1>15 DEF SendThread

LEMMA IdleType ==
    Idle \in [pc : {"idle", "known", "check", "disco", "deliver", "return"},
              id : Ids \cup {None}, from : Addresses \cup {None}, knew : BOOLEAN,
              what : Packets]
  BY DEF Idle, Packets

LEMMA RtTypesNext == TypeOK /\ NamesPeers /\ [Next]_vars => RtTypes'
  <1> SUFFICES ASSUME TypeOK, NamesPeers, [Next]_vars PROVE RtTypes'
    OBVIOUS
  <1>0. RtTypes
    BY DEF TypeOK, NamesPeers, RtTypes
  <1>o. \A o \in 1 .. created : object[o] \in [id : Ids, address : Addresses]
    BY SeqElement DEF TypeOK
  <1>1. CASE GetPeer \/ processPacket \/ Disco \/ Deliver
    <2>1. PICK pc \in {"check", "disco", "deliver", "return"} :
            rt' = Idle \/ (rt.pc # "idle" /\ rt' = [rt EXCEPT !.pc = pc])
      BY <1>1 DEF GetPeer, processPacket, Disco, Deliver
    <2> QED
      BY <1>0, <2>1, IdleType DEF RtTypes, Idle
  <1>2. CASE Refuse \/ EndReceive
    BY <1>2, IdleType DEF Refuse, EndReceive, RtTypes, Idle
  <1>3. CASE PutRemoved("receive") \/ Drop("receive") \/ EndProcessPacket \/ EndGetFromBuffers
    BY <1>0, <1>3 DEF PutRemoved, Drop, EndProcessPacket, EndGetFromBuffers, RtTypes
  <1>4. CASE \E address \in Addresses, what \in {"data", "DISCO"} : Arrive(address, what)
    <2>1. PICK address \in Addresses, what \in {"data", "DISCO"} : Arrive(address, what)
      BY <1>4
    <2>2. PICK id \in Ids, knew \in BOOLEAN :
            rt' = [pc |-> "known", id |-> id, from |-> address, knew |-> knew, what |-> what]
      BY <1>o, <2>1 DEF Arrive, At, Looked
    <2> QED
      BY <2>2 DEF RtTypes, Packets
  <1>5. CASE \E address \in Addresses : createPeer(address)
    BY <1>5 DEF createPeer, RtTypes, Packets
  <1>6. CASE Unbuffer
    <2>1. PICK id \in Known : rt' = [pc |-> "known", id |-> id,
                from |-> object[m_peers[id]].address, knew |-> TRUE, what |-> "buffered"]
      BY <1>6 DEF Unbuffer
    <2>2. id \in Ids /\ m_peers[id] \in 1 .. created
      BY DEF Known, TypeOK, None
    <2>3. object[m_peers[id]].address \in Addresses
      BY <1>o, <2>2
    <2> QED
      BY <2>1, <2>2, <2>3 DEF RtTypes, Packets
  <1>7. CASE SendThread \/ ServerThread \/ UNCHANGED vars
    <2>1. rt' = rt
      BY <1>7 DEF SendThread, ServerThread, vars, Visit, CheckTimeout, CheckDisconnect,
         EndVisits, RemoveDoomed, EndRemovals, PutRemoved, Drop, DisconnectPeer,
         SetPendingDisconnect, EndCommands, TakeOutgoing, RequeueOutgoing, SendOutgoing,
         EndOutgoing, EndSendPackets, HandleEvent, GetPeerAddress, EndGetPeerAddress, Kick
    <2> QED
      BY <1>0, <2>1 DEF RtTypes
  <1> QED
    BY <1>1, <1>2, <1>3, <1>4, <1>5, <1>6, <1>7 DEF Next, Network, ReceiveWork

\* Most steps leave alone all that RestTypes is about.
restVars == <<kicks, clients, created, object, half_open, pending_disconnect, told,
              events, commands, m_outgoing_queue>>

LEMMA RestTypesSend == TypeOK /\ NamesPeers /\ SendThread => RestTypes'
  <1> SUFFICES ASSUME TypeOK, NamesPeers, SendThread PROVE RestTypes'
    OBVIOUS
  <1>0. RestTypes /\ StTypes /\ UseTypes
    BY TypesSplit
  <1>1. CASE Visit \/ (\E timed_out \in BOOLEAN : CheckTimeout(timed_out)) \/ CheckDisconnect
             \/ EndVisits \/ RemoveDoomed \/ EndRemovals \/ Drop("send") \/ EndCommands
             \/ EndOutgoing \/ EndSendPackets
    <2>1. UNCHANGED restVars
      BY <1>1 DEF Visit, CheckTimeout, CheckDisconnect, EndVisits, RemoveDoomed, Erase,
         EndRemovals, Drop, EndCommands, EndOutgoing, EndSendPackets, restVars, mapVars,
         serverVars, sendVars
    <2> QED
      BY <1>0, <2>1 DEF RestTypes, restVars
  <1>2. CASE PutRemoved("send")
    <2>1. /\ erased["send"] \in 1 .. created
          /\ events' = Append(events, [type |-> "removed", id |-> object[erased["send"]].id,
                                       peer |-> erased["send"]])
          /\ UNCHANGED <<mapVars, half_open, commands, sendVars, serverVars>>
      BY <1>0, <1>2 DEF PutRemoved, UseTypes, Threads, None
    <2>2. object[erased["send"]] \in [id : Ids, address : Addresses]
      BY <1>0, <2>1, SeqElement DEF RestTypes
    <2>3. [type |-> "removed", id |-> object[erased["send"]].id, peer |-> erased["send"]]
            \in EventTypes(created)
      BY <2>1, <2>2 DEF EventTypes
    <2>4. events' \in Seq(EventTypes(created))
      BY <1>0, <2>1, <2>3 DEF RestTypes
    <2> QED
      BY <1>0, <2>1, <2>4 DEF RestTypes, mapVars, sendVars, serverVars
  <1>3. CASE DisconnectPeer
    BY <1>0, <1>3 DEF DisconnectPeer, RestTypes, mapVars, serverVars
  <1>4. CASE SetPendingDisconnect
    <2>1. helper["send"] \in 1 .. created
      <3>1. helper \in [Helpers -> 0 .. created] /\ "send" \in Helpers /\ created \in Nat
        <4>1. helper \in [Helpers -> 0 .. created] /\ created \in 0 .. MaxPeers
          BY <1>0 DEF UseTypes
        <4>2. "send" \in Helpers
          BY DEF Helpers
        <4>3. created \in Nat
          BY <4>1, PeersAssumption
        <4> QED
          BY <4>1, <4>2, <4>3
      <3>2. helper["send"] # 0
        BY <1>4 DEF SetPendingDisconnect, Release, None
      <3> QED
        BY <3>1, <3>2
    <2> QED
      BY <1>0, <1>4, <2>1 DEF SetPendingDisconnect, RestTypes, mapVars, serverVars
  <1>5. CASE TakeOutgoing
    BY <1>0, <1>5 DEF TakeOutgoing, RestTypes, mapVars, serverVars
  <1>6. CASE RequeueOutgoing
    BY <1>0, <1>6 DEF RequeueOutgoing, RestTypes, StTypes, mapVars, serverVars
  <1>7. CASE SendOutgoing
    <2>1. /\ getPeerNoEx("send inner", st.id) /\ "send inner" \in Helpers
          /\ UNCHANGED <<mapVars, dropVars>>
      BY <1>7 DEF SendOutgoing, Helpers
    <2>2. GetStep \/ UNCHANGED <<useVars, mapVars, dropVars>>
      BY <2>1, LookupKind
    <2>3. helper' \in [Helpers -> 0 .. created] /\ created' = created /\ created \in Nat
      <3>1. helper' = helper \/ helper' \in [Helpers -> 0 .. created']
        BY <1>0, <2>2, UseTypesGet DEF UseTypes, useVars
      <3>2. created' = created /\ created \in 0 .. MaxPeers
        BY <1>0, <2>1 DEF UseTypes, mapVars
      <3> QED
        BY <1>0, <3>1, <3>2, PeersAssumption DEF UseTypes
    <2>4. PICK q : q = helper'["send inner"]
      OBVIOUS
    <2>5. told' \subseteq 1 .. created
      <3>1. q \in 0 .. created
        BY <2>1, <2>3, <2>4
      <3>2. told \subseteq 1 .. created /\ told' = told \cup ({q} \ {0})
        BY <1>0, <1>7, <2>4 DEF SendOutgoing, RestTypes, None
      <3> QED
        BY <2>3, <3>1, <3>2
    <2> QED
      BY <1>0, <1>7, <2>5 DEF SendOutgoing, RestTypes, mapVars, serverVars
  <1> QED
    BY <1>1, <1>2, <1>3, <1>4, <1>5, <1>6, <1>7 DEF SendThread

LEMMA RestTypesOther ==
    TypeOK /\ NamesPeers /\ (ReceiveWork \/ Network \/ ServerThread) => RestTypes'
  <1> SUFFICES ASSUME TypeOK, NamesPeers, ReceiveWork \/ Network \/ ServerThread
               PROVE  RestTypes'
    OBVIOUS
  <1>0. RestTypes /\ UseTypes /\ RtTypes
    BY TypesSplit
  <1>1. CASE GetPeer \/ Refuse \/ Disco \/ Drop("receive") \/ EndProcessPacket
             \/ EndGetFromBuffers \/ EndReceive \/ Unbuffer \/ GetPeerAddress
             \/ EndGetPeerAddress
             \/ \E address \in Addresses, what \in {"data", "DISCO"} : Arrive(address, what)
    <2>1. UNCHANGED restVars
      BY <1>1 DEF GetPeer, Refuse, Disco, Erase, Drop, EndProcessPacket, EndGetFromBuffers,
         EndReceive, Unbuffer, GetPeerAddress, EndGetPeerAddress, Arrive, restVars, mapVars,
         serverVars, sendVars
    <2> QED
      BY <1>0, <2>1 DEF RestTypes, restVars
  <1>2. CASE PutRemoved("receive")
    <2>1. /\ erased["receive"] \in 1 .. created
          /\ events' = Append(events, [type |-> "removed", id |-> object[erased["receive"]].id,
                                       peer |-> erased["receive"]])
          /\ UNCHANGED <<mapVars, half_open, commands, sendVars, serverVars>>
      BY <1>0, <1>2 DEF PutRemoved, UseTypes, Threads, None
    <2>2. object[erased["receive"]] \in [id : Ids, address : Addresses]
      BY <1>0, <2>1, SeqElement DEF RestTypes
    <2>3. [type |-> "removed", id |-> object[erased["receive"]].id, peer |-> erased["receive"]]
            \in EventTypes(created)
      BY <2>1, <2>2 DEF EventTypes
    <2>4. events' \in Seq(EventTypes(created))
      BY <1>0, <2>1, <2>3 DEF RestTypes
    <2> QED
      BY <1>0, <2>1, <2>4 DEF RestTypes, mapVars, sendVars, serverVars
  <1>3. CASE processPacket
    BY <1>0, <1>3 DEF processPacket, RestTypes, mapVars, sendVars, serverVars
  <1>4. CASE Deliver
    <2>1. [type |-> "data", id |-> rt.id, peer |-> None] \in EventTypes(created)
      <3>1. rt.id \in Ids
        BY <1>0, <1>4 DEF Deliver, RtTypes
      <3>2. created \in Nat
        BY <1>0, PeersAssumption DEF UseTypes
      <3> QED
        BY <3>1, <3>2 DEF EventTypes, None
    <2>2. events' \in Seq(EventTypes(created))
      <3>1. events' = Append(events, [type |-> "data", id |-> rt.id, peer |-> None])
        BY <1>4 DEF Deliver
      <3> QED
        BY <1>0, <2>1, <3>1 DEF RestTypes
    <2> QED
      BY <1>0, <1>4, <2>2 DEF Deliver, RestTypes, mapVars, sendVars, serverVars
  <1>5. CASE HandleEvent
    <2>1. /\ events # << >> /\ events' = Tail(events)
          /\ UNCHANGED <<mapVars, half_open, commands, sendVars, kicks>>
      BY <1>5 DEF HandleEvent
    <2>2. Head(events) \in EventTypes(created)
      BY <1>0, <2>1, SeqElement DEF RestTypes
    <2>3. Head(events).peer \in 0 .. created /\ created \in Nat
      BY <1>0, <2>2 DEF EventTypes, UseTypes
    <2>4. clients' \in {clients, [clients EXCEPT ![Head(events).id] = Head(events).peer],
                        [clients EXCEPT ![Head(events).id] = None]}
      BY <1>5 DEF HandleEvent, CreateClient, DeleteClient
    <2>5. clients' \in [Ids -> 0 .. created]
      BY <1>0, <2>3, <2>4 DEF RestTypes, None
    <2> QED
      BY <1>0, <2>1, <2>5 DEF RestTypes, mapVars, sendVars
  <1>6. CASE Kick
    BY <1>0, <1>6, PeersAssumption DEF Kick, RestTypes, mapVars, sendVars
  <1>7. CASE \E address \in Addresses : createPeer(address)
    <2>1. PICK address \in Addresses, id \in Ids :
            /\ created' = created + 1
            /\ object' = Append(object, [id |-> id, address |-> address])
            /\ half_open' = half_open \cup {created'}
            /\ events' = Append(events, [type |-> "added", id |-> id, peer |-> created'])
            /\ UNCHANGED <<commands, sendVars, serverVars>>
      BY <1>7 DEF createPeer
    <2>2. created \in Nat
      BY <1>0 DEF UseTypes
    <2>3. events' \in Seq(EventTypes(created'))
      <3>1. EventTypes(created) \subseteq EventTypes(created')
        BY <2>1, <2>2 DEF EventTypes
      <3>2. events \in Seq(EventTypes(created'))
        BY <1>0, <3>1, SeqWider DEF RestTypes
      <3>3. [type |-> "added", id |-> id, peer |-> created'] \in EventTypes(created')
        BY <2>1, <2>2 DEF EventTypes
      <3> QED
        BY <2>1, <3>2, <3>3
    <2>4. object' \in Seq([id : Ids, address : Addresses]) /\ Len(object') = created'
      BY <1>0, <2>1, <2>2 DEF RestTypes
    <2> QED
      BY <1>0, <2>1, <2>2, <2>3, <2>4 DEF RestTypes, sendVars, serverVars
  <1> QED
    BY <1>1, <1>2, <1>3, <1>4, <1>5, <1>6, <1>7 DEF ReceiveWork, Network, ServerThread

-----------------------------------------------------------------------------
(* The theorems                                                            *)

LEMMA AllInvariant == Spec => [](TypeOK /\ NamesPeers /\ UseInv)
  <1>1. Init => TypeOK /\ NamesPeers /\ UseInv
    BY TypesInit, UseInvInit
  <1>2. TypeOK /\ NamesPeers /\ UseInv /\ [Next]_vars => (TypeOK /\ NamesPeers /\ UseInv)'
    <2> SUFFICES ASSUME TypeOK, NamesPeers, UseInv, [Next]_vars
                 PROVE  TypeOK' /\ NamesPeers' /\ UseInv'
      OBVIOUS
    <2>1. RestTypes'
      <3>1. CASE UNCHANGED vars
        <4>1. UNCHANGED restVars
          BY <3>1 DEF vars, restVars, mapVars, sendVars, serverVars
        <4> QED
          BY <4>1, TypesSplit DEF RestTypes, restVars
      <3> QED
        BY <3>1, RestTypesSend, RestTypesOther DEF Next
    <2>2. UseTypes' /\ StTypes' /\ RtTypes' /\ UseInv'
      BY UseTypesNext, StTypesNext, RtTypesNext, UseInvNext
    <2>3. UseTypes' /\ RestTypes' /\ StTypes' /\ RtTypes' => TypeOK' /\ NamesPeers'
      BY DEF TypeOK, NamesPeers, UseTypes, RestTypes, StTypes, RtTypes, EventTypes
    <2> QED
      BY <2>1, <2>2, <2>3
  <1> QED
    BY <1>1, <1>2, PTL DEF Spec

\* The state of the connection stays within its types.
THEOREM PeersTypeCorrect == Spec => []TypeOK
  BY AllInvariant, PTL

\* However the send thread, the receive thread and the server thread look
\* peers up, use them and delete them (PeerHelper, deletePeer, Drop): no peer
\* that can be reached has been freed, and none is freed twice.
THEOREM NeverUsedAfterFree == Spec => []NoUseAfterFree
  BY AllInvariant, UseInvImplies, PTL

\* A peer that nobody can reach has been freed.
THEOREM NeverLeaked == Spec => []NoLeak
  BY AllInvariant, UseInvImplies, PTL
-----------------------------------------------------------------------------
(* What the server learns from the events                                  *)

Adds(i, id) == i \in DOMAIN events /\ events[i].type = "added" /\ events[i].id = id
Removes(i, id) == i \in DOMAIN events /\ events[i].type = "removed" /\ events[i].id = id
Removing(id) == \E i \in DOMAIN events : Removes(i, id)

\* The server has a client for object o, or will have it when it comes to the
\* event.
Registered(id, o) ==
    clients[id] = o \/ \E i \in DOMAIN events : Adds(i, id) /\ events[i].peer = o

\* The connection has object o and has not told the server that it is gone.
Present(id, o) ==
    m_peers[id] = o \/ \E t \in Threads : erased[t] = o /\ object[o].id = id

\* Of each id one peer is added and then removed, to a server that has none.
EventOrder ==
    \A id \in Ids : \A i, j \in DOMAIN events :
        /\ (Adds(i, id) /\ Adds(j, id) => i = j)
        /\ (Removes(i, id) /\ Removes(j, id) => i = j)
        /\ (Adds(i, id) /\ Removes(j, id) => i < j)
        /\ (Adds(i, id) => clients[id] = None)

ObjectsNamed == \A id \in Ids : m_peers[id] # None => object[m_peers[id]].id = id

Agreement ==
    \A id \in Ids, o \in 1 .. created :
        /\ (Present(id, o) => Registered(id, o) /\ ~Removing(id))
        /\ (Registered(id, o) => Present(id, o) \/ Removing(id))

EventInv == EventOrder /\ ObjectsNamed /\ Agreement

\* All that is shown of the peers.
PeersInv == TypeOK /\ NamesPeers /\ UseInv

LEMMA PeersTyped ==
    ASSUME TypeOK
    PROVE  /\ created \in Nat /\ m_peers \in [Ids -> 0 .. created]
           /\ erased \in [Threads -> 0 .. created] /\ announced \in [Threads -> 0 .. created]
           /\ helper \in [Helpers -> 0 .. created]
           /\ clients \in [Ids -> 0 .. created] /\ Len(events) \in Nat
           /\ events \in Seq(EventTypes(created)) /\ DOMAIN events = 1 .. Len(events)
           /\ object \in Seq([id : Ids, address : Addresses]) /\ Len(object) = created
           /\ \A o \in 1 .. created : object[o].id \in Ids
  <1>1. \A o \in 1 .. Len(object) : object[o] \in [id : Ids, address : Addresses]
    BY SeqElement DEF TypeOK
  <1> QED BY <1>1, PeersAssumption DEF TypeOK, EventTypes

\* An event at the end of the queue.
LEMMA AppendEvent ==
    ASSUME TypeOK, NEW e, events' = Append(events, e), NEW n, n = Len(events) + 1
    PROVE  /\ DOMAIN events' = DOMAIN events \cup {n} /\ n \notin DOMAIN events
           /\ \A i \in DOMAIN events : i < n /\ events'[i] = events[i]
           /\ events'[n] = e
           /\ \A i \in DOMAIN events : \A id : /\ (Adds(i, id)' <=> Adds(i, id))
                                               /\ (Removes(i, id)' <=> Removes(i, id))
           /\ \A id : /\ (Adds(n, id)' <=> e.type = "added" /\ e.id = id)
                      /\ (Removes(n, id)' <=> e.type = "removed" /\ e.id = id)
  <1>1. events \in Seq(EventTypes(created)) /\ DOMAIN events = 1 .. Len(events) /\ Len(events) \in Nat
    BY PeersTyped
  <1>2. /\ DOMAIN events' = 1 .. n
        /\ \A i \in 1 .. Len(events) : events'[i] = events[i]
        /\ events'[n] = e
    BY <1>1
  <1>3. DOMAIN events' = DOMAIN events \cup {n} /\ n \notin DOMAIN events
    BY <1>1, <1>2
  <1>4. \A i \in DOMAIN events : i < n
    BY <1>1
  <1>5. \A i \in DOMAIN events : events'[i] = events[i] /\ i \in DOMAIN events'
    BY <1>1, <1>2, <1>3
  <1>6. \A i \in DOMAIN events : \A id : /\ (Adds(i, id)' <=> Adds(i, id))
                                         /\ (Removes(i, id)' <=> Removes(i, id))
    BY <1>5 DEF Adds, Removes
  <1>7. \A id : /\ (Adds(n, id)' <=> e.type = "added" /\ e.id = id)
                /\ (Removes(n, id)' <=> e.type = "removed" /\ e.id = id)
    BY <1>2, <1>3 DEF Adds, Removes
  <1> QED BY <1>2, <1>3, <1>4, <1>5, <1>6, <1>7

\* The event at the head of the queue is taken.
LEMMA TailEvents ==
    ASSUME TypeOK, events # << >>, events' = Tail(events)
    PROVE  /\ 1 \in DOMAIN events /\ events[1] = Head(events)
           /\ \A i \in DOMAIN events' : /\ i + 1 \in DOMAIN events /\ events'[i] = events[i + 1]
                                        /\ i \in Nat \ {0}
           /\ \A i \in DOMAIN events \ {1} : /\ i - 1 \in DOMAIN events' /\ events'[i - 1] = events[i]
                                             /\ i \in Nat
           /\ \A i \in DOMAIN events' : \A id : /\ (Adds(i, id)' <=> Adds(i + 1, id))
                                                /\ (Removes(i, id)' <=> Removes(i + 1, id))
           /\ \A i \in DOMAIN events \ {1} : \A id : /\ (Adds(i - 1, id)' <=> Adds(i, id))
                                                     /\ (Removes(i - 1, id)' <=> Removes(i, id))
  <1>1. events \in Seq(EventTypes(created)) /\ DOMAIN events = 1 .. Len(events)
        /\ Len(events) \in Nat \ {0}
    BY PeersTyped
  <1>2. /\ DOMAIN events' = 1 .. Len(events) - 1
        /\ \A i \in 1 .. Len(events) - 1 : events'[i] = events[i + 1]
        /\ events[1] = Head(events)
    BY <1>1
  <1>3. \A i \in DOMAIN events' : i + 1 \in DOMAIN events /\ events'[i] = events[i + 1] /\ i \in Nat \ {0}
    BY <1>1, <1>2
  <1>4. \A i \in DOMAIN events \ {1} : i - 1 \in DOMAIN events' /\ events'[i - 1] = events[i] /\ i \in Nat
    <2> SUFFICES ASSUME NEW i \in DOMAIN events \ {1}
                 PROVE  i - 1 \in DOMAIN events' /\ events'[i - 1] = events[i] /\ i \in Nat
      OBVIOUS
    <2>1. i \in Nat /\ i - 1 \in 1 .. Len(events) - 1 /\ (i - 1) + 1 = i
      BY <1>1
    <2> QED BY <1>2, <2>1
  <1>5. 1 \in DOMAIN events
    BY <1>1
  <1> QED BY <1>2, <1>3, <1>4, <1>5 DEF Adds, Removes

\* A packet that is delivered says nothing of who is there.
LEMMA DataKeepsEvents ==
    ASSUME TypeOK, EventInv, NEW e, e.type = "data", events' = Append(events, e),
           UNCHANGED <<mapVars, erased, clients>>
    PROVE  EventInv'
  <1>1. \A id : \A i \in DOMAIN events' :
            /\ (Adds(i, id)' <=> i \in DOMAIN events /\ Adds(i, id))
            /\ (Removes(i, id)' <=> i \in DOMAIN events /\ Removes(i, id))
    <2>1. PICK n : n = Len(events) + 1
      OBVIOUS
    <2> QED BY <2>1, AppendEvent
  <1>2. \A i \in DOMAIN events : i \in DOMAIN events' /\ events'[i] = events[i]
    <2>1. PICK n : n = Len(events) + 1
      OBVIOUS
    <2> QED BY <2>1, AppendEvent
  <1>3. EventOrder'
    BY <1>1 DEF EventInv, EventOrder
  <1>4. ObjectsNamed'
    BY DEF EventInv, ObjectsNamed, mapVars
  <1>5. \A id, o : (Registered(id, o)' <=> Registered(id, o)) /\ (Present(id, o)' <=> Present(id, o))
                   /\ (Removing(id)' <=> Removing(id))
    BY <1>1, <1>2 DEF Registered, Present, Removing, mapVars
  <1>6. Agreement'
    BY <1>5 DEF EventInv, Agreement, mapVars
  <1> QED BY <1>3, <1>4, <1>6 DEF EventInv

\* A peer that is taken out of m_peers stays present until it is announced.
LEMMA EraseKeepsEvents ==
    ASSUME TypeOK, EventInv, NEW t \in Threads, NEW id \in Ids, Erase(t, id),
           UNCHANGED <<events, clients>>
    PROVE  EventInv'
  <1>1. /\ created \in Nat /\ m_peers \in [Ids -> 0 .. created]
        /\ erased \in [Threads -> 0 .. created]
    BY PeersTyped
  <1>2. /\ m_peers' = [m_peers EXCEPT ![id] = 0] /\ erased[t] = 0
        /\ erased' = [erased EXCEPT ![t] = m_peers[id]]
        /\ UNCHANGED <<created, object>>
    BY DEF Erase, None
  <1>3. EventOrder'
    BY DEF EventInv, EventOrder, Adds, Removes
  <1>4. ObjectsNamed'
    BY <1>1, <1>2 DEF EventInv, ObjectsNamed, None
  <1>5. ASSUME NEW x \in Ids, NEW o \in 1 .. created
        PROVE  Present(x, o)' <=> Present(x, o)
    <2>1. m_peers'[x] = o <=> x # id /\ m_peers[x] = o
      BY <1>1, <1>2
    <2>2. \A u \in Threads : erased'[u] = o <=> IF u = t THEN m_peers[id] = o ELSE erased[u] = o
      BY <1>1, <1>2
    <2>3. erased[t] # o
      BY <1>1, <1>2
    <2>4. m_peers[id] = o => object[o].id = id
      BY <1>1 DEF EventInv, ObjectsNamed, None
    <2> QED BY <1>2, <2>1, <2>2, <2>3, <2>4 DEF Present
  <1>6. \A x, o : (Registered(x, o)' <=> Registered(x, o)) /\ (Removing(x)' <=> Removing(x))
    BY DEF Registered, Removing, Adds, Removes
  <1>7. Agreement'
    BY <1>2, <1>5, <1>6 DEF EventInv, Agreement
  <1> QED BY <1>3, <1>4, <1>7 DEF EventInv

\* For an id, the server has one peer at most.
LEMMA OneRegistered ==
    ASSUME EventInv, NEW id \in Ids, NEW o \in 1 .. created, NEW p \in 1 .. created,
           Registered(id, o), Registered(id, p)
    PROVE  o = p
  <1>1. o # None /\ p # None
    BY DEF None
  <1> QED BY <1>1 DEF EventInv, EventOrder, Registered

\* It is announced once.
LEMMA AnnounceKeepsEvents ==
    ASSUME PeersInv, EventInv, NEW t \in Threads, PutRemoved(t)
    PROVE  EventInv'
  <1>0. PICK o, id, n : o = erased[t] /\ id = object[o].id /\ n = Len(events) + 1
    OBVIOUS
  <1>1. /\ created \in Nat /\ m_peers \in [Ids -> 0 .. created]
        /\ erased \in [Threads -> 0 .. created] /\ \A x \in 1 .. created : object[x].id \in Ids
    BY PeersTyped DEF PeersInv
  <1>2. /\ o # 0 /\ erased' = [erased EXCEPT ![t] = 0]
        /\ events' = Append(events, [type |-> "removed", id |-> id, peer |-> o])
        /\ UNCHANGED <<m_peers, created, object, clients>>
    BY <1>0 DEF PutRemoved, None, mapVars, serverVars
  <1>3. o \in 1 .. created /\ id \in Ids
    BY <1>0, <1>1, <1>2
  <1>4. Present(id, o)
    BY <1>0 DEF Present
  <1>5. Registered(id, o) /\ ~Removing(id)
    BY <1>3, <1>4 DEF EventInv, Agreement
  <1>6. ASSUME NEW x \in 1 .. created
        PROVE  ~Present(id, x)'
    <2>1. CASE x = o
      <3>1. m_peers[id] # o /\ \A u \in Threads \ {t} : erased[u] # o
        BY <1>0, <1>2, <1>3 DEF PeersInv, UseInv, OnePlace, None
      <3>2. \A u \in Threads : erased'[u] # o
        BY <1>1, <1>2, <3>1
      <3> QED BY <1>2, <2>1, <3>1, <3>2 DEF Present
    <2>2. CASE x # o
      <3>1. ~Present(id, x)
        BY <1>3, <1>5, <2>2, OneRegistered DEF EventInv, Agreement
      <3>2. \A u \in Threads : erased'[u] = x => erased[u] = x
        BY <1>1, <1>2
      <3> QED BY <1>2, <3>1, <3>2 DEF Present
    <2> QED BY <2>1, <2>2
  <1>7. ASSUME NEW y \in Ids \ {id}, NEW x \in 1 .. created
        PROVE  Present(y, x)' <=> Present(y, x)
    <2>1. \A u \in Threads : u # t => erased'[u] = erased[u]
      BY <1>1, <1>2
    <2>2. erased'[t] # x /\ (erased[t] = x => object[x].id # y)
      BY <1>0, <1>1, <1>2
    <2> QED BY <1>2, <2>1, <2>2 DEF Present
  <1>8. /\ DOMAIN events' = DOMAIN events \cup {n} /\ n \notin DOMAIN events
        /\ \A i \in DOMAIN events : i < n /\ events'[i] = events[i]
        /\ \A i \in DOMAIN events : \A y : /\ (Adds(i, y)' <=> Adds(i, y))
                                           /\ (Removes(i, y)' <=> Removes(i, y))
        /\ \A y : ~Adds(n, y)' /\ (Removes(n, y)' <=> y = id)
    <2>1. TypeOK
      BY DEF PeersInv
    <2>2. /\ DOMAIN events' = DOMAIN events \cup {n} /\ n \notin DOMAIN events
          /\ \A i \in DOMAIN events : i < n /\ events'[i] = events[i]
          /\ \A i \in DOMAIN events : \A y : /\ (Adds(i, y)' <=> Adds(i, y))
                                             /\ (Removes(i, y)' <=> Removes(i, y))
      BY <1>0, <1>2, <2>1, AppendEvent
    <2>3. LET e == [type |-> "removed", id |-> id, peer |-> o] IN
          \A y : /\ (Adds(n, y)' <=> e.type = "added" /\ e.id = y)
                 /\ (Removes(n, y)' <=> e.type = "removed" /\ e.id = y)
      BY <1>0, <1>2, <2>1, AppendEvent
    <2> QED BY <2>2, <2>3
  <1>9. EventOrder'
    <2> SUFFICES ASSUME NEW y \in Ids, NEW i \in DOMAIN events', NEW j \in DOMAIN events'
                 PROVE  /\ (Adds(i, y)' /\ Adds(j, y)' => i = j)
                        /\ (Removes(i, y)' /\ Removes(j, y)' => i = j)
                        /\ (Adds(i, y)' /\ Removes(j, y)' => i < j)
                        /\ (Adds(i, y)' => clients'[y] = None)
      BY DEF EventOrder
    <2>1. \A k \in DOMAIN events : ~Removes(k, id)
      BY <1>5 DEF Removing
    <2>2. CASE i \in DOMAIN events /\ j \in DOMAIN events
      BY <1>2, <1>8, <2>2 DEF EventInv, EventOrder
    <2>3. CASE i = n /\ j \in DOMAIN events
      BY <1>8, <2>1, <2>3
    <2>4. CASE i \in DOMAIN events /\ j = n
      <3>1. ~Adds(j, y)' /\ (Adds(i, y)' => i < j /\ clients[y] = None)
        BY <1>8, <2>4 DEF EventInv, EventOrder
      <3>2. Removes(i, y)' /\ Removes(j, y)' => i = j
        BY <1>8, <2>1, <2>4
      <3> QED BY <1>2, <3>1, <3>2
    <2>5. CASE i = n /\ j = n
      BY <1>8, <2>5
    <2> QED BY <1>8, <2>2, <2>3, <2>4, <2>5
  <1>10. ObjectsNamed'
    BY <1>2 DEF EventInv, ObjectsNamed
  <1>11. /\ \A y, x : Registered(y, x)' <=> Registered(y, x)
         /\ \A y : y # id => (Removing(y)' <=> Removing(y))
         /\ Removing(id)'
    BY <1>2, <1>8 DEF Registered, Removing
  <1>12. Agreement'
    <2> SUFFICES ASSUME NEW y \in Ids, NEW x \in 1 .. created
                 PROVE  /\ (Present(y, x)' => Registered(y, x)' /\ ~Removing(y)')
                        /\ (Registered(y, x)' => Present(y, x)' \/ Removing(y)')
      BY <1>2 DEF Agreement
    <2>1. CASE y = id
      BY <1>6, <1>11, <2>1
    <2>2. CASE y # id
      BY <1>7, <1>11, <2>2 DEF EventInv, Agreement
    <2> QED BY <2>1, <2>2
  <1> QED BY <1>9, <1>10, <1>12 DEF EventInv

\* A new peer takes an id that the server does not connect with anybody.
LEMMA CreateKeepsEvents ==
    ASSUME FreshIds, TypeOK, EventInv, NEW address \in Addresses, createPeer(address)
    PROVE  EventInv'
  <1>1. PICK id \in Ids :
            /\ m_peers[id] = None /\ ~Named(id) /\ created' = created + 1
            /\ object' = Append(object, [id |-> id, address |-> address])
            /\ m_peers' = [m_peers EXCEPT ![id] = created']
            /\ events' = Append(events, [type |-> "added", id |-> id, peer |-> created'])
    BY DEF createPeer
  <1>n. PICK n, p : n = Len(events) + 1 /\ p = created + 1
    OBVIOUS
  <1>2. /\ created \in Nat /\ m_peers \in [Ids -> 0 .. created]
        /\ erased \in [Threads -> 0 .. created] /\ clients \in [Ids -> 0 .. created]
        /\ object \in Seq([id : Ids, address : Addresses]) /\ Len(object) = created
    BY PeersTyped
  <1>3. UNCHANGED <<erased, clients>> /\ p \in Nat \ {0} /\ p \notin 1 .. created
    BY <1>2, <1>n DEF createPeer, dropVars, serverVars
  <1>4. /\ object'[p].id = id /\ \A o \in 1 .. created : object'[o] = object[o]
    BY <1>1, <1>2, <1>n
  <1>5. /\ clients[id] = None /\ \A i \in DOMAIN events : events[i].id # id
        /\ \A t \in Threads : erased[t] # None => object[erased[t]].id # id
    <2>1. clients[id] = None /\ \A i \in DOMAIN events : events[i].id # id
      BY <1>1 DEF Named
    <2>2. ASSUME NEW t \in Threads, erased[t] # None
          PROVE  object[erased[t]].id # id
      <3>1. erased[t] \in 1 .. created
        BY <1>2, <2>2 DEF None
      <3> QED BY <1>1, <3>1 DEF Named
    <2> QED BY <2>1, <2>2
  <1>6. /\ DOMAIN events' = DOMAIN events \cup {n} /\ n \notin DOMAIN events
        /\ \A i \in DOMAIN events : i < n /\ events'[i] = events[i]
        /\ \A i \in DOMAIN events : \A y : /\ (Adds(i, y)' <=> Adds(i, y))
                                           /\ (Removes(i, y)' <=> Removes(i, y))
        /\ \A y : (Adds(n, y)' <=> y = id) /\ ~Removes(n, y)'
        /\ events'[n].peer = p
    <2>2. /\ DOMAIN events' = DOMAIN events \cup {n} /\ n \notin DOMAIN events
          /\ \A i \in DOMAIN events : i < n /\ events'[i] = events[i]
          /\ \A i \in DOMAIN events : \A y : /\ (Adds(i, y)' <=> Adds(i, y))
                                             /\ (Removes(i, y)' <=> Removes(i, y))
      BY <1>1, <1>n, AppendEvent
    <2>3. LET e == [type |-> "added", id |-> id, peer |-> created'] IN
          /\ \A y : /\ (Adds(n, y)' <=> e.type = "added" /\ e.id = y)
                    /\ (Removes(n, y)' <=> e.type = "removed" /\ e.id = y)
          /\ events'[n] = e
      BY <1>1, <1>n, AppendEvent
    <2> QED BY <1>1, <1>n, <2>2, <2>3
  <1>7. \A i \in DOMAIN events : ~Adds(i, id) /\ ~Removes(i, id)
    BY <1>5 DEF Adds, Removes
  <1>8. EventOrder'
    <2> SUFFICES ASSUME NEW y \in Ids, NEW i \in DOMAIN events', NEW j \in DOMAIN events'
                 PROVE  /\ (Adds(i, y)' /\ Adds(j, y)' => i = j)
                        /\ (Removes(i, y)' /\ Removes(j, y)' => i = j)
                        /\ (Adds(i, y)' /\ Removes(j, y)' => i < j)
                        /\ (Adds(i, y)' => clients'[y] = None)
      BY DEF EventOrder
    <2>1. CASE y = id
      BY <1>3, <1>5, <1>6, <1>7, <2>1
    <2>2. CASE y # id
      <3>1. /\ (Adds(i, y)' => i \in DOMAIN events /\ Adds(i, y))
            /\ (Adds(j, y)' => j \in DOMAIN events /\ Adds(j, y))
            /\ (Removes(i, y)' => i \in DOMAIN events /\ Removes(i, y))
            /\ (Removes(j, y)' => j \in DOMAIN events /\ Removes(j, y))
        BY <1>6, <2>2
      <3> QED BY <1>3, <3>1 DEF EventInv, EventOrder
    <2> QED BY <2>1, <2>2
  <1>9. ObjectsNamed'
    <2> SUFFICES ASSUME NEW y \in Ids, m_peers'[y] # None
                 PROVE  object'[m_peers'[y]].id = y
      BY DEF ObjectsNamed
    <2>1. CASE y = id
      BY <1>1, <1>2, <1>4, <2>1, <1>n
    <2>2. CASE y # id
      <3>1. m_peers'[y] = m_peers[y] /\ m_peers[y] \in 1 .. created
        BY <1>1, <1>2, <2>2 DEF None
      <3> QED BY <1>4, <3>1 DEF EventInv, ObjectsNamed, None
    <2> QED BY <2>1, <2>2
  <1>10. ASSUME NEW y \in Ids \ {id}, NEW o \in 1 .. created
         PROVE  /\ Present(y, o)' <=> Present(y, o)
                /\ Registered(y, o)' <=> Registered(y, o)
                /\ Removing(y)' <=> Removing(y)
    <2>1. m_peers'[y] = m_peers[y]
      BY <1>1, <1>2
    <2>2. Present(y, o)' <=> Present(y, o)
      BY <1>3, <1>4, <2>1 DEF Present
    <2>3. Registered(y, o)' <=> Registered(y, o)
      BY <1>3, <1>6 DEF Registered
    <2>4. Removing(y)' <=> Removing(y)
      BY <1>6 DEF Removing
    <2> QED BY <2>2, <2>3, <2>4
  <1>11. ASSUME NEW y \in Ids \ {id}
         PROVE  ~Present(y, p)' /\ ~Registered(y, p)'
    <2>1. m_peers'[y] # p
      <3>1. m_peers'[y] = m_peers[y] /\ m_peers[y] \in 0 .. created
        BY <1>1, <1>2
      <3> QED BY <1>2, <3>1, <1>n
    <2>2. clients'[y] # p /\ \A t \in Threads : erased'[t] # p
      BY <1>2, <1>3, <1>n
    <2>3. \A i \in DOMAIN events : events[i].peer # p
      <3>1. \A i \in DOMAIN events : events[i].peer \in 0 .. created
        <4>1. \A i \in 1 .. Len(events) : events[i] \in EventTypes(created)
          BY PeersTyped, SeqElement
        <4> QED BY <4>1, PeersTyped DEF EventTypes
      <3> QED BY <1>2, <3>1, <1>n
    <2>4. \A i \in DOMAIN events' : ~(Adds(i, y)' /\ events'[i].peer = p)
      BY <1>6, <2>3
    <2> QED BY <2>1, <2>2, <2>4 DEF Present, Registered
  <1>12. ASSUME NEW o \in 1 .. created
         PROVE  ~Present(id, o)' /\ ~Registered(id, o)' /\ ~Removing(id)'
    <2>1. m_peers'[id] # o
      BY <1>1, <1>2, <1>3, <1>n
    <2>2. \A t \in Threads : erased'[t] = o => object'[o].id # id
      BY <1>3, <1>4, <1>5 DEF None
    <2>3. clients'[id] # o
      BY <1>3, <1>5 DEF None
    <2>4. \A i \in DOMAIN events' : Adds(i, id)' => events'[i].peer # o
      BY <1>3, <1>6, <1>7
    <2>5. \A i \in DOMAIN events' : ~Removes(i, id)'
      BY <1>6, <1>7
    <2> QED BY <2>1, <2>2, <2>3, <2>4, <2>5 DEF Present, Registered, Removing
  <1>13. Present(id, p)' /\ Registered(id, p)' /\ ~Removing(id)'
    <2>1. m_peers'[id] = p
      BY <1>1, <1>2, <1>n
    <2>2. \A i \in DOMAIN events' : ~Removes(i, id)'
      BY <1>6, <1>7
    <2> QED BY <1>6, <2>1, <2>2 DEF Present, Registered, Removing
  <1>14. Agreement'
    <2> SUFFICES ASSUME NEW y \in Ids, NEW o \in 1 .. created'
                 PROVE  /\ (Present(y, o)' => Registered(y, o)' /\ ~Removing(y)')
                        /\ (Registered(y, o)' => Present(y, o)' \/ Removing(y)')
      BY DEF Agreement
    <2>1. o \in 1 .. created \/ o = p
      BY <1>1, <1>2, <1>n
    <2>2. CASE y = id
      BY <1>12, <1>13, <2>1, <2>2
    <2>3. CASE y # id /\ o = p
      BY <1>11, <2>3
    <2>4. CASE y # id /\ o \in 1 .. created
      BY <1>10, <2>4 DEF EventInv, Agreement
    <2> QED BY <2>1, <2>2, <2>3, <2>4
  <1> QED BY <1>8, <1>9, <1>14 DEF EventInv

\* The server follows the event at the head of the queue.
LEMMA HandleKeepsEvents ==
    ASSUME TypeOK, EventInv, HandleEvent
    PROVE  EventInv'
  <1> DEFINE e == Head(events)
  <1>1. /\ events # << >> /\ events' = Tail(events) /\ UNCHANGED <<mapVars, erased>>
        /\ clients' = CASE e.type = "added" -> CreateClient(e)
                        [] e.type = "removed" -> DeleteClient(e)
                        [] OTHER -> clients
    BY DEF HandleEvent, dropVars
  <1>2. /\ 1 \in DOMAIN events /\ events[1] = e
        /\ \A i \in DOMAIN events' : /\ i + 1 \in DOMAIN events /\ events'[i] = events[i + 1]
                                     /\ i \in Nat \ {0}
        /\ \A i \in DOMAIN events \ {1} : /\ i - 1 \in DOMAIN events'
                                          /\ events'[i - 1] = events[i] /\ i \in Nat
    BY <1>1, TailEvents
  <1>3. /\ \A i \in DOMAIN events' : \A id : /\ (Adds(i, id)' <=> Adds(i + 1, id))
                                             /\ (Removes(i, id)' <=> Removes(i + 1, id))
        /\ \A i \in DOMAIN events \ {1} : \A id : /\ (Adds(i - 1, id)' <=> Adds(i, id))
                                                  /\ (Removes(i - 1, id)' <=> Removes(i, id))
    BY <1>1, TailEvents
  <1>4. e.id \in Ids /\ clients \in [Ids -> 0 .. created] /\ e.type \in {"added", "removed", "data"}
    <2>1. e \in EventTypes(created)
      BY <1>1, SeqElement, PeersTyped
    <2> QED BY <2>1, PeersTyped DEF EventTypes
  <1>5. \A id : /\ (Adds(1, id) <=> e.type = "added" /\ e.id = id)
                /\ (Removes(1, id) <=> e.type = "removed" /\ e.id = id)
    BY <1>2 DEF Adds, Removes
  <1> HIDE DEF e
  <1>6. clients' = [clients EXCEPT ![e.id] = CASE e.type = "added" -> e.peer
                                               [] e.type = "removed" -> None
                                               [] OTHER -> clients[e.id]]
    <2>1. CASE e.type = "added"
      <3>1. clients[e.id] = None
        BY <1>2, <1>4, <1>5, <2>1 DEF EventInv, EventOrder
      <3> QED BY <1>1, <2>1, <3>1 DEF CreateClient
    <2>2. CASE e.type = "removed"
      BY <1>1, <2>2 DEF DeleteClient
    <2>3. CASE e.type = "data"
      BY <1>1, <1>4, <2>3
    <2> QED BY <1>4, <2>1, <2>2, <2>3
  <1>7. \A id \in Ids \ {e.id} : clients'[id] = clients[id]
    BY <1>4, <1>6
  <1>8. /\ (e.type = "added" => clients'[e.id] = e.peer)
        /\ (e.type = "removed" => clients'[e.id] = None)
        /\ (e.type = "data" => clients'[e.id] = clients[e.id])
    BY <1>4, <1>6
  <1>9. \A i \in DOMAIN events' : i + 1 # 1
    BY <1>2
  <1>10. ASSUME NEW id \in Ids
         PROVE  /\ Removing(id)' <=> \E i \in DOMAIN events \ {1} : Removes(i, id)
                /\ \A o : (\E i \in DOMAIN events' : Adds(i, id)' /\ events'[i].peer = o)
                             <=> \E i \in DOMAIN events \ {1} : Adds(i, id) /\ events[i].peer = o
    BY <1>2, <1>3, <1>9 DEF Removing
  <1>11. EventOrder'
    <2> SUFFICES ASSUME NEW id \in Ids, NEW i \in DOMAIN events', NEW j \in DOMAIN events'
                 PROVE  /\ (Adds(i, id)' /\ Adds(j, id)' => i = j)
                        /\ (Removes(i, id)' /\ Removes(j, id)' => i = j)
                        /\ (Adds(i, id)' /\ Removes(j, id)' => i < j)
                        /\ (Adds(i, id)' => clients'[id] = None)
      BY DEF EventOrder
    <2>1. /\ i + 1 \in DOMAIN events /\ j + 1 \in DOMAIN events
          /\ i \in Nat /\ j \in Nat /\ i + 1 # 1
      BY <1>2, <1>9
    <2>2. /\ (Adds(i, id)' <=> Adds(i + 1, id)) /\ (Adds(j, id)' <=> Adds(j + 1, id))
          /\ (Removes(i, id)' <=> Removes(i + 1, id)) /\ (Removes(j, id)' <=> Removes(j + 1, id))
      BY <1>3
    <2>3. /\ (Adds(i + 1, id) /\ Adds(j + 1, id) => i + 1 = j + 1)
          /\ (Removes(i + 1, id) /\ Removes(j + 1, id) => i + 1 = j + 1)
          /\ (Adds(i + 1, id) /\ Removes(j + 1, id) => i + 1 < j + 1)
          /\ (Adds(i + 1, id) => clients[id] = None)
          /\ ~(Adds(i + 1, id) /\ Adds(1, id))
      BY <1>2, <2>1 DEF EventInv, EventOrder
    <2>4. Adds(i + 1, id) => clients'[id] = None
      <3>1. CASE id # e.id
        BY <1>7, <2>3, <3>1
      <3>2. CASE id = e.id
        <4>1. Adds(i + 1, id) => e.type # "added"
          BY <1>5, <2>3, <3>2
        <4> QED BY <1>4, <1>8, <2>3, <3>2, <4>1
      <3> QED BY <3>1, <3>2
    <2> QED BY <2>1, <2>2, <2>3, <2>4
  <1>12. ObjectsNamed'
    BY <1>1 DEF EventInv, ObjectsNamed, mapVars
  <1>13. Agreement'
    <2> SUFFICES ASSUME NEW id \in Ids, NEW o \in 1 .. created
                 PROVE  /\ (Present(id, o)' => Registered(id, o)' /\ ~Removing(id)')
                        /\ (Registered(id, o)' => Present(id, o)' \/ Removing(id)')
      BY <1>1 DEF Agreement, mapVars
    <2>1. Present(id, o)' <=> Present(id, o)
      BY <1>1 DEF Present, mapVars
    <2>2. /\ (Present(id, o) => Registered(id, o) /\ ~Removing(id))
          /\ (Registered(id, o) => Present(id, o) \/ Removing(id))
      BY DEF EventInv, Agreement
    <2>3. Removing(id) <=> Removing(id)' \/ Removes(1, id)
      BY <1>2, <1>10 DEF Removing
    <2>4. Registered(id, o)' <=> clients'[id] = o
              \/ \E i \in DOMAIN events \ {1} : Adds(i, id) /\ events[i].peer = o
      BY <1>10 DEF Registered
    <2>5. CASE e.type = "removed" /\ e.id = id
      <3>1. Removes(1, id) /\ Removing(id)
        BY <1>2, <1>5, <2>5 DEF Removing
      <3>2. \A i \in DOMAIN events : ~Adds(i, id)
        <4>1. ASSUME NEW i \in DOMAIN events, Adds(i, id)
              PROVE  FALSE
          <5>1. i < 1
            BY <1>2, <3>1, <4>1 DEF EventInv, EventOrder
          <5>2. i \in Nat \ {0}
            BY PeersTyped
          <5> QED BY <5>1, <5>2
        <4> QED BY <4>1
      <3>3. clients'[id] # o
        BY <1>8, <2>5 DEF None
      <3> QED BY <2>1, <2>2, <2>4, <3>1, <3>2, <3>3
    <2>6. CASE e.type = "added" /\ e.id = id
      <3>1. Adds(1, id) /\ clients[id] = None /\ ~Removes(1, id) /\ clients'[id] = e.peer
        BY <1>2, <1>5, <1>8, <2>6 DEF EventInv, EventOrder
      <3>2. Registered(id, o) <=> Registered(id, o)'
        <4>1. Registered(id, o) <=> \E i \in DOMAIN events : Adds(i, id) /\ events[i].peer = o
          BY <3>1 DEF Registered, None
        <4> QED BY <1>2, <2>4, <3>1, <4>1
      <3> QED BY <2>1, <2>2, <2>3, <3>1, <3>2
    <2>7. CASE e.id # id \/ e.type = "data"
      <3>1. ~Adds(1, id) /\ ~Removes(1, id) /\ clients'[id] = clients[id]
        BY <1>5, <1>7, <1>8, <2>7
      <3>2. Registered(id, o) <=> Registered(id, o)'
        BY <2>4, <3>1 DEF Registered
      <3> QED BY <2>1, <2>2, <2>3, <3>1, <3>2
    <2> QED BY <1>4, <2>5, <2>6, <2>7
  <1> QED BY <1>11, <1>12, <1>13 DEF EventInv

LEMMA QuietKeepsEvents ==
    ASSUME EventInv, UNCHANGED <<mapVars, erased, events, clients>>
    PROVE  EventInv'
  BY DEF EventInv, EventOrder, ObjectsNamed, Agreement, Present, Registered, Removing,
     Adds, Removes, mapVars

LEMMA EventInvNext ==
    ASSUME FreshIds, PeersInv, EventInv, [Next]_vars
    PROVE  EventInv'
  <1>0. TypeOK /\ NamesPeers /\ st.doomed \subseteq Ids /\ "send" \in Threads /\ "receive" \in Threads
    BY DEF PeersInv, TypeOK, Threads
  <1>1. CASE UNCHANGED vars
    BY <1>1, QuietKeepsEvents DEF vars, mapVars, dropVars, serverVars
  <1>2. CASE RemoveDoomed
    <2>1. PICK id \in st.doomed : Erase("send", id)
      BY <1>2 DEF RemoveDoomed
    <2> QED BY <1>0, <1>2, <2>1, EraseKeepsEvents DEF RemoveDoomed, serverVars
  <1>3. CASE Disco
    BY <1>0, <1>3, EraseKeepsEvents DEF Disco, serverVars, NamesPeers
  <1>4. CASE \E t \in Threads : PutRemoved(t)
    BY <1>4, AnnounceKeepsEvents
  <1>5. CASE \E address \in Addresses : createPeer(address)
    BY <1>0, <1>5, CreateKeepsEvents
  <1>6. CASE Deliver
    <2> DEFINE e == [type |-> "data", id |-> rt.id, peer |-> None]
    <2>1. /\ events' = Append(events, e) /\ UNCHANGED <<mapVars, erased, clients>>
          /\ e.type = "data"
      BY <1>6 DEF Deliver, dropVars, serverVars
    <2> QED BY <1>0, <2>1, DataKeepsEvents
  <1>7. CASE HandleEvent
    BY <1>0, <1>7, HandleKeepsEvents
  <1>8. CASE \/ Visit \/ (\E timed_out \in BOOLEAN : CheckTimeout(timed_out)) \/ CheckDisconnect
             \/ EndVisits \/ EndRemovals \/ Drop("send") \/ DisconnectPeer
             \/ SetPendingDisconnect \/ EndCommands \/ TakeOutgoing \/ RequeueOutgoing
             \/ SendOutgoing \/ EndOutgoing \/ EndSendPackets
    BY <1>8, QuietKeepsEvents DEF Visit, CheckTimeout, CheckDisconnect, EndVisits, EndRemovals,
       Drop, DisconnectPeer, SetPendingDisconnect, EndCommands, TakeOutgoing, RequeueOutgoing,
       SendOutgoing, EndOutgoing, EndSendPackets, dropVars, serverVars
  <1>9. CASE \/ GetPeer \/ Refuse \/ processPacket \/ Drop("receive") \/ EndProcessPacket
             \/ EndGetFromBuffers \/ EndReceive \/ Unbuffer
             \/ (\E address \in Addresses, what \in {"data", "DISCO"} : Arrive(address, what))
             \/ GetPeerAddress \/ EndGetPeerAddress \/ Kick
    BY <1>9, QuietKeepsEvents DEF GetPeer, Refuse, processPacket, Drop, EndProcessPacket,
       EndGetFromBuffers, EndReceive, Unbuffer, Arrive, GetPeerAddress, EndGetPeerAddress, Kick,
       dropVars, serverVars
  <1> QED
    BY <1>0, <1>1, <1>2, <1>3, <1>4, <1>5, <1>6, <1>7, <1>8, <1>9
    DEF Next, SendThread, ReceiveWork, Network, ServerThread

LEMMA EventInvInit == Init => EventInv
  BY DEF Init, EventInv, EventOrder, ObjectsNamed, Agreement, Adds, Removes

LEMMA EventInvImplies == PeersInv /\ EventInv => ServerAgrees
  <1> SUFFICES ASSUME PeersInv, EventInv, events = << >>, \A t \in Threads : erased[t] = None
               PROVE  clients = m_peers
    BY DEF ServerAgrees
  <1>1. /\ created \in Nat /\ m_peers \in [Ids -> 0 .. created]
        /\ clients \in [Ids -> 0 .. created]
    BY PeersTyped DEF PeersInv
  <1>2. DOMAIN events = {}
    OBVIOUS
  <1>3. \A id \in Ids, o \in 1 .. created : /\ (Present(id, o) <=> m_peers[id] = o)
                                            /\ (Registered(id, o) <=> clients[id] = o)
                                            /\ ~Removing(id)
    BY <1>2 DEF Present, Registered, Removing, None
  <1>4. \A id \in Ids, o \in 1 .. created : m_peers[id] = o <=> clients[id] = o
    BY <1>3 DEF EventInv, Agreement
  <1>5. \A id \in Ids : m_peers[id] = clients[id]
    BY <1>1, <1>4
  <1> QED BY <1>1, <1>5

\* The clients that Server::peerAdded and Server::deletingPeer keep are, once
\* the events are handled, the peers of the connection, each for the peer it
\* was made for: PEER_REMOVED never overtakes or outlives its PEER_ADDED.  It
\* rests on ids that are not given again while something names them.
THEOREM ServerFollowsPeers ==
    ASSUME FreshIds
    PROVE  Spec => []ServerAgrees
  <1>1. Init => EventInv
    BY EventInvInit
  <1>2. PeersInv /\ EventInv /\ [Next]_vars => EventInv'
    BY EventInvNext
  <1>3. PeersInv /\ EventInv => ServerAgrees
    BY EventInvImplies
  <1>4. Spec => []PeersInv
    BY AllInvariant DEF PeersInv
  <1> QED BY <1>1, <1>2, <1>3, <1>4, PTL DEF Spec

-----------------------------------------------------------------------------
(* The DISCO of a peer that the server disconnects                         *)

\* Whoever is to be disconnected was sent a DISCO, or has left, or it waits.
DiscoWaits ==
    \A o \in pending_disconnect :
        \/ o \in told \/ m_peers[object[o].id] # o \/ object[o].id \in m_outgoing_queue
        \/ (st.pc = "outgoing" /\ st.id = object[o].id)

\* What the send thread has at hand in each part of its loop.
NoId == helper["send"] = None \/ st.pc = "commands" => st.id = None

AtCommands ==
    st.pc = "commands" =>
        /\ st.doomed = {}
        /\ (helper["send"] # None => object[helper["send"]].id \in m_outgoing_queue)

AtVisits ==
    /\ (st.pc \in {"timeouts", "sendPackets"} /\ helper["send"] # None =>
            m_peers[st.id] \in {None, helper["send"]})
    /\ (st.pc = "sendPackets" =>
            \A id \in st.doomed : m_peers[id] \in {None} \cup pending_disconnect)

AtOutgoing ==
    st.pc = "outgoing" =>
        \A id \in st.doomed :
            m_peers[id] \in {None} \cup told \/ id \in st.todo \/ id = st.id

DiscoInv == DiscoWaits /\ NoId /\ AtCommands /\ AtVisits /\ AtOutgoing /\ DiscoBeforeRemoval

LEMMA SendTyped ==
    ASSUME TypeOK
    PROVE  /\ created \in Nat /\ m_peers \in [Ids -> 0 .. created] /\ helper["send"] \in 0 .. created
           /\ helper \in [Helpers -> 0 .. created]
           /\ pending_disconnect \subseteq 1 .. created /\ told \subseteq 1 .. created
           /\ m_outgoing_queue \subseteq Ids /\ st.todo \subseteq Ids /\ st.doomed \subseteq Ids
           /\ st.id \in Ids \cup {None} /\ None \notin Ids
           /\ st = [pc |-> st.pc, todo |-> st.todo, doomed |-> st.doomed, id |-> st.id]
           /\ \A o \in 1 .. created : object[o].id \in Ids
  <1>1. "send" \in Helpers
    BY DEF Helpers
  <1>2. st \in [pc : Steps, todo : SUBSET Ids, doomed : SUBSET Ids, id : Ids \cup {None}]
    BY DEF TypeOK
  <1> QED BY <1>1, <1>2, PeersTyped, PeersAssumption DEF TypeOK, None

\* Peers that leave m_peers need no DISCO.
LEMMA LeavingKeepsDisco ==
    ASSUME TypeOK, DiscoInv, \A id \in Ids : m_peers'[id] \in {m_peers[id], None},
           NEW doomed \in SUBSET st.doomed, st' = [st EXCEPT !.doomed = doomed],
           UNCHANGED <<created, object, m_outgoing_queue, pending_disconnect, told>>,
           helper'["send"] = helper["send"],
           NamesPeers
    PROVE  DiscoInv'
  <1>1. /\ st'.pc = st.pc /\ st'.todo = st.todo /\ st'.id = st.id /\ st'.doomed \subseteq st.doomed
        /\ (st.doomed = {} => st'.doomed = {})
    BY SendTyped
  <1>2. DiscoWaits'
    <2> SUFFICES ASSUME NEW o \in pending_disconnect, o \notin told, m_peers'[object[o].id] = o,
                        object[o].id \notin m_outgoing_queue
                 PROVE  st'.pc = "outgoing" /\ st'.id = object[o].id
      BY DEF DiscoWaits
    <2>1. o # None /\ object[o].id \in Ids
      BY SendTyped DEF None
    <2>2. m_peers[object[o].id] = o
      BY <2>1
    <2> QED BY <1>1, <2>2 DEF DiscoInv, DiscoWaits
  <1>3. NoId' /\ AtCommands'
    BY <1>1 DEF DiscoInv, NoId, AtCommands
  <1>4. AtVisits'
    BY <1>1, SendTyped DEF DiscoInv, AtVisits, NamesPeers
  <1>5. AtOutgoing' /\ DiscoBeforeRemoval'
    BY <1>1, SendTyped DEF DiscoInv, AtOutgoing, DiscoBeforeRemoval
  <1> QED BY <1>2, <1>3, <1>4, <1>5 DEF DiscoInv

\* A new peer has an id that the send thread does not have at hand.
LEMMA CreateKeepsDisco ==
    ASSUME TypeOK, NamesPeers, FreshIds, DiscoInv, NEW address \in Addresses, createPeer(address),
           helper'["send"] = helper["send"]
    PROVE  DiscoInv'
  <1>1. PICK id \in Ids :
        /\ m_peers[id] = None /\ ~Named(id)
        /\ object' = Append(object, [id |-> id, address |-> address])
        /\ m_peers' = [m_peers EXCEPT ![id] = created']
        /\ created' = created + 1
        /\ UNCHANGED sendVars
    BY DEF createPeer
  <1>2. /\ st' = st /\ m_outgoing_queue' = m_outgoing_queue /\ told' = told
        /\ pending_disconnect' = pending_disconnect
        /\ id \notin m_outgoing_queue \cup st.todo \cup st.doomed /\ st.id # id
    BY <1>1 DEF Named, sendVars
  <1>3. /\ \A y \in Ids \ {id} : m_peers'[y] = m_peers[y]
        /\ m_peers'[id] = created + 1
        /\ \A o \in 1 .. created : object'[o] = object[o] /\ o # created + 1
    BY <1>1, PeersTyped
  <1>4. DiscoWaits'
    <2> SUFFICES ASSUME NEW o \in pending_disconnect
                 PROVE  \/ o \in told \/ m_peers'[object[o].id] # o
                        \/ object[o].id \in m_outgoing_queue
                        \/ (st.pc = "outgoing" /\ st.id = object[o].id)
      BY <1>2, <1>3, SendTyped DEF DiscoWaits
    <2>1. object[o].id \in Ids /\ o # created + 1
      BY <1>3, SendTyped
    <2>2. CASE object[o].id = id
      BY <1>3, <2>1, <2>2
    <2>3. CASE object[o].id # id
      BY <1>3, <2>1, <2>3 DEF DiscoInv, DiscoWaits
    <2> QED BY <2>2, <2>3
  <1>5. NoId' /\ AtCommands'
    <2>1. helper["send"] # None => object'[helper["send"]] = object[helper["send"]]
      BY <1>3, SendTyped DEF None
    <2> QED BY <1>2, <2>1 DEF DiscoInv, NoId, AtCommands
  <1>6. AtVisits'
    BY <1>2, <1>3, SendTyped DEF DiscoInv, AtVisits, NamesPeers
  <1>7. AtOutgoing' /\ DiscoBeforeRemoval'
    BY <1>2, <1>3, SendTyped DEF DiscoInv, AtOutgoing, DiscoBeforeRemoval
  <1> QED BY <1>4, <1>5, <1>6, <1>7 DEF DiscoInv

\* A lookup of the send thread finds the peer, or there is none.
LEMMA SendLookup ==
    ASSUME PeersInv, NEW id \in Ids, NEW h \in Helpers, getPeerNoEx(h, id)
    PROVE  /\ helper'[h] = m_peers[id]
           /\ \A g \in Helpers \ {h} : helper'[g] = helper[g]
  <1>1. /\ helper \in [Helpers -> 0 .. created] /\ m_peers \in [Ids -> 0 .. created]
        /\ created \in Nat
    BY PeersTyped DEF PeersInv
  <1>2. m_peers[id] # None => m_peers[id] \notin pending_deletion
    <2>1. m_peers[id] # None => m_peers[id] \in 1 .. created /\ InMap(m_peers[id])
      BY <1>1 DEF InMap, None
    <2> QED BY <2>1 DEF PeersInv, UseInv, DroppedLast
  <1> QED BY <1>1, <1>2 DEF getPeerNoEx, None

\* The end of a use by the send thread.
LEMMA SendRelease ==
    ASSUME TypeOK, Release("send")
    PROVE  helper["send"] # None /\ helper'["send"] = None
  BY SendTyped DEF Release, Helpers

LEMMA VisitKeepsDisco ==
    ASSUME PeersInv, EventInv, DiscoInv, Visit
    PROVE  DiscoInv'
  <1>1. PICK id \in st.todo :
        /\ getPeerNoEx("send", id)
        /\ st' = [st EXCEPT !.todo = @ \ {id},
                           !.id = IF helper'["send"] = None THEN None ELSE id]
    BY DEF Visit
  <1>2. /\ st.pc \in {"timeouts", "sendPackets"}
        /\ UNCHANGED <<mapVars, m_outgoing_queue, pending_disconnect, told>>
    BY DEF Visit
  <1>3. id \in Ids /\ "send" \in Helpers
    BY SendTyped DEF PeersInv, Helpers
  <1>4. helper'["send"] = m_peers[id]
    BY <1>1, <1>3, SendLookup
  <1>5. /\ st'.pc = st.pc /\ st'.doomed = st.doomed
        /\ st'.id = IF m_peers[id] = None THEN None ELSE id
    BY <1>1, <1>4, SendTyped DEF PeersInv
  <1>6. DiscoWaits'
    BY <1>2, <1>5 DEF DiscoInv, DiscoWaits, mapVars
  <1>7. NoId' /\ AtCommands' /\ AtOutgoing' /\ DiscoBeforeRemoval'
    BY <1>2, <1>4, <1>5 DEF NoId, AtCommands, AtOutgoing, DiscoBeforeRemoval
  <1>8. AtVisits'
    BY <1>2, <1>4, <1>5 DEF DiscoInv, AtVisits, mapVars
  <1> QED BY <1>6, <1>7, <1>8 DEF DiscoInv

\* A visit ends: the peer is put down if it is silent or to be disconnected.
LEMMA CheckKeepsDisco ==
    ASSUME PeersInv, DiscoInv,
           (\E timed_out \in BOOLEAN : CheckTimeout(timed_out)) \/ CheckDisconnect
    PROVE  DiscoInv'
  <1>1. /\ UNCHANGED <<mapVars, m_outgoing_queue, pending_disconnect, told>>
        /\ helper["send"] # None /\ helper'["send"] = None
    BY SendRelease DEF PeersInv, CheckTimeout, CheckDisconnect
  <1>2. /\ st.pc \in {"timeouts", "sendPackets"} /\ st'.pc = st.pc /\ st'.id = None
        /\ (st.pc = "sendPackets" =>
                st'.doomed = IF helper["send"] \in pending_disconnect
                             THEN st.doomed \cup {st.id} ELSE st.doomed)
    BY SendTyped DEF PeersInv, CheckTimeout, CheckDisconnect
  <1>3. DiscoWaits'
    BY <1>1, <1>2 DEF DiscoInv, DiscoWaits, mapVars
  <1>4. NoId' /\ AtCommands' /\ AtOutgoing' /\ DiscoBeforeRemoval'
    BY <1>2 DEF NoId, AtCommands, AtOutgoing, DiscoBeforeRemoval
  <1>5. AtVisits'
    BY <1>1, <1>2 DEF DiscoInv, AtVisits, mapVars
  <1> QED BY <1>3, <1>4, <1>5 DEF DiscoInv

\* sendPackets has seen all peers: what a doomed one has to be sent waits.
LEMMA EndVisitsKeepsDisco ==
    ASSUME PeersInv, EventInv, DiscoInv, EndVisits
    PROVE  DiscoInv'
  <1>1. /\ UNCHANGED <<mapVars, helper, m_outgoing_queue, pending_disconnect, told>>
        /\ helper["send"] = None
    BY DEF EndVisits, SendFree, useVars
  <1>2. /\ st'.id = st.id /\ st'.doomed = st.doomed
        /\ \/ st.pc = "timeouts" /\ st'.pc = "remove timed out"
           \/ st.pc = "sendPackets" /\ st'.pc = "outgoing" /\ st'.todo = m_outgoing_queue
    BY SendTyped DEF PeersInv, EndVisits, Goes
  <1>3. DiscoWaits'
    BY <1>1, <1>2 DEF DiscoInv, DiscoWaits, mapVars
  <1>4. NoId' /\ AtCommands' /\ AtVisits' /\ DiscoBeforeRemoval'
    BY <1>1, <1>2 DEF DiscoInv, NoId, AtCommands, AtVisits, DiscoBeforeRemoval
  <1>5. AtOutgoing'
    <2> SUFFICES ASSUME st.pc = "sendPackets", NEW id \in st.doomed, m_peers[id] # None,
                        m_peers[id] \notin told
                 PROVE  id \in m_outgoing_queue
      BY <1>1, <1>2 DEF AtOutgoing, mapVars
    <2>1. id \in Ids /\ m_peers[id] \in pending_disconnect
      BY SendTyped DEF PeersInv, DiscoInv, AtVisits
    <2>2. object[m_peers[id]].id = id
      BY <2>1 DEF EventInv, ObjectsNamed
    <2> QED BY <2>1, <2>2 DEF DiscoInv, DiscoWaits
  <1> QED BY <1>3, <1>4, <1>5 DEF DiscoInv

\* Between the parts of the loop.
LEMMA GoingKeepsDisco ==
    ASSUME PeersInv, DiscoInv, EndRemovals \/ EndCommands \/ EndSendPackets
    PROVE  DiscoInv'
  <1>1. /\ UNCHANGED <<mapVars, helper, m_outgoing_queue, pending_disconnect, told>>
        /\ helper["send"] = None
    BY DEF EndRemovals, EndCommands, EndSendPackets, SendFree, useVars
  <1>2. /\ st'.id = st.id /\ st'.doomed = st.doomed /\ st.id = None
        /\ \/ st.pc = "remove timed out" /\ st'.pc = "commands" /\ st.doomed = {}
           \/ st.pc = "remove disconnected" /\ st'.pc = "timeouts"
           \/ st.pc = "commands" /\ st'.pc = "sendPackets"
           \/ st.pc = "outgoing" /\ st'.pc = "remove disconnected" /\ st.todo = {}
    BY <1>1, SendTyped DEF PeersInv, EndRemovals, EndCommands, EndSendPackets, Goes, DiscoInv, NoId
  <1>3. DiscoWaits'
    <2>1. \A o \in pending_disconnect : st.id # object[o].id
      BY <1>2, SendTyped DEF PeersInv
    <2> QED BY <1>1, <2>1 DEF DiscoInv, DiscoWaits, mapVars
  <1>4. NoId' /\ AtCommands' /\ AtVisits' /\ AtOutgoing'
    BY <1>1, <1>2 DEF DiscoInv, NoId, AtCommands, AtVisits, AtOutgoing
  <1>5. DiscoBeforeRemoval'
    <2> SUFFICES ASSUME st.pc = "outgoing", st.todo = {}, NEW id \in st.doomed
                 PROVE  m_peers[id] \in told \cup {None}
      BY <1>1, <1>2 DEF DiscoBeforeRemoval, mapVars
    <2>1. id # st.id
      BY <1>2, SendTyped DEF PeersInv
    <2> QED BY <2>1 DEF DiscoInv, AtOutgoing
  <1> QED BY <1>3, <1>4, <1>5 DEF DiscoInv

\* disconnect_peer queues the DISCO before it marks the peer.
LEMMA DisconnectKeepsDisco ==
    ASSUME PeersInv, EventInv, DiscoInv, DisconnectPeer
    PROVE  DiscoInv'
  <1>1. PICK id : id = Head(commands)
    OBVIOUS
  <1>2. /\ st.pc = "commands" /\ commands # << >> /\ getPeerNoEx("send", id)
        /\ m_outgoing_queue' = m_outgoing_queue \cup {id}
        /\ UNCHANGED <<mapVars, st, pending_disconnect, told>>
    BY <1>1 DEF DisconnectPeer
  <1>3. id \in Ids /\ "send" \in Helpers
    BY <1>1, <1>2, SeqElement DEF PeersInv, TypeOK, Helpers
  <1>4. helper'["send"] = m_peers[id]
    BY <1>2, <1>3, SendLookup
  <1>5. DiscoWaits'
    BY <1>2 DEF DiscoInv, DiscoWaits, mapVars
  <1>6. AtCommands'
    BY <1>2, <1>3, <1>4 DEF DiscoInv, AtCommands, EventInv, ObjectsNamed, mapVars
  <1>7. NoId' /\ AtVisits' /\ AtOutgoing' /\ DiscoBeforeRemoval'
    BY <1>2 DEF DiscoInv, NoId, AtVisits, AtOutgoing, DiscoBeforeRemoval
  <1> QED BY <1>5, <1>6, <1>7 DEF DiscoInv

LEMMA PendingKeepsDisco ==
    ASSUME PeersInv, DiscoInv, SetPendingDisconnect
    PROVE  DiscoInv'
  <1>1. /\ st.pc = "commands" /\ helper["send"] # None /\ helper'["send"] = None
        /\ pending_disconnect' = pending_disconnect \cup {helper["send"]}
        /\ UNCHANGED <<mapVars, st, m_outgoing_queue, told>>
    BY SendRelease DEF PeersInv, SetPendingDisconnect
  <1>2. DiscoWaits'
    BY <1>1 DEF DiscoInv, DiscoWaits, AtCommands, mapVars
  <1>3. NoId' /\ AtCommands' /\ AtVisits' /\ AtOutgoing' /\ DiscoBeforeRemoval'
    BY <1>1 DEF DiscoInv, NoId, AtCommands, AtVisits, AtOutgoing, DiscoBeforeRemoval
  <1> QED BY <1>2, <1>3 DEF DiscoInv

\* A DISCO leaves the queue in the hands of the send thread, or has no peer.
LEMMA TakeKeepsDisco ==
    ASSUME PeersInv, EventInv, DiscoInv, TakeOutgoing
    PROVE  DiscoInv'
  <1>1. PICK id \in st.todo :
        /\ getPeerNoEx("send", id)
        /\ st' = [st EXCEPT !.todo = @ \ {id},
                           !.id = IF helper'["send"] = None THEN None ELSE id]
        /\ m_outgoing_queue' = m_outgoing_queue \ {id}
    BY DEF TakeOutgoing
  <1>2. /\ st.pc = "outgoing" /\ helper["send"] = None
        /\ UNCHANGED <<mapVars, pending_disconnect, told>>
    BY DEF TakeOutgoing, SendFree
  <1>3. id \in Ids /\ "send" \in Helpers /\ st.id = None
    BY <1>2, SendTyped DEF PeersInv, Helpers, DiscoInv, NoId
  <1>4. helper'["send"] = m_peers[id]
    BY <1>1, <1>3, SendLookup
  <1>5. /\ st'.pc = "outgoing" /\ st'.doomed = st.doomed /\ st'.todo = st.todo \ {id}
        /\ st'.id = IF m_peers[id] = None THEN None ELSE id
    BY <1>1, <1>2, <1>4, SendTyped DEF PeersInv
  <1>6. DiscoWaits'
    <2> SUFFICES ASSUME NEW o \in pending_disconnect, o \notin told, m_peers[object[o].id] = o
                 PROVE  object[o].id \in m_outgoing_queue \ {id} \/ st'.id = object[o].id
      BY <1>1, <1>2, <1>5 DEF DiscoWaits, mapVars
    <2>1. o # None /\ object[o].id # None
      BY SendTyped DEF PeersInv, None
    <2>2. object[o].id \in m_outgoing_queue
      BY <1>3, <2>1 DEF DiscoInv, DiscoWaits
    <2> QED BY <1>5, <2>1, <2>2
  <1>7. AtOutgoing'
    <2> SUFFICES ASSUME NEW y \in st.doomed, m_peers[y] # None, m_peers[y] \notin told
                 PROVE  y \in st.todo \ {id} \/ y = st'.id
      BY <1>2, <1>5 DEF AtOutgoing, mapVars
    <2>1. y # None /\ y \in st.todo
      BY <1>2, <1>3, SendTyped DEF PeersInv, DiscoInv, AtOutgoing
    <2> QED BY <1>5, <2>1
  <1>8. NoId' /\ AtCommands' /\ AtVisits' /\ DiscoBeforeRemoval'
    BY <1>4, <1>5 DEF NoId, AtCommands, AtVisits, DiscoBeforeRemoval
  <1> QED BY <1>6, <1>7, <1>8 DEF DiscoInv

\* It goes back to the queue, and its peer is not removed yet.
LEMMA RequeueKeepsDisco ==
    ASSUME PeersInv, DiscoInv, RequeueOutgoing
    PROVE  DiscoInv'
  <1>1. /\ st.pc = "outgoing" /\ helper'["send"] = None
        /\ m_outgoing_queue' = m_outgoing_queue \cup {st.id}
        /\ UNCHANGED <<mapVars, pending_disconnect, told>>
    BY SendRelease DEF PeersInv, RequeueOutgoing
  <1>2. /\ st'.pc = "outgoing" /\ st'.doomed = st.doomed \ {st.id} /\ st'.id = None
        /\ st'.todo = st.todo
    BY <1>1, SendTyped DEF PeersInv, RequeueOutgoing, StillPending
  <1>3. DiscoWaits'
    BY <1>1 DEF DiscoInv, DiscoWaits, mapVars
  <1>4. AtOutgoing'
    BY <1>1, <1>2 DEF DiscoInv, AtOutgoing, mapVars
  <1>5. NoId' /\ AtCommands' /\ AtVisits' /\ DiscoBeforeRemoval'
    BY <1>2 DEF NoId, AtCommands, AtVisits, DiscoBeforeRemoval
  <1> QED BY <1>3, <1>4, <1>5 DEF DiscoInv

\* rawSendAsPacket sends it to the peer that has the id, if one has.
LEMMA SendKeepsDisco ==
    ASSUME PeersInv, EventInv, DiscoInv, SendOutgoing
    PROVE  DiscoInv'
  <1>1. /\ st.pc = "outgoing" /\ helper["send"] # None /\ st.id # None
        /\ getPeerNoEx("send inner", st.id)
        /\ st' = [st EXCEPT !.id = None]
        /\ told' = told \cup ({helper'["send inner"]} \ {None})
        /\ UNCHANGED <<mapVars, m_outgoing_queue, pending_disconnect>>
    BY DEF SendOutgoing
  <1>2. st.id \in Ids /\ "send inner" \in Helpers /\ "send" \in Helpers
    BY <1>1, SendTyped DEF PeersInv, Helpers
  <1>3. helper'["send inner"] = m_peers[st.id] /\ helper'["send"] = helper["send"]
    BY <1>1, <1>2, SendLookup
  <1>4. /\ st'.pc = "outgoing" /\ st'.doomed = st.doomed /\ st'.todo = st.todo /\ st'.id = None
    BY <1>1, SendTyped DEF PeersInv
  <1>5. DiscoWaits'
    <2> SUFFICES ASSUME NEW o \in pending_disconnect, o \notin told, m_peers[object[o].id] = o
                 PROVE  o \in told' \/ object[o].id \in m_outgoing_queue
      BY <1>1 DEF DiscoWaits, mapVars
    <2>1. o # None
      BY SendTyped DEF PeersInv, None
    <2> QED BY <1>1, <1>3, <2>1 DEF DiscoInv, DiscoWaits
  <1>6. AtOutgoing'
    <2> SUFFICES ASSUME NEW y \in st.doomed, m_peers[y] # None
                 PROVE  m_peers[y] \in told' \/ y \in st.todo
      BY <1>1, <1>4 DEF AtOutgoing, mapVars
    <2> QED BY <1>1, <1>3 DEF DiscoInv, AtOutgoing
  <1>7. NoId' /\ AtCommands' /\ AtVisits' /\ DiscoBeforeRemoval'
    BY <1>4 DEF NoId, AtCommands, AtVisits, DiscoBeforeRemoval
  <1> QED BY <1>5, <1>6, <1>7 DEF DiscoInv

LEMMA EndOutgoingKeepsDisco ==
    ASSUME DiscoInv, EndOutgoing
    PROVE  DiscoInv'
  <1>1. /\ UNCHANGED <<mapVars, st, m_outgoing_queue, pending_disconnect, told>>
        /\ st.pc = "outgoing" /\ st.id = None
    BY DEF EndOutgoing, sendVars
  <1> QED BY <1>1 DEF DiscoInv, DiscoWaits, NoId, AtCommands, AtVisits, AtOutgoing,
                      DiscoBeforeRemoval, mapVars

LEMMA DiscoInvNext ==
    ASSUME FreshIds, PeersInv, EventInv, DiscoInv, [Next]_vars
    PROVE  DiscoInv'
  <1>0. TypeOK /\ NamesPeers /\ st.doomed \subseteq Ids
        /\ st = [st EXCEPT !.doomed = st.doomed] /\ m_peers \in [Ids -> 0 .. created]
    BY SendTyped, PeersTyped DEF PeersInv
  \* What the threads do to m_peers beside the send thread's own steps.
  <1>1. ASSUME UNCHANGED <<mapVars, sendVars>>, helper'["send"] = helper["send"]
        PROVE  DiscoInv'
    BY <1>0, <1>1, LeavingKeepsDisco DEF mapVars, sendVars
  <1>2. CASE SendThread
    <2>1. CASE Visit
      BY <2>1, VisitKeepsDisco
    <2>2. CASE (\E timed_out \in BOOLEAN : CheckTimeout(timed_out)) \/ CheckDisconnect
      BY <2>2, CheckKeepsDisco
    <2>3. CASE EndVisits
      BY <2>3, EndVisitsKeepsDisco
    <2>4. CASE RemoveDoomed
      <3>1. PICK id \in st.doomed : Erase("send", id) /\ st' = [st EXCEPT !.doomed = @ \ {id}]
        BY <2>4 DEF RemoveDoomed
      <3>2. \A y \in Ids : m_peers'[y] \in {m_peers[y], None}
        BY <1>0, <3>1 DEF Erase
      <3>3. st' = [st EXCEPT !.doomed = st.doomed \ {id}] /\ st.doomed \ {id} \in SUBSET st.doomed
        BY <3>1
      <3>4. /\ UNCHANGED <<created, object, m_outgoing_queue, pending_disconnect, told>>
            /\ helper'["send"] = helper["send"]
        BY <2>4, <3>1 DEF RemoveDoomed, Erase, useVars
      <3> QED BY <1>0, <3>2, <3>3, <3>4, LeavingKeepsDisco
    <2>5. CASE EndRemovals \/ EndCommands \/ EndSendPackets
      BY <2>5, GoingKeepsDisco
    <2>6. CASE PutRemoved("send") \/ Drop("send")
      BY <1>1, <2>6 DEF PutRemoved, Drop, useVars
    <2>7. CASE DisconnectPeer
      BY <2>7, DisconnectKeepsDisco
    <2>8. CASE SetPendingDisconnect
      BY <2>8, PendingKeepsDisco
    <2>9. CASE TakeOutgoing
      BY <2>9, TakeKeepsDisco
    <2>10. CASE RequeueOutgoing
      BY <2>10, RequeueKeepsDisco
    <2>11. CASE SendOutgoing
      BY <2>11, SendKeepsDisco
    <2>12. CASE EndOutgoing
      BY <2>12, EndOutgoingKeepsDisco
    <2> QED BY <1>2, <2>1, <2>2, <2>3, <2>4, <2>5, <2>6, <2>7, <2>8, <2>9, <2>10, <2>11, <2>12
            DEF SendThread
  <1>3. CASE ~SendThread
    <2>0. helper'["send"] = helper["send"]
      BY <1>0, <1>3, HelperOfSend
    <2>1. CASE UNCHANGED vars
      BY <1>1, <2>0, <2>1 DEF vars
    <2>2. CASE Disco
      <3>1. /\ \A y \in Ids : m_peers'[y] \in {m_peers[y], None}
            /\ UNCHANGED <<created, object, sendVars>>
        BY <1>0, <2>2 DEF Disco, Erase
      <3> QED BY <1>0, <2>0, <3>1, LeavingKeepsDisco DEF sendVars
    <2>3. CASE \E address \in Addresses : createPeer(address)
      BY <1>0, <2>0, <2>3, CreateKeepsDisco
    <2>4. CASE \/ GetPeer \/ Refuse \/ processPacket \/ PutRemoved("receive") \/ Drop("receive")
               \/ EndProcessPacket \/ EndGetFromBuffers \/ Deliver \/ EndReceive
      <3>1. UNCHANGED <<mapVars, sendVars>>
        BY <2>4 DEF GetPeer, Refuse, processPacket, PutRemoved, Drop,
           EndProcessPacket, EndGetFromBuffers, Deliver, EndReceive
      <3> QED BY <1>1, <2>0, <3>1
    <2>5. CASE \/ Unbuffer \/ ServerThread
               \/ (\E address \in Addresses, what \in {"data", "DISCO"} : Arrive(address, what))
      <3>1. UNCHANGED <<mapVars, sendVars>>
        BY <2>5 DEF Unbuffer, ServerThread, Arrive, HandleEvent, GetPeerAddress,
           EndGetPeerAddress, Kick
      <3> QED BY <1>1, <2>0, <3>1
    <2> QED BY <1>3, <2>1, <2>2, <2>3, <2>4, <2>5 DEF Next, ReceiveWork, Network
  <1> QED BY <1>2, <1>3

LEMMA DiscoInvInit == Init => DiscoInv
  <1> SUFFICES ASSUME Init PROVE DiscoInv
    OBVIOUS
  <1>1. /\ pending_disconnect = {} /\ helper["send"] = None
        /\ st.pc = "timeouts" /\ st.id = None
    BY DEF Init, Helpers
  <1> QED BY <1>1 DEF DiscoInv, DiscoWaits, NoId, AtCommands, AtVisits, AtOutgoing,
                      DiscoBeforeRemoval

\* Whom sendPackets removes because the server disconnects it
\* (CONNCMD_DISCONNECT_PEER) has been sent its DISCO, although the packet
\* waits in another list than the peer, under an id that can lose its peer
\* meanwhile.
THEOREM DiscoIsSentFirst ==
    ASSUME FreshIds
    PROVE  Spec => []DiscoBeforeRemoval
  <1>1. Init => EventInv /\ DiscoInv
    BY EventInvInit, DiscoInvInit
  <1>2. PeersInv /\ EventInv /\ DiscoInv /\ [Next]_vars => EventInv' /\ DiscoInv'
    BY EventInvNext, DiscoInvNext
  <1>3. DiscoInv => DiscoBeforeRemoval
    BY DEF DiscoInv
  <1>4. Spec => []PeersInv
    BY AllInvariant DEF PeersInv
  <1> QED BY <1>1, <1>2, <1>3, <1>4, PTL DEF Spec
=============================================================================
