-------------------------- MODULE EmergeQueueProofs --------------------------
(***************************************************************************)
(* Theorems about EmergeQueue, for any positions, peers, limits, number of *)
(* threads and number of requests.                                         *)
(***************************************************************************)
EXTENDS EmergeQueue, FiniteSetTheorems, WellFoundedInduction, TLAPS

LEMMA SmallestOf ==
    ASSUME NEW S \in SUBSET Nat, S # {}
    PROVE  \E m \in S : \A n \in S : m <= n
<1> DEFINE R == OpToRel(<, Nat)
<1>1. IsWellFoundedOn(R, Nat)
  BY NatLessThanWellFounded
<1>2. \A m, n \in Nat : <<m, n>> \in R <=> m < n
  BY DEF OpToRel
<1> HIDE DEF R
<1>3. PICK m \in S : \A n \in S : ~ (<<n, m>> \in R)
  BY <1>1, WFMin
<1>4. ASSUME NEW n \in S
      PROVE  m <= n
  <2>1. m \in Nat /\ n \in Nat
    OBVIOUS
  <2>2. ~ (n < m)
    BY <1>2, <1>3, <2>1, Zenon
  <2> QED
    BY <2>1, <2>2
<1> QED
  BY <1>4

LEMMA LengthTypes ==
    ASSUME NEW S, NEW s \in Seq(S)
    PROVE  Len(s) \in Nat /\ DOMAIN s = 1 .. Len(s)
OBVIOUS

LEMMA HeadTailTypes ==
    ASSUME NEW S, NEW s \in Seq(S), s # << >>
    PROVE  /\ Head(s) \in S /\ Tail(s) \in Seq(S) /\ Head(s) = s[1]
           /\ Len(s) \in Nat \ {0} /\ Len(Tail(s)) = Len(s) - 1
           /\ \A i \in 1 .. Len(s) - 1 : Tail(s)[i] = s[i + 1]
OBVIOUS

LEMMA FirstOfSmallest ==
    ASSUME NEW T \in SUBSET Nat, T # {}, NEW f \in [T -> Nat]
    PROVE  \E t \in T : \A u \in T : f[t] < f[u] \/ (f[t] = f[u] /\ t <= u)
<1> DEFINE Values == {f[t] : t \in T}
<1>1. Values \in SUBSET Nat /\ Values # {}
  OBVIOUS
<1>2. PICK m \in Values : \A n \in Values : m <= n
  BY <1>1, SmallestOf
<1> DEFINE Best == {t \in T : f[t] = m}
<1>3. Best \in SUBSET Nat /\ Best # {}
  OBVIOUS
<1>4. PICK t \in Best : \A u \in Best : t <= u
  BY <1>3, SmallestOf
<1>5. ASSUME NEW u \in T
      PROVE  f[t] < f[u] \/ (f[t] = f[u] /\ t <= u)
  <2>1. f[t] = m /\ m <= f[u]
    BY <1>2, <1>4
  <2>2. f[u] = m => t <= u
    BY <1>4
  <2>3. f[u] \in Nat /\ m \in Nat /\ u \in Nat /\ t \in Nat
    BY <1>1
  <2> QED
    BY <2>1, <2>2, <2>3
<1> QED
  BY <1>4, <1>5

\* There is a thread with the shortest queue.
LEMMA OptimalThread ==
    ASSUME m_block_queue \in [Threads -> Seq(Positions)]
    PROVE  getOptimalThread(m_block_queue) \in Threads
<1> DEFINE f == [t \in Threads |-> Len(m_block_queue[t])]
<1>1. Threads \in SUBSET Nat /\ Threads # {}
  BY EmergeAssumption, SMTT(30) DEF Threads
<1>2. f \in [Threads -> Nat]
  BY LengthTypes
<1> HIDE DEF f
<1>3. \E t \in Threads : \A u \in Threads : f[t] < f[u] \/ (f[t] = f[u] /\ t <= u)
  BY <1>1, <1>2, FirstOfSmallest
<1> QED
  BY <1>3 DEF f, getOptimalThread

-----------------------------------------------------------------------------
(* The tables and the queues                                               *)

IsAsking(a) == asking[a] # NoRequest

Askable == [id : RequestIds, pos : Positions, peer : Requesters,
            flags : SUBSET Flags, callbacks : Seq(RequestIds)]

\* Where a thread may be.
Stages == {"not started", "loop", "pop", "wait", "work", "callbacks",
           "in callback", "exit", "cancel", "stopped"}

EmergeTypes ==
    /\ TypeOK
    /\ pc \in [Threads -> Stages]
    /\ DOMAIN asking = Actors
    /\ \A a \in Actors : IsAsking(a) => asking[a] \in Askable

\* Who asks has the environment lock, and so does a thread that is in a callback.
LockKept ==
    /\ \A a \in Actors : IsAsking(a) => m_env_mutex = a
    /\ \A t \in Threads : pc[t] = "in callback" => m_env_mutex = t

IsAt(p, t, i) ==
    t \in Threads /\ i \in 1 .. Len(m_block_queue[t]) /\ m_block_queue[t][i] = p

\* A position with an entry is at one place of the queues, one without at none.
QueuesMatch ==
    /\ \A p \in DOMAIN m_blocks_enqueued : \E t, i : IsAt(p, t, i)
    /\ \A p, t, i : IsAt(p, t, i) => p \in DOMAIN m_blocks_enqueued
    /\ \A p, t, i, u, j : IsAt(p, t, i) /\ IsAt(p, u, j) => t = u /\ i = j

\* A position is queued by a request of its own.
QueueLengths ==
    \A t \in Threads :
        /\ Len(m_block_queue[t]) <= requests
        /\ \A a \in Actors : IsAsking(a) => Len(m_block_queue[t]) < requests

PeersCounted ==
    /\ IsFiniteSet(DOMAIN m_blocks_enqueued)
    /\ \A peer \in Requesters :
          m_peer_queue_count[peer] = Cardinality(EntriesOf(peer))

QueueInv ==
    EmergeTypes /\ LockKept /\ QueuesMatch /\ QueueLengths /\ PeersCounted

\* The head of a queue has an entry.
LEMMA HeadHasEntry ==
    ASSUME QueueInv, NEW t \in Threads, m_block_queue[t] # << >>
    PROVE  /\ IsAt(Head(m_block_queue[t]), t, 1)
           /\ Head(m_block_queue[t]) \in DOMAIN m_blocks_enqueued
           /\ m_blocks_enqueued[Head(m_block_queue[t])] \in BlockEmergeData
<1>1. m_block_queue[t] \in Seq(Positions)
  BY DEF QueueInv, EmergeTypes, TypeOK
<1>2. IsAt(Head(m_block_queue[t]), t, 1)
  BY <1>1 DEF IsAt
<1>3. Head(m_block_queue[t]) \in DOMAIN m_blocks_enqueued
  BY <1>2 DEF QueueInv, QueuesMatch
<1> QED
  BY <1>2, <1>3 DEF QueueInv, EmergeTypes, TypeOK

LEMMA EntriesFinite ==
    ASSUME PeersCounted, NEW peer
    PROVE  IsFiniteSet(EntriesOf(peer)) /\ Cardinality(EntriesOf(peer)) \in Nat
BY FS_Subset, FS_CardinalityType DEF PeersCounted, EntriesOf

LEMMA MergedType ==
    ASSUME NEW old \in BlockEmergeData, NEW r \in Askable
    PROVE  LET new == MergedData(old, r.flags, r.callbacks) IN
           /\ new \in BlockEmergeData
           /\ new.flags = old.flags \cup r.flags
           /\ new.peer_requested = old.peer_requested
           /\ new.callbacks = old.callbacks \o r.callbacks
<1>1. r.flags \in SUBSET Flags /\ r.callbacks \in Seq(RequestIds)
  BY DEF Askable
<1>2. old.callbacks \in Seq(RequestIds) /\ old.flags \in SUBSET Flags
  BY DEF BlockEmergeData
<1>3. old.callbacks \o r.callbacks \in Seq(RequestIds)
  BY <1>1, <1>2
<1> QED
  BY <1>1, <1>2, <1>3 DEF MergedData, BlockEmergeData

LEMMA NewDataType ==
    ASSUME NEW r \in Askable
    PROVE  /\ NewData(r) \in BlockEmergeData
           /\ NewData(r).flags = r.flags /\ NewData(r).peer_requested = r.peer
           /\ NewData(r).callbacks = r.callbacks
BY DEF Askable, NewData, BlockEmergeData

\* Somebody joins an entry.
LEMMA JoinKeeps ==
    ASSUME QueueInv, NEW r \in Askable, r.pos \in DOMAIN m_blocks_enqueued,
           m_blocks_enqueued' = Joined(r),
           UNCHANGED <<m_peer_queue_count, m_block_queue>>
    PROVE  /\ DOMAIN m_blocks_enqueued' = DOMAIN m_blocks_enqueued
           /\ \A p \in DOMAIN m_blocks_enqueued :
                 m_blocks_enqueued'[p] =
                     IF p = r.pos THEN MergedData(m_blocks_enqueued[p], r.flags, r.callbacks)
                     ELSE m_blocks_enqueued[p]
           /\ \A p \in DOMAIN m_blocks_enqueued' : m_blocks_enqueued'[p] \in BlockEmergeData
           /\ QueuesMatch' /\ PeersCounted'
<1>1. /\ DOMAIN m_blocks_enqueued' = DOMAIN m_blocks_enqueued
      /\ \A p \in DOMAIN m_blocks_enqueued :
            m_blocks_enqueued'[p] =
                IF p = r.pos THEN MergedData(m_blocks_enqueued[p], r.flags, r.callbacks)
                ELSE m_blocks_enqueued[p]
  BY DEF Joined
<1>2. ASSUME NEW p \in DOMAIN m_blocks_enqueued
      PROVE  /\ m_blocks_enqueued'[p] \in BlockEmergeData
             /\ m_blocks_enqueued'[p].peer_requested = m_blocks_enqueued[p].peer_requested
  <2>1. m_blocks_enqueued[p] \in BlockEmergeData
    BY DEF QueueInv, EmergeTypes, TypeOK
  <2>2. CASE p = r.pos
    <3>1. m_blocks_enqueued'[p] = MergedData(m_blocks_enqueued[p], r.flags, r.callbacks)
      BY <1>1, <2>2
    <3> QED
      BY <2>1, <3>1, MergedType, ZenonT(30)
  <2> QED
    BY <1>1, <2>1, <2>2
<1>3. QueuesMatch'
  BY <1>1 DEF QueueInv, QueuesMatch, IsAt
<1>4. \A peer : EntriesOf(peer)' = EntriesOf(peer)
  BY <1>1, <1>2 DEF EntriesOf
<1>5. PeersCounted'
  BY <1>1, <1>4 DEF QueueInv, PeersCounted
<1> QED
  BY <1>1, <1>2, <1>3, <1>5

\* The place t, i is in the queues as they were, or is the new one.
LEMMA AddKeeps ==
    ASSUME QueueInv, NEW r \in Askable, r.pos \notin DOMAIN m_blocks_enqueued,
           NEW t \in Threads, m_blocks_enqueued' = Added(r),
           m_peer_queue_count' = Counted(r),
           m_block_queue' = [m_block_queue EXCEPT ![t] = Append(@, r.pos)]
    PROVE  /\ DOMAIN m_blocks_enqueued' = DOMAIN m_blocks_enqueued \cup {r.pos}
           /\ \A p \in DOMAIN m_blocks_enqueued' :
                 m_blocks_enqueued'[p] =
                     IF p = r.pos THEN NewData(r) ELSE m_blocks_enqueued[p]
           /\ \A p \in DOMAIN m_blocks_enqueued' : m_blocks_enqueued'[p] \in BlockEmergeData
           /\ m_peer_queue_count' \in [Requesters -> Nat]
           /\ m_block_queue' \in [Threads -> Seq(Positions)]
           /\ \A u \in Threads : Len(m_block_queue'[u]) <= Len(m_block_queue[u]) + 1
           /\ QueuesMatch' /\ PeersCounted'
<1>1. /\ DOMAIN m_blocks_enqueued' = DOMAIN m_blocks_enqueued \cup {r.pos}
      /\ \A p \in DOMAIN m_blocks_enqueued' :
            m_blocks_enqueued'[p] =
                IF p = r.pos THEN NewData(r) ELSE m_blocks_enqueued[p]
  BY DEF Added
<1>2. \A p \in DOMAIN m_blocks_enqueued' : m_blocks_enqueued'[p] \in BlockEmergeData
  BY <1>1, NewDataType DEF QueueInv, EmergeTypes, TypeOK
<1>3. r.pos \in Positions /\ r.peer \in Requesters
  BY DEF Askable
<1>4. m_block_queue \in [Threads -> Seq(Positions)]
  BY DEF QueueInv, EmergeTypes, TypeOK
<1>5. /\ m_block_queue' \in [Threads -> Seq(Positions)]
      /\ m_block_queue'[t] = Append(m_block_queue[t], r.pos)
      /\ \A u \in Threads \ {t} : m_block_queue'[u] = m_block_queue[u]
  BY <1>3, <1>4
<1>6. PICK n \in Nat : n = Len(m_block_queue[t])
  BY <1>4, LengthTypes
<1>7. /\ Len(m_block_queue'[t]) = n + 1 /\ m_block_queue'[t][n + 1] = r.pos
      /\ \A i \in 1 .. n : m_block_queue'[t][i] = m_block_queue[t][i]
  BY <1>3, <1>4, <1>5, <1>6
<1>8. \A p, u, i : IsAt(p, u, i)' <=>
          IsAt(p, u, i) \/ (p = r.pos /\ u = t /\ i = n + 1)
  <2> TAKE p, u, i
  <2>1. CASE u = t
    <3>1. i \in 1 .. n + 1 <=> i \in 1 .. n \/ i = n + 1
      BY <1>6
    <3>2. ~ (n + 1 \in 1 .. n)
      BY <1>6
    <3> QED
      BY <1>6, <1>7, <2>1, <3>1, <3>2 DEF IsAt
  <2>2. CASE u # t
    BY <1>5, <2>2 DEF IsAt
  <2> QED
    BY <2>1, <2>2
<1>9. QueuesMatch'
  <2>1. \A u, i : ~ IsAt(r.pos, u, i)
    BY DEF QueueInv, QueuesMatch
  <2>2. QueuesMatch
    BY DEF QueueInv
  <2>3. \A p \in DOMAIN m_blocks_enqueued' : \E u, i : IsAt(p, u, i)'
    BY <1>1, <1>8, <2>2 DEF QueuesMatch
  <2>4. \A p, u, i : IsAt(p, u, i)' => p \in DOMAIN m_blocks_enqueued'
    BY <1>1, <1>8, <2>2 DEF QueuesMatch
  <2>5. \A p, u, i, v, j : IsAt(p, u, i)' /\ IsAt(p, v, j)' => u = v /\ i = j
    BY <1>8, <2>1, <2>2 DEF QueuesMatch
  <2> QED
    BY <2>3, <2>4, <2>5 DEF QueuesMatch
<1>10. \A u \in Threads : Len(m_block_queue'[u]) <= Len(m_block_queue[u]) + 1
  <2> TAKE u \in Threads
  <2>1. Len(m_block_queue[u]) \in Nat
    BY <1>4, LengthTypes
  <2>2. CASE u = t
    BY <1>6, <1>7, <2>1, <2>2
  <2>3. CASE u # t
    BY <1>5, <2>1, <2>3
  <2> QED
    BY <2>2, <2>3
<1>11. PeersCounted
  BY DEF QueueInv
<1>12. ASSUME NEW peer \in Requesters
       PROVE  /\ m_peer_queue_count'[peer] = Cardinality(EntriesOf(peer)')
              /\ m_peer_queue_count'[peer] \in Nat
  <2>1. m_peer_queue_count[peer] = Cardinality(EntriesOf(peer))
    BY <1>11 DEF PeersCounted
  <2>2. IsFiniteSet(EntriesOf(peer)) /\ Cardinality(EntriesOf(peer)) \in Nat
    BY <1>11, EntriesFinite
  <2>3. DOMAIN m_peer_queue_count = Requesters
    BY DEF QueueInv, EmergeTypes, TypeOK
  <2>4. CASE peer = r.peer
    <3>1. EntriesOf(peer)' = EntriesOf(peer) \cup {r.pos} /\ r.pos \notin EntriesOf(peer)
      BY <1>1, <2>4, NewDataType DEF EntriesOf
    <3>2. Cardinality(EntriesOf(peer)') = Cardinality(EntriesOf(peer)) + 1
      BY <2>2, <3>1, FS_AddElement
    <3>3. m_peer_queue_count'[peer] = m_peer_queue_count[peer] + 1
      BY <2>3, <2>4 DEF Counted
    <3> QED
      BY <2>1, <2>2, <3>2, <3>3
  <2>5. CASE peer # r.peer
    <3>1. EntriesOf(peer)' = EntriesOf(peer)
      BY <1>1, <2>5, NewDataType DEF EntriesOf
    <3>2. m_peer_queue_count'[peer] = m_peer_queue_count[peer]
      BY <2>3, <2>5 DEF Counted
    <3> QED
      BY <2>1, <2>2, <3>1, <3>2
  <2> QED
    BY <2>4, <2>5
<1>13. m_peer_queue_count' \in [Requesters -> Nat]
  <2>1. /\ DOMAIN m_peer_queue_count' = Requesters
        /\ m_peer_queue_count' = [q \in DOMAIN m_peer_queue_count' |-> m_peer_queue_count'[q]]
    BY DEF QueueInv, EmergeTypes, TypeOK, Counted
  <2> QED
    BY <1>12, <2>1
<1>14. PeersCounted'
  <2>1. IsFiniteSet(DOMAIN m_blocks_enqueued')
    BY <1>1, <1>11, FS_AddElement DEF PeersCounted
  <2> QED
    BY <1>12, <2>1 DEF PeersCounted
<1> QED
  BY <1>1, <1>2, <1>5, <1>9, <1>10, <1>13, <1>14

\* A position leaves its queue and its entry goes with it.
LEMMA PopKeeps ==
    ASSUME QueueInv, NEW t \in Threads, m_block_queue[t] # << >>, PopFront(t)
    PROVE  LET pos == Head(m_block_queue[t]) IN
           /\ DOMAIN m_blocks_enqueued' = DOMAIN m_blocks_enqueued \ {pos}
           /\ \A p \in DOMAIN m_blocks_enqueued' :
                 /\ m_blocks_enqueued'[p] = m_blocks_enqueued[p]
                 /\ m_blocks_enqueued'[p] \in BlockEmergeData
           /\ m_peer_queue_count' \in [Requesters -> Nat]
           /\ m_block_queue' \in [Threads -> Seq(Positions)]
           /\ \A u \in Threads : Len(m_block_queue'[u]) <= Len(m_block_queue[u])
           /\ QueuesMatch' /\ PeersCounted'
<1> DEFINE pos == Head(m_block_queue[t])
<1>1. /\ DOMAIN m_blocks_enqueued' = DOMAIN m_blocks_enqueued \ {pos}
      /\ \A p \in DOMAIN m_blocks_enqueued' : m_blocks_enqueued'[p] = m_blocks_enqueued[p]
  BY DEF PopFront, popBlockEmergeData
<1>2. \A p \in DOMAIN m_blocks_enqueued' : m_blocks_enqueued'[p] \in BlockEmergeData
  BY <1>1 DEF QueueInv, EmergeTypes, TypeOK
<1>3. /\ IsAt(pos, t, 1) /\ pos \in DOMAIN m_blocks_enqueued
      /\ m_blocks_enqueued[pos] \in BlockEmergeData
  BY HeadHasEntry
<1>4. m_block_queue \in [Threads -> Seq(Positions)]
  BY DEF QueueInv, EmergeTypes, TypeOK
<1>5. /\ m_block_queue'[t] = Tail(m_block_queue[t])
      /\ Tail(m_block_queue[t]) \in Seq(Positions)
      /\ \A u \in Threads \ {t} : m_block_queue'[u] = m_block_queue[u]
      /\ DOMAIN m_block_queue' = Threads
  BY <1>4 DEF PopFront
<1>6. PICK n \in Nat : n + 1 = Len(m_block_queue[t])
  <2>1. Len(m_block_queue[t]) \in Nat /\ Len(m_block_queue[t]) # 0
    BY <1>4, LengthTypes
  <2>2. Len(m_block_queue[t]) - 1 \in Nat /\ (Len(m_block_queue[t]) - 1) + 1 = Len(m_block_queue[t])
    BY <2>1
  <2> QED
    BY <2>2
<1>7. /\ Len(m_block_queue'[t]) = n
      /\ \A i \in 1 .. n : m_block_queue'[t][i] = m_block_queue[t][i + 1]
  BY <1>4, <1>5, <1>6
<1> HIDE DEF pos
<1>8. m_block_queue' \in [Threads -> Seq(Positions)]
  <2>1. m_block_queue' = [u \in Threads |-> m_block_queue'[u]]
    BY <1>4, <1>5 DEF PopFront
  <2>2. \A u \in Threads : m_block_queue'[u] \in Seq(Positions)
    BY <1>4, <1>5
  <2> QED
    BY <2>1, <2>2
<1>9. \A p, u, i : IsAt(p, u, i)' =>
          IsAt(p, u, IF u = t THEN i + 1 ELSE i) /\ p # pos
  <2> SUFFICES ASSUME NEW p, NEW u, NEW i, IsAt(p, u, i)'
               PROVE  IsAt(p, u, IF u = t THEN i + 1 ELSE i) /\ p # pos
    OBVIOUS
  <2>1. CASE u = t
    <3>1. i \in 1 .. n
      BY <1>7, <2>1 DEF IsAt
    <3>2. i + 1 \in 1 .. n + 1 /\ i + 1 # 1
      BY <1>6, <3>1
    <3>3. IsAt(p, t, i + 1)
      BY <1>6, <1>7, <2>1, <3>1, <3>2 DEF IsAt
    <3> QED
      BY <1>3, <2>1, <3>2, <3>3 DEF QueueInv, QueuesMatch
  <2>2. CASE u # t
    <3>1. IsAt(p, u, i)
      BY <1>5, <2>2 DEF IsAt
    <3> QED
      BY <1>3, <2>2, <3>1 DEF QueueInv, QueuesMatch
  <2> QED
    BY <2>1, <2>2
<1>10. ASSUME NEW p, NEW u, NEW i, IsAt(p, u, i), p # pos
       PROVE  \E j : IsAt(p, u, j)'
  <2>1. CASE u = t
    <3>1. i \in 1 .. n + 1 /\ i # 1
      BY <1>3, <1>6, <1>10, <2>1 DEF IsAt
    <3>2. PICK j \in 1 .. n : j + 1 = i
      <4>1. i - 1 \in 1 .. n /\ (i - 1) + 1 = i
        BY <1>6, <3>1
      <4> QED
        BY <4>1
    <3> QED
      BY <1>7, <1>10, <2>1, <3>2 DEF IsAt
  <2>2. CASE u # t
    BY <1>5, <1>10, <2>2 DEF IsAt
  <2> QED
    BY <2>1, <2>2
<1>11. QueuesMatch'
  <2>2. QueuesMatch
    BY DEF QueueInv
  <2>3. \A p \in DOMAIN m_blocks_enqueued' : \E u, i : IsAt(p, u, i)'
    BY <1>1, <1>10, <2>2 DEF QueuesMatch
  <2>4. \A p, u, i : IsAt(p, u, i)' => p \in DOMAIN m_blocks_enqueued'
    BY <1>1, <1>9, <2>2 DEF QueuesMatch
  <2>5. ASSUME NEW p, NEW u, NEW i, NEW v, NEW j, IsAt(p, u, i)', IsAt(p, v, j)'
        PROVE  u = v /\ i = j
    <3>1. u = v /\ (IF u = t THEN i + 1 ELSE i) = (IF v = t THEN j + 1 ELSE j)
      BY <1>9, <2>2, <2>5 DEF QueuesMatch
    <3>2. i \in Nat /\ j \in Nat
      BY <1>8, <2>5, LengthTypes DEF IsAt
    <3> QED
      BY <3>1, <3>2
  <2> QED
    BY <2>3, <2>4, <2>5 DEF QueuesMatch
<1>12. \A u \in Threads : Len(m_block_queue'[u]) <= Len(m_block_queue[u])
  <2> TAKE u \in Threads
  <2>1. Len(m_block_queue[u]) \in Nat
    BY <1>4, LengthTypes
  <2>2. CASE u = t
    BY <1>6, <1>7, <2>1, <2>2
  <2>3. CASE u # t
    BY <1>5, <2>1, <2>3
  <2> QED
    BY <2>2, <2>3
<1>13. PeersCounted
  BY DEF QueueInv
<1>14. ASSUME NEW peer \in Requesters
       PROVE  /\ m_peer_queue_count'[peer] = Cardinality(EntriesOf(peer)')
              /\ m_peer_queue_count'[peer] \in Nat
  <2>1. m_peer_queue_count[peer] = Cardinality(EntriesOf(peer))
    BY <1>13 DEF PeersCounted
  <2>2. IsFiniteSet(EntriesOf(peer)) /\ Cardinality(EntriesOf(peer)) \in Nat
    BY <1>13, EntriesFinite
  <2>3. DOMAIN m_peer_queue_count = Requesters
    BY DEF QueueInv, EmergeTypes, TypeOK
  <2>4. CASE peer = m_blocks_enqueued[pos].peer_requested
    <3>1. EntriesOf(peer)' = EntriesOf(peer) \ {pos} /\ pos \in EntriesOf(peer)
      BY <1>1, <1>3, <2>4 DEF EntriesOf
    <3>2. /\ Cardinality(EntriesOf(peer)') = Cardinality(EntriesOf(peer)) - 1
          /\ Cardinality(EntriesOf(peer)') \in Nat
      BY <2>2, <3>1, FS_RemoveElement, FS_CardinalityType
    <3>3. m_peer_queue_count'[peer] = m_peer_queue_count[peer] - 1
      BY <2>3, <2>4 DEF PopFront, popBlockEmergeData, pos
    <3> QED
      BY <2>1, <2>2, <3>2, <3>3
  <2>5. CASE peer # m_blocks_enqueued[pos].peer_requested
    <3>1. EntriesOf(peer)' = EntriesOf(peer)
      BY <1>1, <2>5 DEF EntriesOf
    <3>2. m_peer_queue_count'[peer] = m_peer_queue_count[peer]
      BY <2>3, <2>5 DEF PopFront, popBlockEmergeData, pos
    <3> QED
      BY <2>1, <2>2, <3>1, <3>2
  <2> QED
    BY <2>4, <2>5
<1>15. m_peer_queue_count' \in [Requesters -> Nat]
  <2>1. /\ DOMAIN m_peer_queue_count' = Requesters
        /\ m_peer_queue_count' = [q \in DOMAIN m_peer_queue_count' |-> m_peer_queue_count'[q]]
    BY DEF QueueInv, EmergeTypes, TypeOK, PopFront, popBlockEmergeData
  <2> QED
    BY <1>14, <2>1
<1>16. PeersCounted'
  <2>1. IsFiniteSet(DOMAIN m_blocks_enqueued')
    BY <1>1, <1>13, FS_Subset DEF PeersCounted
  <2> QED
    BY <1>14, <2>1 DEF PeersCounted
<1> QED
  BY <1>1, <1>2, <1>8, <1>11, <1>12, <1>15, <1>16 DEF pos

-----------------------------------------------------------------------------
(* Every step keeps the types                                              *)

LEMMA RequestType ==
    ASSUME EmergeTypes, requests < NumRequests, NEW pos \in Positions,
           NEW peer \in Requesters, NEW flags \in SUBSET Flags,
           NEW calls \in {<< >>, <<requests + 1>>}
    PROVE  Request(peer, pos, flags, calls) \in Askable
<1>1. requests + 1 \in RequestIds
  BY EmergeAssumption DEF EmergeTypes, TypeOK, RequestIds
<1>2. calls \in Seq(RequestIds)
  <2>1. << >> \in Seq(RequestIds)
    OBVIOUS
  <2>2. <<requests + 1>> \in Seq(RequestIds)
    BY <1>1
  <2> QED
    BY <2>1, <2>2
<1> QED
  BY <1>1, <1>2 DEF Request, Askable

\* What is asked for, and by whom.
LEMMA AskEffect ==
    ASSUME EmergeTypes, NEW a \in Actors, NEW r \in Askable, Ask(a, r)
    PROVE  /\ m_env_mutex = a /\ ~ IsAsking(a)
           /\ requests \in Nat /\ requests' = requests + 1
           /\ requests' \in 0 .. NumRequests
           /\ DOMAIN asking' = Actors /\ asking'[a] = r
           /\ \A b \in Actors \ {a} : asking'[b] = asking[b]
           /\ UNCHANGED <<queueVars, threadVars, mainVars, signalling, history,
                          m_queue_mutex, m_env_mutex>>
BY EmergeAssumption DEF Ask, EmergeTypes, TypeOK, IsAsking

\* AskFromCallback and AskFromStep, in one.
LEMMA AnAsk ==
    ASSUME EmergeTypes,
           AskFromStep \/ \E t \in Threads : AskFromCallback(t)
    PROVE  \E a \in Actors : \E r \in Askable :
               /\ Ask(a, r) /\ r.callbacks \in {<< >>, <<requests + 1>>}
<1>1. CASE AskFromStep
  <2>1. PICK pos \in Positions : \E r \in Requested(pos) : Ask(ServerThread, r)
    BY <1>1 DEF AskFromStep
  <2>2. PICK r \in Requested(pos) : Ask(ServerThread, r)
    BY <2>1
  <2>3. requests < NumRequests /\ ServerThread \in Actors
    BY <2>2 DEF Ask, Actors
  <2>4. PICK peer \in Requesters, flags \in SUBSET Flags, calls \in {<< >>, <<requests + 1>>} :
            r = Request(peer, pos, flags, calls)
    BY <2>2 DEF Requested, Requesters, Flags
  <2>5. r \in Askable /\ r.callbacks = calls
    BY <2>3, <2>4, RequestType DEF Request
  <2> QED
    BY <2>2, <2>3, <2>5
<1>2. ASSUME NEW t \in Threads, AskFromCallback(t)
      PROVE  \E a \in Actors : \E r \in Askable :
               /\ Ask(a, r) /\ r.callbacks \in {<< >>, <<requests + 1>>}
  <2>1. PICK pos \in Positions :
            Ask(t, Request(PEER_ID_INEXISTENT, pos, Flags, <<requests + 1>>))
    BY <1>2 DEF AskFromCallback
  <2>2. requests < NumRequests /\ t \in Actors
    BY <2>1 DEF Ask, Actors
  <2>3. /\ Request(PEER_ID_INEXISTENT, pos, Flags, <<requests + 1>>) \in Askable
        /\ Request(PEER_ID_INEXISTENT, pos, Flags, <<requests + 1>>).callbacks = <<requests + 1>>
    BY <2>2, RequestType DEF Request, Requesters
  <2> QED
    BY <2>1, <2>2, <2>3
<1> QED
  BY <1>1, <1>2

\* What enqueueBlockEmergeEx may do to the tables.
LEMMA EnqueueEffect ==
    ASSUME QueueInv, NEW a \in Actors, Enqueue(a)
    PROVE  /\ \A p \in DOMAIN m_blocks_enqueued' : m_blocks_enqueued'[p] \in BlockEmergeData
           /\ DOMAIN m_blocks_enqueued' \subseteq Positions
           /\ m_peer_queue_count' \in [Requesters -> Nat]
           /\ m_block_queue' \in [Threads -> Seq(Positions)]
           /\ \A u \in Threads : Len(m_block_queue'[u]) <= Len(m_block_queue[u]) + 1
           /\ signalling' \in [Actors -> Threads \cup {None}]
           /\ DOMAIN asking' = Actors /\ asking'[a] = NoRequest
           /\ \A b \in Actors \ {a} : asking'[b] = asking[b]
           /\ accepted' \subseteq RequestIds /\ wanted' \subseteq Positions
           /\ QueuesMatch' /\ PeersCounted'
<1> DEFINE r == asking[a]
<1>1. IsAsking(a) /\ r \in Askable
  BY DEF Enqueue, IsAsking, QueueInv, EmergeTypes
<1>2. /\ r.pos \in Positions /\ r.flags \in SUBSET Flags
      /\ r.callbacks \in Seq(RequestIds)
  BY <1>1 DEF Askable
<1>3. EmergeTypes /\ TypeOK /\ QueuesMatch /\ PeersCounted
  BY DEF QueueInv, EmergeTypes
<1>4. /\ DOMAIN asking' = Actors /\ asking'[a] = NoRequest
      /\ \A b \in Actors \ {a} : asking'[b] = asking[b]
  BY <1>3 DEF Enqueue, EmergeTypes
<1>5. accepted' \subseteq RequestIds /\ wanted' \subseteq Positions
  <2>1. {r.callbacks[i] : i \in DOMAIN r.callbacks} \subseteq RequestIds
    BY <1>2
  <2>2. accepted \subseteq RequestIds /\ wanted \subseteq Positions
    BY <1>3 DEF TypeOK
  <2> HIDE DEF r
  <2>3. accepted' \in {accepted, accepted \cup {r.callbacks[i] : i \in DOMAIN r.callbacks}}
    BY DEF Enqueue, r
  <2>4. wanted' \in {wanted, wanted \cup {r.pos}}
    BY DEF Enqueue, r
  <2> QED
    BY <1>2, <2>1, <2>2, <2>3, <2>4
<1>6. \A u \in Threads : Len(m_block_queue[u]) \in Nat
  BY <1>3, LengthTypes DEF TypeOK
<1>7. CASE UNCHANGED <<queueVars, signalling>>
  <2>1. QueuesMatch' /\ PeersCounted'
    BY <1>3, <1>7 DEF queueVars, QueuesMatch, IsAt, PeersCounted, EntriesOf
  <2> QED
    BY <1>3, <1>4, <1>5, <1>6, <1>7, <2>1 DEF queueVars, TypeOK
<1>8. CASE r.pos \in DOMAIN m_blocks_enqueued /\ Push(a, r)
  <2>1. /\ m_blocks_enqueued' = Joined(r)
        /\ UNCHANGED <<m_peer_queue_count, m_block_queue>> /\ UNCHANGED signalling
    BY <1>8 DEF Push
  <2>2. /\ DOMAIN m_blocks_enqueued' = DOMAIN m_blocks_enqueued
        /\ \A p \in DOMAIN m_blocks_enqueued' : m_blocks_enqueued'[p] \in BlockEmergeData
        /\ QueuesMatch' /\ PeersCounted'
    BY <1>1, <1>8, <2>1, JoinKeeps
  <2> QED
    BY <1>3, <1>4, <1>5, <1>6, <2>1, <2>2 DEF TypeOK
<1>9. CASE r.pos \notin DOMAIN m_blocks_enqueued /\ Push(a, r)
  <2>1. PICK t \in Threads :
            /\ m_blocks_enqueued' = Added(r) /\ m_peer_queue_count' = Counted(r)
            /\ m_block_queue' = [m_block_queue EXCEPT ![t] = Append(@, r.pos)]
            /\ signalling' = [signalling EXCEPT ![a] = t]
    BY <1>3, <1>9, OptimalThread DEF Push, TypeOK
  <2>2. /\ DOMAIN m_blocks_enqueued' = DOMAIN m_blocks_enqueued \cup {r.pos}
        /\ \A p \in DOMAIN m_blocks_enqueued' : m_blocks_enqueued'[p] \in BlockEmergeData
        /\ m_peer_queue_count' \in [Requesters -> Nat]
        /\ m_block_queue' \in [Threads -> Seq(Positions)]
        /\ \A u \in Threads : Len(m_block_queue'[u]) <= Len(m_block_queue[u]) + 1
        /\ QueuesMatch' /\ PeersCounted'
    BY <1>1, <1>9, <2>1, AddKeeps
  <2>3. signalling' \in [Actors -> Threads \cup {None}]
    BY <1>3, <2>1 DEF TypeOK
  <2>4. DOMAIN m_blocks_enqueued' \subseteq Positions
    BY <1>2, <1>3, <2>2 DEF TypeOK
  <2> QED
    BY <1>4, <1>5, <2>2, <2>3, <2>4
<1> QED
  BY <1>7, <1>8, <1>9 DEF Enqueue

LEMMA TypesStep ==
    ASSUME QueueInv, [Next]_vars
    PROVE  EmergeTypes'
<1>1. EmergeTypes /\ TypeOK
  BY DEF QueueInv, EmergeTypes
<1>2. NoData \in BlockEmergeData
  BY DEF NoData, BlockEmergeData, Requesters
<1>3. CASE UNCHANGED vars
  BY <1>1, <1>3 DEF EmergeTypes, TypeOK, vars, queueVars, threadVars, mainVars,
     callVars, history, IsAsking
<1>4. CASE StartThreads
  <2>1. [t \in Threads |-> "loop"] \in [Threads -> Stages]
    BY DEF Stages
  <2> QED
    BY <1>1, <1>4, <2>1 DEF StartThreads, EmergeTypes, TypeOK, queueVars, threadVars,
       callVars, history, IsAsking
<1>5. CASE LockEnvironment \/ UnlockEnvironment \/ JoinThreads
  BY <1>1, <1>5 DEF LockEnvironment, UnlockEnvironment, JoinThreads, Actors, EmergeTypes,
     TypeOK, queueVars, threadVars, callVars, history, IsAsking
<1>6. ASSUME NEW t \in Threads, StopThread(t)
      PROVE  EmergeTypes'
  <2>1. /\ m_request_stop' \in [Threads -> BOOLEAN]
        /\ signalling' \in [Actors -> Threads \cup {None}]
    BY <1>1, <1>6 DEF StopThread, TypeOK
  <2> QED
    BY <1>1, <1>6, <2>1 DEF StopThread, EmergeTypes, TypeOK, queueVars, history, IsAsking
<1>7. ASSUME NEW a \in Actors, Enqueue(a)
      PROVE  EmergeTypes'
  BY <1>1, <1>7, EnqueueEffect DEF Enqueue, EmergeTypes, TypeOK, threadVars, mainVars, IsAsking
<1>8. ASSUME NEW a \in Actors, Signal(a)
      PROVE  EmergeTypes'
  <2>1. signalling[a] \in Threads
    BY <1>1, <1>8 DEF Signal, TypeOK
  <2>2. /\ m_queue_event' \in [Threads -> BOOLEAN]
        /\ signalling' \in [Actors -> Threads \cup {None}]
    BY <1>1, <1>8, <2>1 DEF Signal, TypeOK
  <2> QED
    BY <1>1, <1>8, <2>2 DEF Signal, EmergeTypes, TypeOK, queueVars, history, IsAsking
<1>9. CASE AskFromStep \/ \E t \in Threads : AskFromCallback(t)
  <2>1. PICK a \in Actors, r \in Askable : Ask(a, r)
    BY <1>1, <1>9, AnAsk
  <2> QED
    BY <1>1, <2>1, AskEffect DEF EmergeTypes, TypeOK, queueVars, threadVars, history, IsAsking
<1>10. ASSUME NEW t \in Threads, PopBlock(t) \/ CancelNext(t)
       PROVE  EmergeTypes'
  <2> DEFINE p == Head(m_block_queue[t])
  <2>1. PopFront(t) /\ m_block_queue[t] # << >>
    BY <1>10 DEF PopBlock, CancelNext
  <2>2. m_blocks_enqueued[p] \in BlockEmergeData
    BY <2>1, HeadHasEntry
  <2>3. /\ DOMAIN m_blocks_enqueued' \subseteq Positions
        /\ \A q \in DOMAIN m_blocks_enqueued' : m_blocks_enqueued'[q] \in BlockEmergeData
        /\ m_peer_queue_count' \in [Requesters -> Nat]
        /\ m_block_queue' \in [Threads -> Seq(Positions)]
    BY <1>1, <2>1, PopKeeps DEF TypeOK
  <2> HIDE DEF p
  <2>4. bedata' \in {bedata, [bedata EXCEPT ![t] = m_blocks_enqueued[p]]}
    BY <1>10 DEF PopBlock, CancelNext, p
  <2>5. bedata' \in [Threads -> BlockEmergeData]
    BY <1>1, <2>2, <2>4 DEF TypeOK
  <2>6. wanted' \in {wanted, wanted \ {p}}
    BY <1>10 DEF PopBlock, CancelNext, p
  <2>7. \E where \in {"loop", "work", "callbacks"} : Go(t, where)
    BY <1>10 DEF PopBlock, CancelNext
  <2>8. pc' \in [Threads -> Stages]
    BY <1>1, <2>7 DEF Go, EmergeTypes, Stages
  <2>9. UNCHANGED <<m_queue_event, m_request_stop, mainVars, callVars, accepted, called,
                    m_queue_mutex, m_env_mutex>>
    BY <1>10 DEF PopBlock, CancelNext
  <2> QED
    BY <1>1, <2>3, <2>5, <2>6, <2>8, <2>9 DEF EmergeTypes, TypeOK, callVars, IsAsking
<1>11. ASSUME NEW t \in Threads, CallBack(t)
       PROVE  EmergeTypes'
  <2>1. bedata[t] \in BlockEmergeData /\ bedata[t].callbacks \in Seq(RequestIds)
    BY <1>1 DEF TypeOK, BlockEmergeData
  <2>2. /\ Head(bedata[t].callbacks) \in RequestIds
        /\ Tail(bedata[t].callbacks) \in Seq(RequestIds)
    <3>1. bedata[t].callbacks # << >>
      BY <1>11 DEF CallBack
    <3> QED
      BY <2>1, <3>1, HeadTailTypes
  <2>3. [bedata[t] EXCEPT !.callbacks = Tail(@)] \in BlockEmergeData
    BY <2>1, <2>2 DEF BlockEmergeData
  <2>4. bedata' = [bedata EXCEPT ![t] = [bedata[t] EXCEPT !.callbacks = Tail(@)]]
    BY <1>1, <1>11 DEF CallBack, TypeOK
  <2>5. bedata' \in [Threads -> BlockEmergeData]
    BY <1>1, <2>3, <2>4 DEF TypeOK
  <2>6. called' \in [RequestIds -> Nat]
    <3>1. PICK c \in RequestIds : c = Head(bedata[t].callbacks)
      BY <2>2
    <3>2. called' = [called EXCEPT ![c] = @ + 1]
      BY <1>11, <3>1 DEF CallBack
    <3> QED
      BY <1>1, <3>2 DEF TypeOK
  <2>7. pc' \in [Threads -> Stages] /\ m_env_mutex' \in Actors
    BY <1>1, <1>11 DEF CallBack, Go, EmergeTypes, Stages, Actors
  <2> QED
    BY <1>1, <1>11, <2>5, <2>6, <2>7 DEF CallBack, EmergeTypes, TypeOK, queueVars,
       callVars, IsAsking
<1>12. ASSUME NEW t \in Threads,
              \/ EnterLoop(t) \/ LeaveLoop(t) \/ FindEmpty(t) \/ WakeUp(t) \/ Emerge(t)
              \/ EmergeThrows(t) \/ ReturnFromCallback(t) \/ EndCallbacks(t)
              \/ BeginCancel(t) \/ EndCancel(t)
       PROVE  EmergeTypes'
  <2>1. \E where \in Stages : Go(t, where)
    BY <1>12 DEF EnterLoop, LeaveLoop, FindEmpty, WakeUp, Emerge, EmergeThrows,
       ReturnFromCallback, EndCallbacks, BeginCancel, EndCancel, Stages
  <2>2. pc' \in [Threads -> Stages]
    BY <1>1, <2>1 DEF Go, EmergeTypes
  <2>3. bedata' \in {bedata, [bedata EXCEPT ![t] = NoData]}
    BY <1>12 DEF EnterLoop, LeaveLoop, FindEmpty, WakeUp, Emerge, EmergeThrows,
       ReturnFromCallback, EndCallbacks, BeginCancel, EndCancel
  <2>4. bedata' \in [Threads -> BlockEmergeData]
    BY <1>1, <1>2, <2>3 DEF TypeOK
  <2>5. m_queue_event' \in {m_queue_event, [m_queue_event EXCEPT ![t] = FALSE]}
    BY <1>12 DEF EnterLoop, LeaveLoop, FindEmpty, WakeUp, Emerge, EmergeThrows,
       ReturnFromCallback, EndCallbacks, BeginCancel, EndCancel
  <2>6. m_queue_event' \in [Threads -> BOOLEAN]
    BY <1>1, <2>5 DEF TypeOK
  <2>7. m_queue_mutex' \in {m_queue_mutex, t, None} /\ m_env_mutex' \in {m_env_mutex, None}
    BY <1>12 DEF EnterLoop, LeaveLoop, FindEmpty, WakeUp, Emerge, EmergeThrows,
       ReturnFromCallback, EndCallbacks, BeginCancel, EndCancel
  <2>8. UNCHANGED <<queueVars, m_request_stop, callVars, history>>
    BY <1>12 DEF EnterLoop, LeaveLoop, FindEmpty, WakeUp, Emerge, EmergeThrows,
       ReturnFromCallback, EndCallbacks, BeginCancel, EndCancel
  <2> QED
    BY <1>1, <2>2, <2>4, <2>6, <2>7, <2>8 DEF EmergeTypes, TypeOK, queueVars, callVars,
       history, IsAsking
<1>13. Threads \subseteq Actors /\ ServerThread \in Actors
  BY DEF Actors
<1> QED
  BY <1>3, <1>4, <1>5, <1>6, <1>7, <1>8, <1>9, <1>10, <1>11, <1>12, <1>13
     DEF Next, Main, Thread, Terminated

\* What only EnqueueEffect and AskEffect say more of: a step asks nothing, or makes
\* a request, or is done with one.
LEMMA WhoAsks ==
    ASSUME QueueInv, [Next]_vars
    PROVE  \/ UNCHANGED <<asking, requests>>
           \/ \E a \in Actors : Enqueue(a)
           \/ \E a \in Actors : \E r \in Askable :
                  Ask(a, r) /\ r.callbacks \in {<< >>, <<requests + 1>>}
<1>1. EmergeTypes
  BY DEF QueueInv
<1>2. CASE AskFromStep \/ \E t \in Threads : AskFromCallback(t)
  BY <1>1, <1>2, AnAsk
<1>3. Threads \subseteq Actors /\ ServerThread \in Actors
  BY DEF Actors
<1>4. CASE UNCHANGED vars \/ Main
  BY <1>2, <1>3, <1>4 DEF vars, callVars, Main, StartThreads, LockEnvironment,
     UnlockEnvironment, Signal, StopThread, JoinThreads
<1>5. ASSUME NEW t \in Threads, Thread(t)
      PROVE  \/ UNCHANGED <<asking, requests>> \/ Enqueue(t) \/ AskFromCallback(t)
  BY <1>5 DEF Thread, EnterLoop, LeaveLoop, PopBlock, FindEmpty, WakeUp, Emerge,
     EmergeThrows, CallBack, ReturnFromCallback, EndCallbacks, BeginCancel, CancelNext,
     EndCancel, Signal, callVars
<1> QED
  BY <1>2, <1>3, <1>4, <1>5 DEF Next, Terminated

LEMMA LockKeptStep ==
    ASSUME QueueInv, [Next]_vars
    PROVE  LockKept'
<1>1. EmergeTypes /\ TypeOK /\ LockKept
  BY DEF QueueInv, EmergeTypes
<1>2. /\ Threads \subseteq Actors /\ ServerThread \in Actors /\ ServerThread \notin Threads
      /\ None \notin Actors
  BY EmergeAssumption DEF Actors, Threads, ServerThread, None
<1>3. ASSUME \A a \in Actors : IsAsking(a)' => IsAsking(a),
             \A t \in Threads : pc'[t] = "in callback" => pc[t] = "in callback",
             \/ m_env_mutex' = m_env_mutex
             \/ /\ \A a \in Actors : ~ IsAsking(a)
                /\ \A t \in Threads : pc'[t] # "in callback"
      PROVE  LockKept'
  BY <1>1, <1>3 DEF LockKept
<1>4. CASE UNCHANGED vars
  BY <1>1, <1>4 DEF vars, threadVars, callVars, LockKept, IsAsking
<1>5. CASE StartThreads
  <2>1. \A t \in Threads : pc'[t] # "in callback"
    BY <1>5 DEF StartThreads
  <2> QED
    BY <1>3, <1>5, <2>1 DEF StartThreads, callVars, IsAsking
<1>6. CASE JoinThreads \/ \E t \in Threads : StopThread(t)
  BY <1>3, <1>6 DEF JoinThreads, StopThread, callVars, threadVars, IsAsking
<1>7. CASE LockEnvironment
  <2>1. m_env_mutex = None
    BY <1>7 DEF LockEnvironment
  <2>2. /\ \A a \in Actors : ~ IsAsking(a)
        /\ \A t \in Threads : pc[t] # "in callback"
    BY <1>1, <1>2, <2>1 DEF LockKept
  <2> QED
    BY <1>3, <1>7, <2>2 DEF LockEnvironment, callVars, threadVars, IsAsking
<1>8. CASE UnlockEnvironment
  <2>1. m_env_mutex = ServerThread /\ ~ IsAsking(ServerThread)
    BY <1>8 DEF UnlockEnvironment, IsAsking
  <2>2. /\ \A a \in Actors : ~ IsAsking(a)
        /\ \A t \in Threads : pc[t] # "in callback"
    BY <1>1, <1>2, <2>1 DEF LockKept
  <2> QED
    BY <1>3, <1>8, <2>2 DEF UnlockEnvironment, callVars, threadVars, IsAsking
<1>9. ASSUME NEW a \in Actors, Enqueue(a)
      PROVE  LockKept'
  <2>1. asking'[a] = NoRequest /\ \A b \in Actors \ {a} : asking'[b] = asking[b]
    BY <1>9, EnqueueEffect
  <2> QED
    BY <1>3, <1>9, <2>1 DEF Enqueue, threadVars, IsAsking
<1>10. ASSUME NEW a \in Actors, Signal(a)
       PROVE  LockKept'
  BY <1>3, <1>10 DEF Signal, IsAsking
<1>11. CASE AskFromStep \/ \E t \in Threads : AskFromCallback(t)
  <2>1. PICK a \in Actors, r \in Askable : Ask(a, r)
    BY <1>1, <1>11, AnAsk
  <2> QED
    BY <1>1, <2>1, AskEffect DEF LockKept, threadVars, IsAsking
<1>12. ASSUME NEW t \in Threads, CallBack(t)
       PROVE  LockKept'
  <2>1. m_env_mutex = None /\ m_env_mutex' = t
    BY <1>12 DEF CallBack
  <2>2. /\ \A a \in Actors : ~ IsAsking(a)
        /\ \A u \in Threads : pc[u] # "in callback"
    BY <1>1, <1>2, <2>1 DEF LockKept
  <2> QED
    BY <1>1, <1>12, <2>1, <2>2 DEF LockKept, CallBack, Go, callVars, IsAsking, EmergeTypes
<1>13. ASSUME NEW t \in Threads, ReturnFromCallback(t)
       PROVE  LockKept'
  <2>1. pc[t] = "in callback" /\ ~ IsAsking(t) /\ m_env_mutex = t
    BY <1>1, <1>13 DEF ReturnFromCallback, IsAsking, LockKept
  <2>2. /\ \A a \in Actors : ~ IsAsking(a)
        /\ \A u \in Threads \ {t} : pc[u] # "in callback"
    BY <1>1, <1>2, <2>1 DEF LockKept
  <2>3. \A u \in Threads : pc'[u] # "in callback"
    BY <1>1, <1>13, <2>2 DEF ReturnFromCallback, Go, EmergeTypes
  <2> QED
    BY <1>3, <1>13, <2>2, <2>3 DEF ReturnFromCallback, callVars, IsAsking
<1>14. ASSUME NEW t \in Threads,
              \/ EnterLoop(t) \/ LeaveLoop(t) \/ PopBlock(t) \/ FindEmpty(t) \/ WakeUp(t)
              \/ Emerge(t) \/ EmergeThrows(t) \/ EndCallbacks(t)
              \/ BeginCancel(t) \/ CancelNext(t) \/ EndCancel(t)
       PROVE  LockKept'
  <2>1. \E where \in Stages \ {"in callback"} : Go(t, where)
    BY <1>14 DEF EnterLoop, LeaveLoop, PopBlock, FindEmpty, WakeUp, Emerge, EmergeThrows,
       EndCallbacks, BeginCancel, CancelNext, EndCancel, Stages
  <2>2. \A u \in Threads : pc'[u] = "in callback" => pc[u] = "in callback"
    BY <1>1, <2>1 DEF Go, EmergeTypes
  <2>3. UNCHANGED <<callVars, m_env_mutex>>
    BY <1>14 DEF EnterLoop, LeaveLoop, PopBlock, FindEmpty, WakeUp, Emerge, EmergeThrows,
       EndCallbacks, BeginCancel, CancelNext, EndCancel
  <2> QED
    BY <1>3, <2>2, <2>3 DEF callVars, IsAsking
<1> QED
  BY <1>2, <1>4, <1>5, <1>6, <1>7, <1>8, <1>9, <1>10, <1>11, <1>12, <1>13, <1>14
     DEF Next, Main, Thread, Terminated

\* What each step does to the tables and the queues.
LEMMA WhoTouchesTables ==
    ASSUME [Next]_vars
    PROVE  \/ UNCHANGED queueVars
           \/ \E a \in Actors : Enqueue(a)
           \/ \E t \in Threads : PopBlock(t) \/ CancelNext(t)
<1>1. Threads \subseteq Actors /\ ServerThread \in Actors
  BY DEF Actors
<1>2. CASE UNCHANGED vars \/ Main
  BY <1>1, <1>2 DEF vars, Main, StartThreads, LockEnvironment, AskFromStep, Ask,
     UnlockEnvironment, Signal, StopThread, JoinThreads
<1>3. ASSUME NEW t \in Threads, Thread(t)
      PROVE  \/ UNCHANGED queueVars \/ Enqueue(t) \/ PopBlock(t) \/ CancelNext(t)
  BY <1>3 DEF Thread, EnterLoop, LeaveLoop, FindEmpty, WakeUp, Emerge,
     EmergeThrows, CallBack, AskFromCallback, Ask, ReturnFromCallback, EndCallbacks,
     BeginCancel, EndCancel, Signal
<1> QED
  BY <1>1, <1>2, <1>3 DEF Next, Terminated

LEMMA TablesStep ==
    ASSUME QueueInv, [Next]_vars
    PROVE  QueuesMatch' /\ PeersCounted'
<1>1. CASE UNCHANGED queueVars
  BY <1>1 DEF queueVars, QueueInv, QueuesMatch, IsAt, PeersCounted, EntriesOf
<1>2. CASE \E a \in Actors : Enqueue(a)
  BY <1>2, EnqueueEffect
<1>3. ASSUME NEW t \in Threads, PopBlock(t) \/ CancelNext(t)
      PROVE  QueuesMatch' /\ PeersCounted'
  <2>1. PopFront(t) /\ m_block_queue[t] # << >>
    BY <1>3 DEF PopBlock, CancelNext
  <2> QED
    BY <2>1, PopKeeps
<1> QED
  BY <1>1, <1>2, <1>3, WhoTouchesTables

LEMMA LengthsStep ==
    ASSUME QueueInv, [Next]_vars
    PROVE  QueueLengths'
<1>1. EmergeTypes /\ TypeOK /\ LockKept /\ QueueLengths
  BY DEF QueueInv, EmergeTypes
<1>2. requests \in Nat /\ \A t \in Threads : Len(m_block_queue[t]) \in Nat
  BY <1>1, LengthTypes DEF TypeOK
<1>3. CASE \E a \in Actors : Enqueue(a)
  <2>1. PICK a \in Actors : Enqueue(a)
    BY <1>3
  <2>2. IsAsking(a) /\ requests' = requests
    BY <2>1 DEF Enqueue, IsAsking
  <2>3. \A b \in Actors : ~ IsAsking(b)'
    BY <1>1, <2>1, <2>2, EnqueueEffect DEF LockKept, IsAsking
  <2>4. ASSUME NEW t \in Threads
        PROVE  Len(m_block_queue'[t]) <= requests'
    <3>1. /\ Len(m_block_queue[t]) < requests
          /\ Len(m_block_queue'[t]) <= Len(m_block_queue[t]) + 1
      BY <1>1, <2>1, <2>2, EnqueueEffect DEF QueueLengths
    <3>2. Len(m_block_queue'[t]) \in Nat
      BY <2>1, EnqueueEffect, LengthTypes
    <3> QED
      BY <1>2, <2>2, <3>1, <3>2
  <2> QED
    BY <2>3, <2>4 DEF QueueLengths
<1>4. CASE \E a \in Actors : \E r \in Askable : Ask(a, r)
  <2>1. PICK a \in Actors, r \in Askable : Ask(a, r)
    BY <1>4
  <2>2. requests' = requests + 1 /\ m_block_queue' = m_block_queue
    BY <1>1, <2>1, AskEffect DEF queueVars
  <2>3. ASSUME NEW t \in Threads
        PROVE  Len(m_block_queue[t]) < requests + 1
    BY <1>1, <1>2 DEF QueueLengths
  <2>4. ASSUME NEW t \in Threads
        PROVE  Len(m_block_queue[t]) <= requests + 1
    BY <1>2, <2>3
  <2> QED
    BY <2>2, <2>3, <2>4 DEF QueueLengths
<1>5. CASE UNCHANGED <<asking, requests>> /\ UNCHANGED queueVars
  BY <1>1, <1>5 DEF QueueLengths, queueVars, IsAsking
<1>6. ASSUME UNCHANGED <<asking, requests>>, NEW t \in Threads, PopBlock(t) \/ CancelNext(t)
      PROVE  QueueLengths'
  <2>1. PopFront(t) /\ m_block_queue[t] # << >>
    BY <1>6 DEF PopBlock, CancelNext
  <2>2. ASSUME NEW u \in Threads
        PROVE  /\ Len(m_block_queue'[u]) <= Len(m_block_queue[u])
               /\ Len(m_block_queue'[u]) \in Nat
    BY <2>1, PopKeeps, LengthTypes
  <2>3. ASSUME NEW u \in Threads
        PROVE  Len(m_block_queue'[u]) <= requests
    BY <1>1, <1>2, <2>2 DEF QueueLengths
  <2>4. ASSUME NEW u \in Threads, NEW a \in Actors, IsAsking(a)
        PROVE  Len(m_block_queue'[u]) < requests
    <3>1. Len(m_block_queue[u]) < requests
      BY <1>1, <2>4 DEF QueueLengths
    <3> QED
      BY <1>2, <2>2, <3>1
  <2> QED
    BY <1>6, <2>3, <2>4 DEF QueueLengths, IsAsking
<1> QED
  BY <1>3, <1>4, <1>5, <1>6, WhoAsks, WhoTouchesTables

LEMMA QueueInvInit == Init => QueueInv
<1> SUFFICES ASSUME Init
             PROVE  QueueInv
  OBVIOUS
<1>1. NoData \in BlockEmergeData
  BY DEF NoData, BlockEmergeData, Requesters
<1>2. TypeOK
  <2>1. << >> \in Seq(Positions)
    OBVIOUS
  <2>2. m_block_queue \in [Threads -> Seq(Positions)]
    BY <2>1 DEF Init
  <2>3. bedata \in [Threads -> BlockEmergeData]
    BY <1>1 DEF Init
  <2>4. signalling \in [Actors -> Threads \cup {None}] /\ m_env_mutex \in Actors \cup {None}
        /\ m_queue_mutex \in Threads \cup {None}
    BY DEF Init
  <2>5. requests \in 0 .. NumRequests
    <3>1. NumRequests \in Nat
      BY EmergeAssumption
    <3>2. requests = 0
      BY DEF Init
    <3> QED
      BY <3>1, <3>2
  <2> QED
    BY <2>2, <2>3, <2>4, <2>5 DEF Init, TypeOK
<1>3. EmergeTypes
  BY <1>2 DEF Init, EmergeTypes, IsAsking, Stages
<1>4. LockKept
  BY DEF Init, LockKept, IsAsking
<1>5. \A t \in Threads : m_block_queue[t] = << >> /\ Len(m_block_queue[t]) = 0
  BY DEF Init
<1>6. \A p, t, i : ~ IsAt(p, t, i)
  BY <1>5 DEF IsAt
<1>7. DOMAIN m_blocks_enqueued = {}
  BY DEF Init
<1>8. QueuesMatch
  BY <1>6, <1>7 DEF QueuesMatch
<1>9. QueueLengths
  <2>1. requests = 0 /\ \A a \in Actors : ~ IsAsking(a)
    BY DEF Init, IsAsking
  <2> QED
    BY <1>5, <2>1 DEF QueueLengths
<1>10. PeersCounted
  BY <1>7, FS_EmptySet DEF PeersCounted, EntriesOf, Init
<1> QED
  BY <1>3, <1>4, <1>8, <1>9, <1>10 DEF QueueInv

LEMMA QueueInvStep == QueueInv /\ [Next]_vars => QueueInv'
BY TypesStep, LockKeptStep, TablesStep, LengthsStep DEF QueueInv

LEMMA QueueInvariant == Spec => []QueueInv
BY QueueInvInit, QueueInvStep, PTL DEF Spec

\* Every variable keeps its type, whatever is requested, fails or is stopped.
THEOREM QueueTypes == Spec => []TypeOK
BY QueueInvariant, PTL DEF QueueInv, EmergeTypes

-----------------------------------------------------------------------------
(* The properties                                                          *)

\* What popBlockEmergeData asserts, and more: the count of each peer is the
\* number of its entries, and every entry is in one queue, at one place, whatever
\* the peers ask for, however often and from whichever thread.
THEOREM QueueCountsMatch == Spec => []CountsMatch
<1>1. QueueInv => CountsMatch
  <2> SUFFICES ASSUME QueueInv
               PROVE  CountsMatch
    OBVIOUS
  <2>1. QueuesMatch /\ PeersCounted /\ QueueLengths /\ EmergeTypes /\ TypeOK
    BY DEF QueueInv, EmergeTypes
  <2>2. ASSUME NEW p \in Positions
        PROVE  Cardinality(Places(p)) = IF p \in DOMAIN m_blocks_enqueued THEN 1 ELSE 0
    <3>1. ASSUME NEW at \in Places(p)
          PROVE  IsAt(p, at[1], at[2]) /\ at = <<at[1], at[2]>>
      <4>1. /\ at \in Threads \X (1 .. NumRequests) /\ at[2] <= Len(m_block_queue[at[1]])
            /\ m_block_queue[at[1]][at[2]] = p
        BY DEF Places
      <4>2. Len(m_block_queue[at[1]]) \in Nat
        BY <2>1, <4>1, LengthTypes DEF TypeOK
      <4>3. at[2] \in 1 .. Len(m_block_queue[at[1]])
        BY <4>1, <4>2
      <4> QED
        BY <4>1, <4>3 DEF IsAt
    <3>2. ASSUME NEW t, NEW i, IsAt(p, t, i)
          PROVE  <<t, i>> \in Places(p)
      <4>1. /\ Len(m_block_queue[t]) <= requests /\ Len(m_block_queue[t]) \in Nat
            /\ requests \in 0 .. NumRequests /\ NumRequests \in Nat
        BY <2>1, <3>2, LengthTypes, EmergeAssumption DEF QueueLengths, IsAt, TypeOK
      <4>2. i \in 1 .. Len(m_block_queue[t]) /\ t \in Threads
        BY <3>2 DEF IsAt
      <4>3. i \in 1 .. NumRequests /\ i <= Len(m_block_queue[t])
        BY <4>1, <4>2
      <4> QED
        BY <3>2, <4>2, <4>3 DEF Places, IsAt
    <3>3. CASE p \in DOMAIN m_blocks_enqueued
      <4>1. PICK t, i : IsAt(p, t, i)
        BY <2>1, <3>3 DEF QueuesMatch
      <4>2. \A at \in Places(p) : at[1] = t /\ at[2] = i
        BY <2>1, <3>1, <4>1 DEF QueuesMatch
      <4>3. Places(p) = {<<t, i>>}
        BY <3>1, <3>2, <4>1, <4>2
      <4> QED
        BY <3>3, <4>3, FS_Singleton
    <3>4. CASE p \notin DOMAIN m_blocks_enqueued
      <4>1. Places(p) = {}
        BY <2>1, <3>1, <3>4 DEF QueuesMatch
      <4> QED
        BY <3>4, <4>1, FS_EmptySet
    <3> QED
      BY <3>3, <3>4
  <2> QED
    BY <2>1, <2>2 DEF CountsMatch, PeersCounted
<1> QED
  BY <1>1, QueueInvariant, PTL

LEMMA GenerationStep ==
    ASSUME QueueInv, GenerationHonoured, [Next]_vars
    PROVE  GenerationHonoured'
<1>1. TypeOK /\ \A p \in DOMAIN m_blocks_enqueued : m_blocks_enqueued[p] \in BlockEmergeData
  BY DEF QueueInv, EmergeTypes, TypeOK
<1>2. ASSUME NEW a \in Actors, Enqueue(a)
      PROVE  GenerationHonoured'
  <2> DEFINE r == asking[a]
  <2>1. r \in Askable
    BY <1>2 DEF Enqueue, IsAsking, QueueInv, EmergeTypes
  <2>2. CASE UNCHANGED <<m_blocks_enqueued, wanted>>
    BY <2>2 DEF GenerationHonoured
  <2>3. CASE r.pos \in DOMAIN m_blocks_enqueued /\ Push(a, r)
    <3>1. /\ DOMAIN m_blocks_enqueued' = DOMAIN m_blocks_enqueued
          /\ \A p \in DOMAIN m_blocks_enqueued :
                m_blocks_enqueued'[p] =
                    IF p = r.pos THEN MergedData(m_blocks_enqueued[p], r.flags, r.callbacks)
                    ELSE m_blocks_enqueued[p]
      BY <2>1, <2>3, JoinKeeps DEF Push
    <3>2. MergedData(m_blocks_enqueued[r.pos], r.flags, r.callbacks).flags
              = m_blocks_enqueued[r.pos].flags \cup r.flags
      BY <1>1, <2>1, <2>3, MergedType
    <3> HIDE DEF r
    <3>3. \/ wanted' = wanted \cup {r.pos} /\ "BLOCK_EMERGE_ALLOW_GEN" \in r.flags
          \/ wanted' = wanted
      BY <1>2, <2>3 DEF Enqueue, queueVars, r
    <3> QED
      BY <2>2, <2>3, <3>1, <3>2, <3>3 DEF GenerationHonoured
  <2>4. CASE r.pos \notin DOMAIN m_blocks_enqueued /\ Push(a, r)
    <3>1. /\ DOMAIN m_blocks_enqueued' = DOMAIN m_blocks_enqueued \cup {r.pos}
          /\ \A p \in DOMAIN m_blocks_enqueued' :
                m_blocks_enqueued'[p] =
                    IF p = r.pos THEN NewData(r) ELSE m_blocks_enqueued[p]
      BY <2>4 DEF Push, Added
    <3>2. NewData(r).flags = r.flags
      BY <2>1, NewDataType
    <3> HIDE DEF r
    <3>3. \/ wanted' = wanted \cup {r.pos} /\ "BLOCK_EMERGE_ALLOW_GEN" \in r.flags
          \/ wanted' = wanted
      BY <1>2, <2>4 DEF Enqueue, queueVars, r
    <3> QED
      BY <2>2, <2>4, <3>1, <3>2, <3>3 DEF GenerationHonoured
  <2> QED
    BY <1>2, <2>2, <2>3, <2>4 DEF Enqueue, queueVars
<1>3. ASSUME NEW t \in Threads, PopBlock(t) \/ CancelNext(t)
      PROVE  GenerationHonoured'
  <2> DEFINE p == Head(m_block_queue[t])
  <2>1. /\ DOMAIN m_blocks_enqueued' = DOMAIN m_blocks_enqueued \ {p}
        /\ \A q \in DOMAIN m_blocks_enqueued' : m_blocks_enqueued'[q] = m_blocks_enqueued[q]
    BY <1>3 DEF PopBlock, CancelNext, PopFront, popBlockEmergeData
  <2> HIDE DEF p
  <2>2. \/ wanted' = wanted \ {p}
        \/ wanted' = wanted /\ "BLOCK_EMERGE_ALLOW_GEN" \notin m_blocks_enqueued[p].flags
    BY <1>3 DEF PopBlock, CancelNext, p
  <2> QED
    BY <2>1, <2>2 DEF GenerationHonoured
<1>4. CASE UNCHANGED <<m_blocks_enqueued, wanted>>
  BY <1>4 DEF GenerationHonoured
<1>5. Threads \subseteq Actors /\ ServerThread \in Actors
  BY DEF Actors
<1>6. CASE UNCHANGED vars \/ Main
  BY <1>2, <1>4, <1>5, <1>6 DEF vars, queueVars, history, Main, StartThreads,
     LockEnvironment, AskFromStep, Ask, UnlockEnvironment, Signal, StopThread, JoinThreads
<1>7. ASSUME NEW t \in Threads, Thread(t)
      PROVE  GenerationHonoured'
  <2>1. \/ UNCHANGED <<m_blocks_enqueued, wanted>> \/ Enqueue(t)
        \/ PopBlock(t) \/ CancelNext(t)
    BY <1>7 DEF Thread, EnterLoop, LeaveLoop, FindEmpty, WakeUp, Emerge,
       EmergeThrows, CallBack, AskFromCallback, Ask, ReturnFromCallback, EndCallbacks,
       BeginCancel, EndCancel, Signal, queueVars, history
  <2> QED
    BY <1>2, <1>3, <1>4, <1>5, <2>1
<1> QED
  BY <1>6, <1>7 DEF Next, Terminated

\* A request that allows generation keeps its permission in the entry it joins
\* or makes, until the entry is served.
THEOREM GenerationKept == Spec => []GenerationHonoured
<1>1. Init => GenerationHonoured
  BY DEF Init, GenerationHonoured
<1>2. QueueInv /\ GenerationHonoured /\ [Next]_vars => GenerationHonoured'
  BY GenerationStep
<1> QED
  BY <1>1, <1>2, QueueInvariant, PTL DEF Spec

-----------------------------------------------------------------------------
(* The two mutexes                                                         *)

\* Only a thread that was told to stop keeps the queue mutex; by then the server
\* thread has given back the environment lock for good, until the threads have
\* ended.
LockInv ==
    /\ \A t \in Threads : ~ IsAsking(t)
    /\ m_queue_mutex # None =>
          pc[m_queue_mutex] \in {"cancel", "callbacks", "in callback"}
    /\ \A t \in Threads :
          pc[t] \in {"exit", "cancel", "stopped"} \/ m_queue_mutex = t => m_request_stop[t]
    /\ \A t \in Threads : m_request_stop[t] => main_pc \in {"stopping", "stopped"}
    /\ main_pc = "stopping" => m_env_mutex # ServerThread
    /\ main_pc = "stopped" => \A t \in Threads : pc[t] = "stopped"

LEMMA LockInvStep ==
    ASSUME ~ MayFail, ~ Reentrant, QueueInv, LockInv, [Next]_vars
    PROVE  LockInv'
<1>1. EmergeTypes /\ TypeOK
  BY DEF QueueInv, EmergeTypes
<1>2. /\ Threads \subseteq Actors /\ ServerThread \in Actors /\ ServerThread \notin Threads
      /\ None \notin Actors /\ m_queue_mutex \in Threads \cup {None}
  BY <1>1, EmergeAssumption DEF Actors, Threads, ServerThread, None, TypeOK
\* No thread starts to ask.
<1>3. \A t \in Threads : ~ IsAsking(t)'
  <2>1. CASE UNCHANGED <<asking, requests>>
    BY <2>1 DEF LockInv, IsAsking
  <2>2. CASE \E a \in Actors : Enqueue(a)
    BY <1>2, <2>2, EnqueueEffect DEF LockInv, IsAsking
  <2>3. CASE AskFromStep
    <3>1. PICK r : Ask(ServerThread, r)
      BY <2>3 DEF AskFromStep
    <3>2. asking' = [asking EXCEPT ![ServerThread] = r]
      BY <3>1 DEF Ask
    <3> QED
      BY <1>1, <1>2, <3>2 DEF LockInv, IsAsking, EmergeTypes
  <2>4. CASE AskFromStep \/ UNCHANGED <<asking, requests>> \/ \E a \in Actors : Enqueue(a)
    BY <2>1, <2>2, <2>3, <2>4
  <2>5. CASE UNCHANGED vars \/ Main
    BY <1>2, <2>4, <2>5 DEF vars, callVars, Main, StartThreads, LockEnvironment,
       UnlockEnvironment, Signal, StopThread, JoinThreads
  <2>6. ASSUME NEW t \in Threads, Thread(t)
        PROVE  UNCHANGED <<asking, requests>> \/ Enqueue(t)
    BY <2>6 DEF Thread, EnterLoop, LeaveLoop, PopBlock, FindEmpty, WakeUp, Emerge,
       EmergeThrows, CallBack, AskFromCallback, ReturnFromCallback, EndCallbacks,
       BeginCancel, CancelNext, EndCancel, Signal, callVars
  <2> QED
    BY <1>2, <2>4, <2>5, <2>6 DEF Next, Terminated
\* A thread moves from one stage to another.
<1>4. ASSUME NEW t \in Threads, NEW where \in Stages, pc[t] # "stopped", Go(t, where),
             m_queue_mutex' \in {m_queue_mutex, None, t},
             m_queue_mutex' = t =>
                 where \in {"cancel", "callbacks", "in callback"} /\ m_request_stop[t],
             where \in {"exit", "cancel", "stopped"} => m_request_stop[t],
             m_env_mutex' \in {m_env_mutex, None, t},
             UNCHANGED <<m_request_stop, mainVars>>
      PROVE  LockInv'
  <2>1. pc'[t] = where /\ \A u \in Threads \ {t} : pc'[u] = pc[u]
    BY <1>1, <1>4 DEF Go, EmergeTypes
  <2>2. main_pc' = main_pc /\ main_pc # "stopped"
    BY <1>4 DEF mainVars, LockInv
  <2>3. m_queue_mutex' # None =>
            pc'[m_queue_mutex'] \in {"cancel", "callbacks", "in callback"}
    BY <1>2, <1>4, <2>1 DEF LockInv
  <2>4. \A u \in Threads : pc'[u] \in {"exit", "cancel", "stopped"} \/ m_queue_mutex' = u
            => m_request_stop[u]
    BY <1>2, <1>4, <2>1 DEF LockInv
  <2>5. main_pc = "stopping" => m_env_mutex' # ServerThread
    BY <1>2, <1>4 DEF LockInv, None
  <2> QED
    BY <1>3, <1>4, <2>2, <2>3, <2>4, <2>5 DEF LockInv
<1>5. CASE UNCHANGED <<pc, m_queue_mutex, m_request_stop, main_pc, m_env_mutex>>
  BY <1>3, <1>5 DEF LockInv
<1>6. CASE StartThreads
  <2>1. m_queue_mutex = None /\ \A t \in Threads : ~ m_request_stop[t]
    BY <1>2, <1>6 DEF StartThreads, LockInv
  <2> QED
    BY <1>3, <1>6, <2>1 DEF StartThreads, LockInv, None
<1>7. CASE LockEnvironment \/ UnlockEnvironment
  <2>1. \/ m_env_mutex' # ServerThread
        \/ main_pc # "stopping"
    BY <1>2, <1>7 DEF LockEnvironment, UnlockEnvironment
  <2> QED
    BY <1>3, <1>7, <2>1 DEF LockEnvironment, UnlockEnvironment, LockInv, threadVars, mainVars
<1>8. ASSUME NEW t \in Threads, StopThread(t)
      PROVE  LockInv'
  <2>1. \A u \in Threads : m_request_stop'[u] \in BOOLEAN
                           /\ (m_request_stop[u] => m_request_stop'[u])
    BY <1>1, <1>8 DEF StopThread, TypeOK
  <2>2. main_pc' = "stopping" /\ m_env_mutex' # ServerThread
    BY <1>8 DEF StopThread
  <2> QED
    BY <1>3, <1>8, <2>1, <2>2 DEF StopThread, LockInv
<1>9. CASE JoinThreads
  BY <1>3, <1>9 DEF JoinThreads, LockInv, threadVars
<1>10. ASSUME NEW a \in Actors, Enqueue(a) \/ Signal(a)
       PROVE  LockInv'
  BY <1>5, <1>10 DEF Enqueue, Signal, threadVars, mainVars
<1>11. CASE AskFromStep
  BY <1>5, <1>11 DEF AskFromStep, Ask, threadVars, mainVars
<1>12. CASE UNCHANGED vars
  BY <1>5, <1>12 DEF vars, threadVars, mainVars
<1>13. ASSUME NEW t \in Threads,
              EnterLoop(t) \/ LeaveLoop(t) \/ PopBlock(t) \/ FindEmpty(t) \/ WakeUp(t)
              \/ Emerge(t)
       PROVE  LockInv'
  <2>1. /\ pc[t] \in {"loop", "pop", "wait", "work"}
        /\ UNCHANGED <<m_request_stop, mainVars, m_queue_mutex, m_env_mutex>>
    BY <1>13 DEF EnterLoop, LeaveLoop, PopBlock, FindEmpty, WakeUp, Emerge
  <2>2. PICK where \in Stages :
            /\ Go(t, where)
            /\ where \notin {"cancel", "stopped"} /\ (where = "exit" => m_request_stop[t])
    BY <1>13 DEF EnterLoop, LeaveLoop, PopBlock, FindEmpty, WakeUp, Emerge, Stages
  <2>3. m_queue_mutex # t
    BY <1>2, <2>1 DEF LockInv
  <2> QED
    BY <1>4, <2>1, <2>2, <2>3
<1>14. ASSUME NEW t \in Threads, CallBack(t) \/ ReturnFromCallback(t) \/ CancelNext(t)
       PROVE  LockInv'
  <2>1. /\ pc[t] \in {"callbacks", "in callback", "cancel"}
        /\ UNCHANGED <<m_request_stop, mainVars, m_queue_mutex>>
        /\ m_env_mutex' \in {m_env_mutex, None, t}
    BY <1>14 DEF CallBack, ReturnFromCallback, CancelNext
  <2>2. PICK where \in {"callbacks", "in callback"} : Go(t, where)
    BY <1>14 DEF CallBack, ReturnFromCallback, CancelNext
  <2>3. m_queue_mutex = t => m_request_stop[t]
    BY DEF LockInv
  <2> QED
    BY <1>4, <2>1, <2>2, <2>3 DEF Stages
<1>15. ASSUME NEW t \in Threads, EndCallbacks(t)
       PROVE  LockInv'
  <2>1. /\ pc[t] = "callbacks"
        /\ UNCHANGED <<m_request_stop, mainVars, m_queue_mutex, m_env_mutex>>
        /\ Go(t, IF m_queue_mutex = t THEN "cancel" ELSE "loop")
    BY <1>15 DEF EndCallbacks
  <2>2. m_queue_mutex = t => m_request_stop[t]
    BY DEF LockInv
  <2>3. CASE m_queue_mutex = t
    BY <1>4, <2>1, <2>2, <2>3 DEF Stages
  <2>4. CASE m_queue_mutex # t
    BY <1>4, <2>1, <2>4 DEF Stages
  <2> QED
    BY <2>3, <2>4
<1>16. ASSUME NEW t \in Threads, BeginCancel(t) \/ EndCancel(t)
       PROVE  LockInv'
  <2>1. pc[t] \in {"exit", "cancel"} /\ m_request_stop[t]
    BY <1>16 DEF BeginCancel, EndCancel, LockInv
  <2>2. UNCHANGED <<m_request_stop, mainVars, m_env_mutex>>
    BY <1>16 DEF BeginCancel, EndCancel
  <2>3. \/ Go(t, "cancel") /\ m_queue_mutex' = t
        \/ Go(t, "stopped") /\ m_queue_mutex' = None
    BY <1>16 DEF BeginCancel, EndCancel
  <2>4. t # None
    BY <1>2
  <2> QED
    BY <1>4, <2>1, <2>2, <2>3, <2>4 DEF Stages
<1> QED
  BY <1>2, <1>6, <1>7, <1>8, <1>9, <1>10, <1>11, <1>12, <1>13, <1>14, <1>15, <1>16
     DEF Next, Main, Thread, Terminated, EmergeThrows, AskFromCallback

\* While no callback requests blocks and no thread fails, the two mutexes are
\* never wanted crosswise, although cancelPendingItems runs callbacks with the
\* queue mutex in hand: ~Server stops the server thread before the emerge threads.
THEOREM NoMutexCycle ==
    ASSUME ~ MayFail, ~ Reentrant
    PROVE  Spec => []NoLockCycle
<1>1. Init => LockInv
  <2>1. Threads \subseteq Actors /\ None \notin Threads
    BY DEF Actors, Threads, None
  <2> QED
    BY <2>1 DEF Init, LockInv, IsAsking
<1>2. QueueInv /\ LockInv /\ [Next]_vars => LockInv'
  BY LockInvStep
<1>3. QueueInv /\ LockInv => NoLockCycle
  <2> SUFFICES ASSUME QueueInv, LockInv, m_queue_mutex # None, m_env_mutex # None,
                      asking[m_env_mutex] # NoRequest
               PROVE  FALSE
    BY DEF NoLockCycle
  <2>1. m_queue_mutex \in Threads /\ m_env_mutex \in Actors
    BY DEF QueueInv, EmergeTypes, TypeOK
  <2>2. m_env_mutex = ServerThread
    BY <2>1 DEF LockInv, IsAsking, Actors
  <2>3. main_pc \in {"stopping", "stopped"}
    BY <2>1 DEF LockInv
  <2> QED
    BY <2>1, <2>2, <2>3 DEF LockInv
<1> QED
  BY <1>1, <1>2, <1>3, QueueInvariant, PTL DEF Spec

-----------------------------------------------------------------------------
(* The callbacks                                                           *)

Waiting(p, c) ==
    p \in DOMAIN m_blocks_enqueued /\ c \in CallbacksIn(m_blocks_enqueued[p])

With(t, c) == t \in Threads /\ c \in CallbacksIn(bedata[t])

Once(s) == \A i, j \in DOMAIN s : s[i] = s[j] => i = j

\* A request's callback is new to the queue.
RequestsFresh ==
    /\ accepted \subseteq 1 .. requests
    /\ \A a \in Actors : IsAsking(a) =>
          /\ asking[a].callbacks \in {<< >>, <<requests>>}
          /\ requests \notin accepted

\* A thread has callbacks only while it works for them.
Busy == {"work", "callbacks", "in callback"}

IdleThreads ==
    /\ \A t \in Threads : pc[t] \notin Busy => bedata[t].callbacks = << >>
    /\ main_pc = "first step" => \A t \in Threads : pc[t] = "not started"

NoneTwice ==
    /\ \A p \in DOMAIN m_blocks_enqueued : Once(m_blocks_enqueued[p].callbacks)
    /\ \A t \in Threads : Once(bedata[t].callbacks)

\* A callback is at one place until it is called.
OnePlace ==
    /\ \A p, c : Waiting(p, c) =>
          /\ c \in accepted /\ called[c] = 0
          /\ \A q : Waiting(q, c) => q = p
          /\ \A t : ~ With(t, c)
    /\ \A t, c : With(t, c) =>
          /\ c \in accepted /\ called[c] = 0
          /\ \A u : With(u, c) => u = t
    /\ \A c \in RequestIds : /\ called[c] \in {0, 1}
                             /\ c \notin accepted => called[c] = 0

SomePlace ==
    ~ m_async_fatal_error => \A c \in accepted :
        called[c] = 1 \/ (\E p : Waiting(p, c)) \/ (\E t : With(t, c))

CallbackInv == RequestsFresh /\ IdleThreads /\ NoneTwice /\ OnePlace /\ SomePlace

LEMMA RequestsFreshStep ==
    ASSUME QueueInv, RequestsFresh, [Next]_vars
    PROVE  RequestsFresh'
<1>1. EmergeTypes /\ TypeOK /\ LockKept /\ requests \in Nat
  BY DEF QueueInv, EmergeTypes, TypeOK
<1>2. CASE \E a \in Actors : Enqueue(a)
  <2>1. PICK a \in Actors : Enqueue(a)
    BY <1>2
  <2>2. IsAsking(a) /\ requests' = requests
    BY <2>1 DEF Enqueue, IsAsking
  <2>3. \A b \in Actors : ~ IsAsking(b)'
    BY <1>1, <2>1, <2>2, EnqueueEffect DEF LockKept, IsAsking
  <2>4. asking[a].callbacks \in {<< >>, <<requests>>} /\ requests \in 1 .. requests
    <3>1. requests \in Nat \ {0}
      <4>1. \E t \in Threads : Len(m_block_queue[t]) < requests /\ Len(m_block_queue[t]) \in Nat
        <5>1. 1 \in Threads
          BY EmergeAssumption DEF Threads
        <5> QED
          BY <1>1, <2>2, <5>1, LengthTypes DEF QueueInv, QueueLengths, TypeOK
      <4> QED
        BY <1>1, <4>1
    <3> QED
      BY <2>2, <3>1 DEF RequestsFresh
  <2>5. {asking[a].callbacks[i] : i \in DOMAIN asking[a].callbacks} \subseteq 1 .. requests
    BY <2>4
  <2>6. accepted' = accepted
        \/ accepted' = accepted \cup {asking[a].callbacks[i] : i \in DOMAIN asking[a].callbacks}
    BY <2>1 DEF Enqueue
  <2> QED
    BY <2>2, <2>3, <2>5, <2>6 DEF RequestsFresh
<1>3. CASE \E a \in Actors : \E r \in Askable :
               Ask(a, r) /\ r.callbacks \in {<< >>, <<requests + 1>>}
  <2>1. PICK a \in Actors, r \in Askable :
            Ask(a, r) /\ r.callbacks \in {<< >>, <<requests + 1>>}
    BY <1>3
  <2>2. /\ requests' = requests + 1 /\ accepted' = accepted
        /\ asking'[a] = r /\ \A b \in Actors \ {a} : ~ IsAsking(b)'
    BY <1>1, <2>1, AskEffect DEF history, LockKept, IsAsking
  <2>3. accepted \subseteq 1 .. requests /\ requests + 1 \notin 1 .. requests
        /\ 1 .. requests \subseteq 1 .. requests + 1
    BY <1>1 DEF RequestsFresh
  <2> QED
    BY <2>1, <2>2, <2>3 DEF RequestsFresh
<1>4. CASE UNCHANGED <<asking, requests>> /\ ~ \E a \in Actors : Enqueue(a)
  <2>1. UNCHANGED accepted
    <3>1. Threads \subseteq Actors /\ ServerThread \in Actors
      BY DEF Actors
    <3>2. CASE UNCHANGED vars \/ Main
      BY <1>4, <3>1, <3>2 DEF vars, history, Main, StartThreads, LockEnvironment,
         AskFromStep, Ask, UnlockEnvironment, Signal, StopThread, JoinThreads
    <3>3. ASSUME NEW t \in Threads, Thread(t)
          PROVE  UNCHANGED accepted \/ Enqueue(t)
      BY <3>3 DEF Thread, EnterLoop, LeaveLoop, PopBlock, FindEmpty, WakeUp, Emerge,
         EmergeThrows, CallBack, AskFromCallback, Ask, ReturnFromCallback, EndCallbacks,
         BeginCancel, CancelNext, EndCancel, Signal, history
    <3> QED
      BY <1>4, <3>1, <3>2, <3>3 DEF Next, Terminated
  <2> QED
    BY <1>4, <2>1 DEF RequestsFresh, IsAsking
<1> QED
  BY <1>2, <1>3, <1>4, WhoAsks

LEMMA IdleThreadsStep ==
    ASSUME QueueInv, IdleThreads, [Next]_vars
    PROVE  IdleThreads'
<1>1. EmergeTypes /\ TypeOK
  BY DEF QueueInv, EmergeTypes
<1>2. NoData.callbacks = << >>
  BY DEF NoData
<1>3. CASE UNCHANGED <<pc, bedata>> /\ (main_pc' = "first step" => main_pc = "first step")
  BY <1>3 DEF IdleThreads
<1>4. CASE StartThreads
  BY <1>4 DEF StartThreads, IdleThreads, Busy
<1>5. CASE UNCHANGED vars \/ Main
  BY <1>3, <1>4, <1>5 DEF vars, threadVars, mainVars, Main, LockEnvironment, AskFromStep,
     Ask, UnlockEnvironment, Enqueue, Signal, StopThread, JoinThreads
<1>6. ASSUME NEW t \in Threads, Thread(t), ~ UNCHANGED <<pc, bedata, main_pc>>
      PROVE  /\ \E where \in Stages : /\ Go(t, where)
                                      /\ where \notin Busy => bedata'[t].callbacks = << >>
             /\ pc[t] # "not started" /\ UNCHANGED main_pc
             /\ \A u \in Threads \ {t} : bedata'[u] = bedata[u]
  <2>1. UNCHANGED main_pc /\ \A u \in Threads \ {t} : bedata'[u] = bedata[u]
    BY <1>1, <1>6 DEF Thread, EnterLoop, LeaveLoop, PopBlock, FindEmpty, WakeUp, Emerge,
       EmergeThrows, CallBack, AskFromCallback, Ask, ReturnFromCallback, EndCallbacks,
       BeginCancel, CancelNext, EndCancel, Enqueue, Signal, threadVars, mainVars, TypeOK
  <2>2. pc[t] # "not started"
    BY <1>6 DEF Thread, EnterLoop, LeaveLoop, PopBlock, FindEmpty, WakeUp, Emerge,
       EmergeThrows, CallBack, AskFromCallback, Ask, ReturnFromCallback, EndCallbacks,
       BeginCancel, CancelNext, EndCancel, Enqueue, Signal, threadVars, mainVars
  <2>3. CASE EnterLoop(t) \/ LeaveLoop(t) \/ FindEmpty(t) \/ WakeUp(t) \/ BeginCancel(t)
             \/ EndCancel(t)
    <3>1. bedata' = bedata /\ pc[t] \notin Busy
      BY <2>3 DEF EnterLoop, LeaveLoop, FindEmpty, WakeUp, BeginCancel, EndCancel, Busy
    <3>2. \E where \in Stages : Go(t, where)
      BY <2>3 DEF EnterLoop, LeaveLoop, FindEmpty, WakeUp, BeginCancel, EndCancel, Stages
    <3> QED
      BY <2>1, <2>2, <3>1, <3>2 DEF IdleThreads
  <2>4. CASE PopBlock(t)
    <3>1. pc[t] = "pop" /\ "pop" \notin Busy
      BY <2>4 DEF PopBlock, Busy
    <3>2. (Go(t, "loop") /\ UNCHANGED bedata) \/ Go(t, "work")
      BY <2>4 DEF PopBlock
    <3> QED
      BY <2>1, <2>2, <3>1, <3>2 DEF IdleThreads, Busy, Stages
  <2>5. CASE Emerge(t) \/ CallBack(t) \/ ReturnFromCallback(t) \/ CancelNext(t)
    <3>1. Go(t, "callbacks") \/ Go(t, "in callback")
      BY <2>5 DEF Emerge, CallBack, ReturnFromCallback, CancelNext
    <3> QED
      BY <2>1, <2>2, <3>1 DEF Busy, Stages
  <2>6. CASE EmergeThrows(t) \/ EndCallbacks(t)
    <3>1. bedata'[t] = NoData
      BY <1>1, <2>6 DEF EmergeThrows, EndCallbacks, TypeOK
    <3>2. \E where \in Stages : Go(t, where)
      BY <2>6 DEF EmergeThrows, EndCallbacks, Stages
    <3> QED
      BY <1>2, <2>1, <2>2, <3>1, <3>2
  <2>7. CASE AskFromCallback(t) \/ Enqueue(t) \/ Signal(t)
    BY <1>6, <2>7 DEF AskFromCallback, Ask, Enqueue, Signal, threadVars, mainVars
  <2> QED
    BY <1>6, <2>3, <2>4, <2>5, <2>6, <2>7 DEF Thread
<1>7. ASSUME NEW t \in Threads, Thread(t), ~ UNCHANGED <<pc, bedata, main_pc>>
      PROVE  IdleThreads'
  <2>1. PICK where \in Stages : /\ Go(t, where)
                                /\ where \notin Busy => bedata'[t].callbacks = << >>
    BY <1>6, <1>7
  <2>2. pc'[t] = where /\ \A u \in Threads \ {t} : pc'[u] = pc[u]
    BY <1>1, <2>1 DEF Go, EmergeTypes
  <2>3. main_pc # "first step"
    BY <1>6, <1>7 DEF IdleThreads
  <2> QED
    BY <1>6, <1>7, <2>1, <2>2, <2>3, ZenonT(30) DEF IdleThreads
<1> QED
  BY <1>3, <1>5, <1>7 DEF Next, Terminated

LEMMA ConcatCallbacks ==
    ASSUME NEW s \in Seq(RequestIds), NEW u \in Seq(RequestIds)
    PROVE  /\ {(s \o u)[i] : i \in DOMAIN (s \o u)} =
                  {s[i] : i \in DOMAIN s} \cup {u[i] : i \in DOMAIN u}
           /\ (/\ Once(s) /\ Once(u)
               /\ \A i \in DOMAIN s, j \in DOMAIN u : s[i] # u[j]) => Once(s \o u)
<1> DEFINE m == Len(s)
           n == Len(u)
<1>1. /\ m \in Nat /\ n \in Nat /\ DOMAIN s = 1 .. m /\ DOMAIN u = 1 .. n
      /\ DOMAIN (s \o u) = 1 .. m + n
      /\ \A i \in 1 .. m : (s \o u)[i] = s[i]
      /\ \A i \in 1 .. n : (s \o u)[m + i] = u[i]
  OBVIOUS
<1>2. \A i \in 1 .. m + n : i \in 1 .. m \/ \E j \in 1 .. n : i = m + j
  <2> TAKE i \in 1 .. m + n
  <2>1. i \in 1 .. m \/ (i - m \in 1 .. n /\ i = m + (i - m))
    BY <1>1
  <2> QED
    BY <2>1
<1>3. \A i \in 1 .. m : i \in 1 .. m + n
  BY <1>1
<1>4. \A i \in 1 .. n : m + i \in 1 .. m + n
  BY <1>1
<1> HIDE DEF m, n
<1>5. {(s \o u)[i] : i \in DOMAIN (s \o u)} =
          {s[i] : i \in DOMAIN s} \cup {u[i] : i \in DOMAIN u}
  <2>1. ASSUME NEW i \in 1 .. m + n
        PROVE  (s \o u)[i] \in {s[k] : k \in 1 .. m} \cup {u[k] : k \in 1 .. n}
    BY <1>1, <1>2
  <2>2. ASSUME NEW k \in 1 .. m
        PROVE  s[k] \in {(s \o u)[i] : i \in 1 .. m + n}
    BY <1>1, <1>3
  <2>3. ASSUME NEW k \in 1 .. n
        PROVE  u[k] \in {(s \o u)[i] : i \in 1 .. m + n}
    <3>1. m + k \in 1 .. m + n /\ (s \o u)[m + k] = u[k]
      BY <1>1, <1>4
    <3> QED
      BY <3>1
  <2> QED
    BY <1>1, <2>1, <2>2, <2>3, ZenonT(30)
<1>6. ASSUME Once(s), Once(u), \A i \in DOMAIN s, j \in DOMAIN u : s[i] # u[j],
             NEW i \in 1 .. m + n, NEW j \in 1 .. m + n, (s \o u)[i] = (s \o u)[j]
      PROVE  i = j
  <2>1. CASE i \in 1 .. m /\ j \in 1 .. m
    BY <1>1, <1>6, <2>1 DEF Once
  <2>2. CASE \E k \in 1 .. n, l \in 1 .. n : i = m + k /\ j = m + l
    <3>1. PICK k \in 1 .. n, l \in 1 .. n : i = m + k /\ j = m + l
      BY <2>2
    <3>2. u[k] = u[l]
      BY <1>1, <1>6, <3>1
    <3> QED
      BY <1>1, <1>6, <3>1, <3>2 DEF Once
  <2>3. CASE i \in 1 .. m /\ \E l \in 1 .. n : j = m + l
    BY <1>1, <1>6, <2>3
  <2>4. CASE j \in 1 .. m /\ \E l \in 1 .. n : i = m + l
    <3>1. PICK l \in 1 .. n : i = m + l
      BY <2>4
    <3>2. (s \o u)[i] = u[l] /\ (s \o u)[j] = s[j]
      BY <1>1, <2>4, <3>1
    <3> QED
      BY <1>1, <1>6, <2>4, <3>2
  <2> QED
    BY <1>2, <2>1, <2>2, <2>3, <2>4
<1> QED
  BY <1>1, <1>5, <1>6 DEF Once

LEMMA TailCallbacks ==
    ASSUME NEW s \in Seq(RequestIds), s # << >>, Once(s)
    PROVE  /\ {Tail(s)[i] : i \in DOMAIN Tail(s)} = {s[i] : i \in DOMAIN s} \ {Head(s)}
           /\ Head(s) \in {s[i] : i \in DOMAIN s}
           /\ Once(Tail(s))
<1>1. /\ Head(s) = s[1] /\ Tail(s) \in Seq(RequestIds) /\ Len(s) \in Nat \ {0}
      /\ Len(Tail(s)) = Len(s) - 1
      /\ \A i \in 1 .. Len(s) - 1 : Tail(s)[i] = s[i + 1]
  BY HeadTailTypes
<1>2. PICK n \in Nat : n + 1 = Len(s) /\ n = Len(Tail(s))
  <2>1. Len(s) - 1 \in Nat /\ (Len(s) - 1) + 1 = Len(s)
    BY <1>1
  <2> QED
    BY <1>1, <2>1
<1>3. DOMAIN s = 1 .. n + 1 /\ DOMAIN Tail(s) = 1 .. n
  BY <1>1, <1>2, LengthTypes
<1>4. \A i \in 1 .. n : Tail(s)[i] = s[i + 1] /\ i + 1 \in 1 .. n + 1 /\ i + 1 # 1
  BY <1>1, <1>2
<1>5. \A i \in 1 .. n + 1 : i = 1 \/ \E j \in 1 .. n : i = j + 1
  <2> TAKE i \in 1 .. n + 1
  <2>1. i = 1 \/ (i - 1 \in 1 .. n /\ i = (i - 1) + 1)
    OBVIOUS
  <2> QED
    BY <2>1
<1>6. 1 \in 1 .. n + 1
  OBVIOUS
<1>7. \A i \in 1 .. n : Tail(s)[i] # Head(s)
  BY <1>1, <1>3, <1>4, <1>6, ZenonT(30) DEF Once
<1>8. {Tail(s)[i] : i \in DOMAIN Tail(s)} = {s[i] : i \in DOMAIN s} \ {Head(s)}
  <2>1. ASSUME NEW i \in 1 .. n
        PROVE  Tail(s)[i] \in {s[k] : k \in 1 .. n + 1} \ {Head(s)}
    BY <1>4, <1>7
  <2>2. ASSUME NEW k \in 1 .. n + 1, s[k] # Head(s)
        PROVE  s[k] \in {Tail(s)[i] : i \in 1 .. n}
    BY <1>1, <1>4, <1>5, <2>2
  <2> QED
    BY <1>3, <2>1, <2>2
<1>9. ASSUME NEW i \in 1 .. n, NEW j \in 1 .. n, Tail(s)[i] = Tail(s)[j]
      PROVE  i = j
  <2>1. i + 1 = j + 1
    BY <1>3, <1>4, <1>9 DEF Once
  <2> QED
    BY <2>1
<1> QED
  BY <1>1, <1>3, <1>6, <1>8, <1>9, ZenonT(30) DEF Once

\* A request that is taken brings at most one callback, which nobody has yet.
LEMMA EnqueuePlaces ==
    ASSUME QueueInv, CallbackInv, NEW a \in Actors, Enqueue(a)
    PROVE  \/ UNCHANGED <<m_blocks_enqueued, accepted, called, bedata, m_async_fatal_error>>
           \/ \E p0, New :
                 /\ \A p, c : Waiting(p, c)' <=> Waiting(p, c) \/ (p = p0 /\ c \in New)
                 /\ accepted' = accepted \cup New
                 /\ \A c \in New : c \notin accepted /\ New = {c} /\ c \in RequestIds
                 /\ \A p \in DOMAIN m_blocks_enqueued' : Once(m_blocks_enqueued'[p].callbacks)
                 /\ UNCHANGED <<called, bedata, m_async_fatal_error>>
<1> DEFINE r == asking[a]
           New == CallbacksIn(r)
<1>1. IsAsking(a) /\ r \in Askable
  BY DEF Enqueue, IsAsking, QueueInv, EmergeTypes
<1>2. /\ r.callbacks \in {<< >>, <<requests>>} /\ r.callbacks \in Seq(RequestIds)
      /\ requests \notin accepted
  BY <1>1 DEF Askable, CallbackInv, RequestsFresh
<1> HIDE DEF r
<1>3. Once(r.callbacks) /\ \A c \in New : c = requests /\ New = {c}
  <2>1. CASE r.callbacks = << >>
    BY <2>1 DEF Once, CallbacksIn
  <2>2. CASE r.callbacks = <<requests>>
    <3>1. DOMAIN r.callbacks = {1} /\ r.callbacks[1] = requests
      BY <2>2
    <3> QED
      BY <3>1 DEF Once, CallbacksIn
  <2> QED
    BY <1>2, <2>1, <2>2
<1>4. New \subseteq RequestIds
  BY <1>2 DEF CallbacksIn
<1>5. UNCHANGED <<called, bedata, m_async_fatal_error>>
  BY DEF Enqueue, threadVars, mainVars
<1>6. TypeOK /\ NoneTwice /\ OnePlace
  BY DEF QueueInv, EmergeTypes, CallbackInv
<1>7. CASE ~ Admitted(r.peer, r.flags)
  BY <1>5, <1>7 DEF Enqueue, queueVars, r
<1>8. CASE Admitted(r.peer, r.flags) /\ r.pos \in DOMAIN m_blocks_enqueued
  <2>1. Push(a, r) /\ accepted' = accepted \cup New
    BY <1>8 DEF Enqueue, CallbacksIn, r
  <2>2. /\ DOMAIN m_blocks_enqueued' = DOMAIN m_blocks_enqueued
        /\ \A p \in DOMAIN m_blocks_enqueued :
              m_blocks_enqueued'[p] =
                  IF p = r.pos THEN MergedData(m_blocks_enqueued[p], r.flags, r.callbacks)
                  ELSE m_blocks_enqueued[p]
    BY <1>1, <1>8, <2>1, JoinKeeps DEF Push, r
  <2>3. m_blocks_enqueued[r.pos] \in BlockEmergeData
    BY <1>6, <1>8 DEF TypeOK
  <2>4. PICK s \in Seq(RequestIds) : s = m_blocks_enqueued[r.pos].callbacks
    BY <2>3 DEF BlockEmergeData
  <2>5. m_blocks_enqueued'[r.pos].callbacks = s \o r.callbacks
    <3>1. m_blocks_enqueued'[r.pos] =
              MergedData(m_blocks_enqueued[r.pos], r.flags, r.callbacks)
      BY <1>8, <2>2
    <3> QED
      BY <1>1, <2>3, <2>4, <3>1, MergedType
  <2>6. Once(s) /\ \A c \in New : ~ Waiting(r.pos, c)
    BY <1>2, <1>3, <1>6, <1>8, <2>4 DEF NoneTwice, OnePlace
  <2>7. \A i \in DOMAIN s, j \in DOMAIN r.callbacks : s[i] # r.callbacks[j]
    BY <1>8, <2>4, <2>6 DEF Waiting, CallbacksIn
  <2>8. /\ CallbacksIn(m_blocks_enqueued'[r.pos]) = CallbacksIn(m_blocks_enqueued[r.pos]) \cup New
        /\ Once(m_blocks_enqueued'[r.pos].callbacks)
    <3>1. PICK u \in Seq(RequestIds) : u = r.callbacks
      BY <1>2
    <3>2. /\ CallbacksIn(m_blocks_enqueued'[r.pos]) =
                 {(s \o u)[i] : i \in DOMAIN (s \o u)}
          /\ CallbacksIn(m_blocks_enqueued[r.pos]) = {s[i] : i \in DOMAIN s}
          /\ New = {u[i] : i \in DOMAIN u}
      BY <2>4, <2>5, <3>1 DEF CallbacksIn
    <3>3. Once(s) /\ Once(u) /\ \A i \in DOMAIN s, j \in DOMAIN u : s[i] # u[j]
      BY <1>3, <2>6, <2>7, <3>1
    <3> HIDE DEF New
    <3> QED
      BY <2>5, <3>1, <3>2, <3>3, ConcatCallbacks
  <2> HIDE DEF New
  <2>9. \A p, c : Waiting(p, c)' <=> Waiting(p, c) \/ (p = r.pos /\ c \in New)
    BY <1>8, <2>2, <2>8 DEF Waiting
  <2>10. \A p \in DOMAIN m_blocks_enqueued' : Once(m_blocks_enqueued'[p].callbacks)
    BY <1>6, <2>2, <2>8 DEF NoneTwice
  <2> QED
    BY <1>2, <1>3, <1>4, <1>5, <2>1, <2>9, <2>10, ZenonT(30)
<1>9. CASE Admitted(r.peer, r.flags) /\ r.pos \notin DOMAIN m_blocks_enqueued
  <2>1. Push(a, r) /\ accepted' = accepted \cup New
    BY <1>9 DEF Enqueue, CallbacksIn, r
  <2>2. /\ DOMAIN m_blocks_enqueued' = DOMAIN m_blocks_enqueued \cup {r.pos}
        /\ \A p \in DOMAIN m_blocks_enqueued' :
              m_blocks_enqueued'[p] =
                  IF p = r.pos THEN NewData(r) ELSE m_blocks_enqueued[p]
    BY <1>9, <2>1 DEF Push, Added
  <2>3. m_blocks_enqueued'[r.pos].callbacks = r.callbacks
    BY <1>1, <2>2, NewDataType DEF r
  <2>4. CallbacksIn(m_blocks_enqueued'[r.pos]) = New
    BY <2>3 DEF CallbacksIn
  <2> HIDE DEF New
  <2>5. \A p, c : Waiting(p, c)' <=> Waiting(p, c) \/ (p = r.pos /\ c \in New)
    BY <1>9, <2>2, <2>4 DEF Waiting
  <2>6. \A p \in DOMAIN m_blocks_enqueued' : Once(m_blocks_enqueued'[p].callbacks)
    BY <1>3, <1>6, <2>2, <2>3 DEF NoneTwice
  <2> QED
    BY <1>2, <1>3, <1>4, <1>5, <2>1, <2>5, <2>6, ZenonT(30)
<1> QED
  BY <1>7, <1>8, <1>9

\* A thread without callbacks takes those of an entry.
LEMMA PopPlaces ==
    ASSUME OverLimit = {}, QueueInv, CallbackInv, NEW t \in Threads,
           PopBlock(t) \/ CancelNext(t)
    PROVE  \E p0 :
             /\ \A p, c : Waiting(p, c)' <=> Waiting(p, c) /\ p # p0
             /\ \A u, c : With(u, c)' <=> With(u, c) \/ (u = t /\ Waiting(p0, c))
             /\ NoneTwice'
             /\ UNCHANGED <<accepted, called, m_async_fatal_error>>
<1> DEFINE p0 == Head(m_block_queue[t])
<1>1. TypeOK /\ NoneTwice /\ IdleThreads
  BY DEF QueueInv, EmergeTypes, CallbackInv
<1>2. p0 \in DOMAIN m_blocks_enqueued
  BY HeadHasEntry DEF PopBlock, CancelNext
<1>3. /\ DOMAIN m_blocks_enqueued' = DOMAIN m_blocks_enqueued \ {p0}
      /\ \A q \in DOMAIN m_blocks_enqueued' : m_blocks_enqueued'[q] = m_blocks_enqueued[q]
  BY DEF PopBlock, CancelNext, PopFront, popBlockEmergeData
<1>4. bedata' = [bedata EXCEPT ![t] = m_blocks_enqueued[p0]]
  BY DEF PopBlock, CancelNext
<1>5. UNCHANGED <<accepted, called, m_async_fatal_error>>
  BY DEF PopBlock, CancelNext, mainVars
<1>6. bedata[t].callbacks = << >>
  <2>1. pc[t] \notin Busy
    BY DEF PopBlock, CancelNext, Busy
  <2> QED
    BY <1>1, <2>1 DEF IdleThreads
<1> HIDE DEF p0
<1>7. bedata'[t] = m_blocks_enqueued[p0] /\ \A u \in Threads \ {t} : bedata'[u] = bedata[u]
  BY <1>1, <1>4 DEF TypeOK
<1>8. \A p, c : Waiting(p, c)' <=> Waiting(p, c) /\ p # p0
  BY <1>3 DEF Waiting
<1>9. \A c : ~ With(t, c)
  BY <1>6 DEF With, CallbacksIn
<1>10. \A u, c : With(u, c)' <=> With(u, c) \/ (u = t /\ Waiting(p0, c))
  BY <1>2, <1>7, <1>9 DEF With, Waiting
<1>11. NoneTwice'
  BY <1>1, <1>2, <1>3, <1>7 DEF NoneTwice
<1> QED
  BY <1>5, <1>8, <1>10, <1>11

\* A callback that is called is the thread's no more.
LEMMA CallPlaces ==
    ASSUME QueueInv, CallbackInv, NEW t \in Threads, CallBack(t)
    PROVE  \E c0 \in RequestIds :
             /\ With(t, c0) /\ called' = [called EXCEPT ![c0] = @ + 1]
             /\ \A u, c : With(u, c)' <=> With(u, c) /\ ~ (u = t /\ c = c0)
             /\ NoneTwice'
             /\ UNCHANGED <<m_blocks_enqueued, accepted, m_async_fatal_error>>
<1>1. TypeOK /\ NoneTwice
  BY DEF QueueInv, EmergeTypes, CallbackInv
<1>2. bedata[t] \in BlockEmergeData
  BY <1>1 DEF TypeOK
<1>3. PICK s \in Seq(RequestIds) : s = bedata[t].callbacks
  BY <1>2 DEF BlockEmergeData
<1>4. s # << >> /\ Once(s)
  BY <1>1, <1>3 DEF CallBack, NoneTwice
<1>5. PICK c0 \in RequestIds : c0 = Head(s)
  BY <1>3, <1>4, HeadTailTypes
<1>6. /\ {Tail(s)[i] : i \in DOMAIN Tail(s)} = {s[i] : i \in DOMAIN s} \ {c0}
      /\ c0 \in {s[i] : i \in DOMAIN s} /\ Once(Tail(s))
  BY <1>4, <1>5, TailCallbacks
<1>7. called' = [called EXCEPT ![c0] = @ + 1]
  BY <1>3, <1>5 DEF CallBack
<1>8. /\ bedata'[t] = [bedata[t] EXCEPT !.callbacks = Tail(@)]
      /\ \A u \in Threads \ {t} : bedata'[u] = bedata[u]
  BY <1>1 DEF CallBack, TypeOK
<1>9. bedata'[t].callbacks = Tail(s)
  BY <1>2, <1>3, <1>8 DEF BlockEmergeData
<1>10. CallbacksIn(bedata'[t]) = CallbacksIn(bedata[t]) \ {c0} /\ c0 \in CallbacksIn(bedata[t])
  <2>1. /\ CallbacksIn(bedata'[t]) = {Tail(s)[i] : i \in DOMAIN Tail(s)}
        /\ CallbacksIn(bedata[t]) = {s[i] : i \in DOMAIN s}
    BY <1>3, <1>9 DEF CallbacksIn
  <2> QED
    BY <1>6, <2>1
<1>11. With(t, c0) /\ \A u, c : With(u, c)' <=> With(u, c) /\ ~ (u = t /\ c = c0)
  BY <1>8, <1>10 DEF With
<1>12. UNCHANGED <<m_blocks_enqueued, accepted, m_async_fatal_error>>
  BY DEF CallBack, queueVars, mainVars
<1>13. NoneTwice'
  BY <1>1, <1>6, <1>8, <1>9, <1>12 DEF NoneTwice
<1> QED
  BY <1>7, <1>11, <1>12, <1>13

\* The steps that move no callback.
LEMMA QuietPlaces ==
    ASSUME QueueInv, CallbackInv,
           UNCHANGED <<m_blocks_enqueued, accepted, called>>,
           \A u, c : With(u, c)' <=> With(u, c), NoneTwice',
           m_async_fatal_error' = m_async_fatal_error
    PROVE  NoneTwice' /\ OnePlace' /\ SomePlace'
<1>1. \A p, c : Waiting(p, c)' <=> Waiting(p, c)
  BY DEF Waiting
<1>2. OnePlace /\ SomePlace
  BY DEF CallbackInv
<1> QED
  BY <1>1, <1>2 DEF OnePlace, SomePlace

LEMMA PlacesStep ==
    ASSUME OverLimit = {}, QueueInv, CallbackInv, [Next]_vars
    PROVE  NoneTwice' /\ OnePlace' /\ SomePlace'
<1>1. TypeOK /\ NoneTwice /\ OnePlace /\ SomePlace /\ IdleThreads
  BY DEF QueueInv, EmergeTypes, CallbackInv
<1>2. CASE UNCHANGED <<m_blocks_enqueued, accepted, called, bedata, m_async_fatal_error>>
  BY <1>1, <1>2, QuietPlaces DEF With, NoneTwice
<1>3. ASSUME NEW a \in Actors, Enqueue(a)
      PROVE  NoneTwice' /\ OnePlace' /\ SomePlace'
  <2>1. SUFFICES ASSUME NEW p0, NEW New,
                   \A p, c : Waiting(p, c)' <=> Waiting(p, c) \/ (p = p0 /\ c \in New),
                   accepted' = accepted \cup New,
                   \A c \in New : c \notin accepted /\ New = {c} /\ c \in RequestIds,
                   \A p \in DOMAIN m_blocks_enqueued' : Once(m_blocks_enqueued'[p].callbacks),
                   UNCHANGED <<called, bedata, m_async_fatal_error>>
                 PROVE  NoneTwice' /\ OnePlace' /\ SomePlace'
    BY <1>2, <1>3, EnqueuePlaces
  <2>2. \A u, c : With(u, c)' <=> With(u, c)
    BY <2>1 DEF With
  <2>3. NoneTwice'
    BY <1>1, <2>1 DEF NoneTwice
  <2>4. ASSUME NEW c \in New
        PROVE  /\ c \notin accepted /\ called[c] = 0
               /\ \A p : ~ Waiting(p, c)
               /\ \A u : ~ With(u, c)
    BY <1>1, <2>1 DEF OnePlace
  <2>5. ASSUME NEW p, NEW c, Waiting(p, c)'
        PROVE  /\ c \in accepted' /\ called'[c] = 0
               /\ \A q : Waiting(q, c)' => q = p
               /\ \A t : ~ With(t, c)'
    <3>1. CASE Waiting(p, c) /\ c \notin New
      BY <1>1, <2>1, <2>2, <3>1 DEF OnePlace
    <3>2. CASE p = p0 /\ c \in New
      BY <2>1, <2>2, <2>4, <3>2
    <3> QED
      BY <2>1, <2>4, <2>5, <3>1, <3>2
  <2>6. ASSUME NEW t, NEW c, With(t, c)'
        PROVE  /\ c \in accepted' /\ called'[c] = 0
               /\ \A u : With(u, c)' => u = t
    BY <1>1, <2>1, <2>2, <2>6 DEF OnePlace
  <2>7. \A c \in RequestIds : called'[c] \in {0, 1} /\ (c \notin accepted' => called'[c] = 0)
    BY <1>1, <2>1 DEF OnePlace
  <2>8. OnePlace'
    BY <2>5, <2>6, <2>7 DEF OnePlace
  <2>9. SomePlace'
    BY <1>1, <2>1, <2>2 DEF SomePlace
  <2> QED
    BY <2>3, <2>8, <2>9
<1>4. ASSUME NEW t \in Threads, PopBlock(t) \/ CancelNext(t)
      PROVE  NoneTwice' /\ OnePlace' /\ SomePlace'
  <2>1. PICK p0 : /\ \A p, c : Waiting(p, c)' <=> Waiting(p, c) /\ p # p0
                  /\ \A u, c : With(u, c)' <=> With(u, c) \/ (u = t /\ Waiting(p0, c))
                  /\ NoneTwice'
                  /\ UNCHANGED <<accepted, called, m_async_fatal_error>>
    BY <1>4, PopPlaces
  <2>2. ASSUME NEW p, NEW c, Waiting(p, c)'
        PROVE  /\ c \in accepted' /\ called'[c] = 0
               /\ \A q : Waiting(q, c)' => q = p
               /\ \A u : ~ With(u, c)'
    BY <1>1, <2>1, <2>2 DEF OnePlace
  <2>3. ASSUME NEW v, NEW c, With(v, c)'
        PROVE  /\ c \in accepted' /\ called'[c] = 0
               /\ \A u : With(u, c)' => u = v
    <3>1. CASE With(v, c)
      BY <1>1, <2>1, <3>1 DEF OnePlace
    <3>2. CASE v = t /\ Waiting(p0, c)
      BY <1>1, <2>1, <3>2 DEF OnePlace
    <3> QED
      BY <2>1, <2>3, <3>1, <3>2
  <2>4. OnePlace'
    BY <1>1, <2>1, <2>2, <2>3 DEF OnePlace
  <2>5. SomePlace'
    <3> SUFFICES ASSUME ~ m_async_fatal_error, NEW c \in accepted
                 PROVE  called[c] = 1 \/ (\E p : Waiting(p, c)') \/ (\E u : With(u, c)')
      BY <2>1 DEF SomePlace
    <3>1. called[c] = 1 \/ (\E p : Waiting(p, c)) \/ (\E u : With(u, c))
      BY <1>1 DEF SomePlace
    <3>2. ASSUME NEW p, Waiting(p, c)
          PROVE  (\E q : Waiting(q, c)') \/ (\E u : With(u, c)')
      <4>1. CASE p = p0
        BY <2>1, <3>2, <4>1
      <4>2. CASE p # p0
        BY <2>1, <3>2, <4>2
      <4> QED
        BY <4>1, <4>2
    <3> QED
      BY <2>1, <3>1, <3>2
  <2> QED
    BY <2>1, <2>4, <2>5
<1>5. ASSUME NEW t \in Threads, CallBack(t)
      PROVE  NoneTwice' /\ OnePlace' /\ SomePlace'
  <2>1. PICK c0 \in RequestIds :
            /\ With(t, c0) /\ called' = [called EXCEPT ![c0] = @ + 1]
            /\ \A u, c : With(u, c)' <=> With(u, c) /\ ~ (u = t /\ c = c0)
            /\ NoneTwice'
            /\ UNCHANGED <<m_blocks_enqueued, accepted, m_async_fatal_error>>
    BY <1>5, CallPlaces
  <2>2. \A p, c : Waiting(p, c)' <=> Waiting(p, c)
    BY <2>1 DEF Waiting
  <2>3. c0 \in accepted /\ called[c0] = 0
    BY <1>1, <2>1 DEF OnePlace
  <2>4. DOMAIN called = RequestIds
    BY <1>1 DEF TypeOK
  <2>5. called'[c0] = 1
    BY <2>1, <2>3, <2>4
  <2>6. \A c : c # c0 => called'[c] = called[c]
    BY <2>1, <2>4
  <2>7. ASSUME NEW p, NEW c, Waiting(p, c)
        PROVE  c # c0 /\ \A u : ~ With(u, c)
    BY <1>1, <2>1, <2>7 DEF OnePlace
  <2>8. ASSUME NEW u, NEW c, With(u, c)'
        PROVE  c # c0
    BY <1>1, <2>1, <2>8 DEF OnePlace
  <2>9. OnePlace'
    <3>1. ASSUME NEW p, NEW c, Waiting(p, c)'
          PROVE  /\ c \in accepted' /\ called'[c] = 0
                 /\ \A q : Waiting(q, c)' => q = p
                 /\ \A u : ~ With(u, c)'
      BY <1>1, <2>1, <2>2, <2>6, <2>7, <3>1 DEF OnePlace
    <3>2. ASSUME NEW v, NEW c, With(v, c)'
          PROVE  /\ c \in accepted' /\ called'[c] = 0
                 /\ \A u : With(u, c)' => u = v
      BY <1>1, <2>1, <2>6, <2>8, <3>2 DEF OnePlace
    <3>3. \A c \in RequestIds : called'[c] \in {0, 1} /\ (c \notin accepted' => called'[c] = 0)
      BY <1>1, <2>1, <2>3, <2>5, <2>6 DEF OnePlace
    <3> QED
      BY <3>1, <3>2, <3>3 DEF OnePlace
  <2>10. SomePlace'
    <3> SUFFICES ASSUME ~ m_async_fatal_error, NEW c \in accepted, c # c0
                 PROVE  called'[c] = 1 \/ (\E p : Waiting(p, c)') \/ (\E u : With(u, c)')
      BY <2>1, <2>5 DEF SomePlace
    <3> QED
      BY <1>1, <2>1, <2>2, <2>6 DEF SomePlace
  <2> QED
    BY <2>1, <2>9, <2>10
<1>6. ASSUME NEW t \in Threads, EmergeThrows(t) \/ EndCallbacks(t)
      PROVE  NoneTwice' /\ OnePlace' /\ SomePlace'
  <2>1. /\ bedata'[t] = NoData /\ \A u \in Threads \ {t} : bedata'[u] = bedata[u]
        /\ UNCHANGED <<m_blocks_enqueued, accepted, called>>
    BY <1>1, <1>6 DEF EmergeThrows, EndCallbacks, TypeOK, queueVars, history
  <2>2. CallbacksIn(NoData) = {} /\ Once(NoData.callbacks)
    BY DEF NoData, CallbacksIn, Once
  <2>3. NoneTwice'
    BY <1>1, <2>1, <2>2 DEF NoneTwice
  <2>4. \A u, c : With(u, c)' <=> With(u, c) /\ u # t
    BY <2>1, <2>2 DEF With
  <2>5. \A p, c : Waiting(p, c)' <=> Waiting(p, c)
    BY <2>1 DEF Waiting
  <2>6. CASE EmergeThrows(t)
    <3>1. m_async_fatal_error'
      BY <2>6 DEF EmergeThrows
    <3>2. OnePlace'
      BY <1>1, <2>1, <2>4, <2>5 DEF OnePlace
    <3> QED
      BY <2>3, <3>1, <3>2 DEF SomePlace
  <2>7. CASE EndCallbacks(t)
    <3>1. bedata[t].callbacks = << >>
      BY <2>7 DEF EndCallbacks
    <3>2. \A c : ~ With(t, c)
      BY <3>1 DEF With, CallbacksIn
    <3> QED
      BY <2>1, <2>3, <2>4, <2>7, <3>2, QuietPlaces DEF EndCallbacks, mainVars
  <2> QED
    BY <1>6, <2>6, <2>7
<1>7. Threads \subseteq Actors /\ ServerThread \in Actors
  BY DEF Actors
<1>8. CASE UNCHANGED vars \/ Main
  BY <1>2, <1>3, <1>7, <1>8 DEF vars, queueVars, history, threadVars, mainVars, Main,
     StartThreads, LockEnvironment, AskFromStep, Ask, UnlockEnvironment, Signal,
     StopThread, JoinThreads
<1>9. ASSUME NEW t \in Threads, Thread(t)
      PROVE  \/ UNCHANGED <<m_blocks_enqueued, accepted, called, bedata, m_async_fatal_error>>
             \/ Enqueue(t) \/ PopBlock(t) \/ CancelNext(t) \/ CallBack(t)
             \/ EmergeThrows(t) \/ EndCallbacks(t)
  BY <1>9 DEF Thread, EnterLoop, LeaveLoop, FindEmpty, WakeUp, Emerge,
     AskFromCallback, Ask, ReturnFromCallback, BeginCancel, EndCancel, Signal,
     queueVars, history, threadVars, mainVars
<1> QED
  BY <1>2, <1>3, <1>4, <1>5, <1>6, <1>7, <1>8, <1>9 DEF Next, Terminated

LEMMA CallbackInvInit == Init => CallbackInv
<1> SUFFICES ASSUME Init
             PROVE  CallbackInv
  OBVIOUS
<1>1. NoData.callbacks = << >> /\ CallbacksIn(NoData) = {} /\ Once(<< >>)
  BY DEF NoData, CallbacksIn, Once
<1>2. (\A p, c : ~ Waiting(p, c)) /\ (\A t, c : ~ With(t, c))
  BY <1>1 DEF Init, Waiting, With
<1>3. RequestsFresh
  BY DEF Init, RequestsFresh, IsAsking
<1>4. IdleThreads
  BY <1>1 DEF Init, IdleThreads
<1>5. NoneTwice
  BY <1>1 DEF Init, NoneTwice
<1>6. OnePlace /\ SomePlace
  BY <1>2 DEF Init, OnePlace, SomePlace
<1> QED
  BY <1>3, <1>4, <1>5, <1>6 DEF CallbackInv

\* "this will be called for each block emerged": while no block is beyond the
\* map limits and no thread fails, every callback that enqueueBlockEmergeEx has
\* taken waits with one entry or one thread, or has been called once; entries
\* that are joined, cancelled or served by any thread lose none and repeat none.
THEOREM CallbacksAreCalledOnce ==
    ASSUME OverLimit = {}
    PROVE  Spec => []EachCallbackOnce
<1>1. QueueInv /\ CallbackInv /\ [Next]_vars => CallbackInv'
  BY RequestsFreshStep, IdleThreadsStep, PlacesStep DEF CallbackInv
<1>2. QueueInv /\ CallbackInv => EachCallbackOnce
  <2> SUFFICES ASSUME QueueInv, CallbackInv, ~ m_async_fatal_error, NEW c \in accepted
               PROVE  called[c]
                      + Cardinality({p \in DOMAIN m_blocks_enqueued :
                                        c \in CallbacksIn(m_blocks_enqueued[p])})
                      + Cardinality({t \in Threads : c \in CallbacksIn(bedata[t])}) = 1
    BY DEF EachCallbackOnce
  <2> DEFINE Entries == {p \in DOMAIN m_blocks_enqueued :
                             c \in CallbacksIn(m_blocks_enqueued[p])}
             Holders == {t \in Threads : c \in CallbacksIn(bedata[t])}
  <2>1. (\A p : p \in Entries <=> Waiting(p, c)) /\ (\A t : t \in Holders <=> With(t, c))
    BY DEF Waiting, With
  <2>2. OnePlace /\ c \in RequestIds
    BY DEF CallbackInv, QueueInv, EmergeTypes, TypeOK
  <2> HIDE DEF Entries, Holders
  <2>3. called[c] = 1 \/ (\E p : Waiting(p, c)) \/ (\E t : With(t, c))
    BY DEF CallbackInv, SomePlace
  <2>4. ASSUME called[c] = 1
        PROVE  called[c] + Cardinality(Entries) + Cardinality(Holders) = 1
    <3>1. Entries = {} /\ Holders = {}
      BY <2>1, <2>2, <2>4 DEF OnePlace
    <3>2. Cardinality(Entries) = 0 /\ Cardinality(Holders) = 0
      BY <3>1, FS_EmptySet
    <3> QED
      BY <2>4, <3>2
  <2>5. ASSUME NEW p, Waiting(p, c)
        PROVE  called[c] + Cardinality(Entries) + Cardinality(Holders) = 1
    <3>1. called[c] = 0 /\ Entries = {p} /\ Holders = {}
      BY <2>1, <2>2, <2>5 DEF OnePlace
    <3>2. Cardinality(Entries) = 1 /\ Cardinality(Holders) = 0
      BY <3>1, FS_EmptySet, FS_Singleton
    <3> QED
      BY <3>1, <3>2
  <2>6. ASSUME NEW t, With(t, c)
        PROVE  called[c] + Cardinality(Entries) + Cardinality(Holders) = 1
    <3>1. called[c] = 0 /\ Holders = {t} /\ Entries = {}
      BY <2>1, <2>2, <2>6 DEF OnePlace
    <3>2. Cardinality(Entries) = 0 /\ Cardinality(Holders) = 1
      BY <3>1, FS_EmptySet, FS_Singleton
    <3> QED
      BY <3>1, <3>2
  <2>7. called[c] + Cardinality(Entries) + Cardinality(Holders) = 1
    BY <2>3, <2>4, <2>5, <2>6
  <2> QED
    BY <2>7 DEF Entries, Holders
<1> QED
  BY <1>1, <1>2, CallbackInvInit, QueueInvariant, PTL DEF Spec
=============================================================================
