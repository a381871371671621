----------------------- MODULE ReliableChannelProofs ------------------------
(***************************************************************************)
(* Theorems about ReliableChannel, for every width of the number space,    *)
(* every number of commands and every choice of windows and quotas; before *)
(* them what the arithmetic of sequence numbers computes (the comparisons  *)
(* of the code are comparisons of distances on the circle), and what the   *)
(* operations on the sorted packet lists preserve.                         *)
(***************************************************************************)
EXTENDS ReliableChannel, TLAPS, WellFoundedInduction, SequenceTheorems, FiniteSetTheorems

-----------------------------------------------------------------------------
(* Sequence numbers                                                        *)

\* The remainder of a number below twice the modulus.
LEMMA ModOnce ==
    ASSUME NEW M \in Nat \ {0}, NEW x \in 0 .. 2 * M - 1
    PROVE  x % M = IF x < M THEN x ELSE x - M
<1>1. CASE x < M
  BY <1>1, SMT
<1>2. CASE x >= M
  BY <1>2, SMT
<1> QED
  BY <1>1, <1>2

\* A multiple of a number that is smaller than the number is zero.
LEMMA OnlyZero ==
    ASSUME NEW M \in Nat \ {0}, NEW t \in Int, M * t < M, -M < M * t
    PROVE  t = 0
<1>1. CASE t >= 1
  <2>1. M * t >= M
    BY <1>1, SMT
  <2> QED
    BY <2>1
<1>2. CASE t <= -1
  <2>1. M * t <= -M
    BY <1>2, SMT
  <2> QED
    BY <2>1
<1> QED
  BY <1>1, <1>2

LEMMA DivMod ==
    ASSUME NEW M \in Nat \ {0}, NEW x \in Int
    PROVE  /\ x \div M \in Int /\ x % M \in 0 .. M - 1
           /\ x = M * (x \div M) + (x % M)
OBVIOUS

LEMMA RemainderUnique ==
    ASSUME NEW M \in Nat \ {0}, NEW q \in Int, NEW s \in Int,
           NEW r \in 0 .. M - 1, NEW u \in 0 .. M - 1,
           M * q + r = M * s + u
    PROVE  r = u
<1>1. M * (q - s) = u - r
  BY SMT
<1>2. q - s = 0
  BY <1>1, OnlyZero
<1> QED
  BY <1>1, <1>2

\* A step of at most the modulus wraps at most once.
LEMMA ModShift ==
    ASSUME NEW M \in Nat \ {0}, NEW x \in Int, NEW d \in 0 .. M
    PROVE  (x + d) % M = IF (x % M) + d < M THEN (x % M) + d ELSE (x % M) + d - M
<1> DEFINE q == x \div M
           r == x % M
           s == (x + d) \div M
           u == (x + d) % M
<1>1. q \in Int /\ r \in 0 .. M - 1 /\ x = M * q + r
  BY DivMod
<1>2. s \in Int /\ u \in 0 .. M - 1 /\ x + d = M * s + u
  BY DivMod
<1> HIDE DEF q, r, s, u
<1>3. CASE r + d < M
  <2>1. r + d \in 0 .. M - 1 /\ M * q + (r + d) = M * s + u
    BY <1>1, <1>2, <1>3
  <2>2. r + d = u
    BY <2>1, <1>1, <1>2, RemainderUnique
  <2> QED
    BY <2>2, <1>3 DEF r, u
<1>4. CASE ~(r + d < M)
  <2>1. PICK v \in 0 .. M - 1 : v = r + d - M
    BY <1>1, <1>4
  <2>2. PICK t \in Int : t = q + 1
    BY <1>1
  <2>3. M * t = M * q + M
    BY <1>1, <2>2
  <2>4. M * t + v = M * s + u
    BY <1>1, <1>2, <2>1, <2>2, <2>3
  <2>5. v = u
    BY <2>1, <2>2, <2>4, <1>2, RemainderUnique
  <2> QED
    BY <2>1, <2>5, <1>4 DEF r, u
<1> QED
  BY <1>3, <1>4

\* U16 of a sum of two numbers wraps at most once.
LEMMA U16Sum ==
    ASSUME NEW a \in SeqNums, NEW b \in 0 .. SEQNUM_MAX + 1
    PROVE  /\ U16(a + b) = IF a + b <= SEQNUM_MAX THEN a + b
                           ELSE a + b - (SEQNUM_MAX + 1)
           /\ U16(a + b) \in SeqNums
<1>1. PICK M \in Nat \ {0} : M = SEQNUM_MAX + 1
  BY SeqNumAssumption
<1>2. PICK x \in 0 .. 2 * M - 1 : x = a + b
  BY <1>1, SeqNumAssumption DEF SeqNums
<1>3. x % M = IF x < M THEN x ELSE x - M
  BY ModOnce, Zenon
<1> QED
  BY <1>1, <1>2, <1>3, SeqNumAssumption DEF U16, SeqNums

\* seqnum_in_window asks whether a number is fewer than window_size steps
\* ahead of the window's start, wherever the window wraps (internal.h).
THEOREM WindowIsDistance ==
    ASSUME NEW s \in SeqNums, NEW next \in SeqNums,
           NEW w \in 1 .. SEQNUM_MAX
    PROVE  seqnum_in_window(s, next, w) <=> Ahead(next, s) < w
<1>1. w \in 0 .. SEQNUM_MAX + 1
  BY SeqNumAssumption
<1>2. U16(next + w) = IF next + w <= SEQNUM_MAX THEN next + w
                      ELSE next + w - (SEQNUM_MAX + 1)
  BY <1>1, U16Sum, Zenon
<1> QED
  BY <1>2, SeqNumAssumption DEF seqnum_in_window, Ahead, SeqNums

\* Of two different numbers exactly one is seqnum_higher than the other, so a
\* packet outside of the receive window is either old or from the future and
\* never both or neither (handlePacketType_Reliable).
THEOREM HigherIsTotal ==
    ASSUME NEW a \in SeqNums, NEW b \in SeqNums, a # b
    PROVE  seqnum_higher(a, b) <=> ~seqnum_higher(b, a)
<1>1. SEQNUM_MAX \div 2 = MAX_RELIABLE_WINDOW_SIZE - 1
  BY SeqNumAssumption
<1> QED
  BY <1>1, SeqNumAssumption DEF seqnum_higher, SeqNums

\* The calculation of sendAsPacketReliable, with C++'s remainder and the
\* conversion to u16, is the number half the number space back: the sent list
\* buffers exactly the latest MAX_RELIABLE_WINDOW_SIZE - 1 numbers.
THEOREM SentWindowIsHalfSpace ==
    ASSUME NEW next \in SeqNums
    PROVE  SentWindowStart(next) = Shift(next, -MAX_RELIABLE_WINDOW_SIZE)
<1>1. PICK H \in Nat \ {0} : H = MAX_RELIABLE_WINDOW_SIZE
  BY SeqNumAssumption
<1>2. SEQNUM_MAX + 1 = 2 * H /\ next \in 0 .. 2 * H - 1
  BY <1>1, SeqNumAssumption DEF SeqNums
<1>3. CASE next >= H
  <2>1. PICK d \in 0 .. H - 1 : d = next - H
    BY <1>2, <1>3
  <2>2. d % (H + 1) = d
    OBVIOUS
  <2>3. d % (2 * H) = d
    OBVIOUS
  <2>4. next - H = d /\ d >= 0 /\ next + (-H) = d /\ ~(d > SEQNUM_MAX) /\ ~(d < 0)
    BY <2>1, <1>2, SeqNumAssumption
  <2> QED
    BY <1>1, <1>2, <2>2, <2>3, <2>4 DEF SentWindowStart, CRemainder, U16, Shift
<1>4. CASE next < H
  <2>1. PICK d \in 1 .. H : d = H - next
    BY <1>2, <1>4
  <2>2. d % (H + 1) = d
    OBVIOUS
  <2>3. (-d) % (2 * H) = 2 * H - d
    OBVIOUS
  <2>4. /\ next - H = -d /\ -(-d) = d /\ ~(-d >= 0)
        /\ next + (-H) = -d /\ ~(-d > SEQNUM_MAX) /\ -d < 0
        /\ -d + SEQNUM_MAX + 1 = 2 * H - d
    BY <2>1, <1>2, SeqNumAssumption
  <2> QED
    BY <1>1, <1>2, <2>2, <2>3, <2>4 DEF SentWindowStart, CRemainder, U16, Shift
<1> QED
  BY <1>2, <1>3, <1>4

-----------------------------------------------------------------------------
(* Sorted packet lists                                                     *)

\* A non-empty set of numbers has a smallest element.
LEMMA SmallestExists ==
    ASSUME NEW T \in SUBSET Nat, T # {}
    PROVE  \E m \in T : \A k \in T : m <= k
<1>1. IsWellFoundedOn(OpToRel(<, Nat), Nat)
  BY NatLessThanWellFounded
<1>2. PICK m \in T : \A k \in T : ~(<<k, m>> \in OpToRel(<, Nat))
  BY <1>1, WFMin
<1>3. ASSUME NEW k \in T PROVE m <= k
  <2>1. ~(k < m)
    BY <1>2 DEF OpToRel
  <2> QED
    BY <2>1
<1> QED
  BY <1>3

\* The search of insert() ends at a place where it can insert.
LEMMA InsertionPointExists ==
    ASSUME NEW S, NEW list \in Seq(S), NEW seqnum, NEW next
    PROVE  LET i == InsertionPoint(list, seqnum, next) IN
           /\ i \in 1 .. Len(list) + 1
           /\ i <= Len(list) => ~Skipped(list[i].seqnum, seqnum, next)
           /\ \A j \in 1 .. i - 1 : Skipped(list[j].seqnum, seqnum, next)
<1> DEFINE T == {i \in 1 .. Len(list) + 1 :
                   i <= Len(list) => ~Skipped(list[i].seqnum, seqnum, next)}
           Is(i) == /\ i <= Len(list) => ~Skipped(list[i].seqnum, seqnum, next)
                    /\ \A j \in 1 .. i - 1 : Skipped(list[j].seqnum, seqnum, next)
<1>1. Len(list) \in Nat
  OBVIOUS
<1>2. T \in SUBSET Nat /\ Len(list) + 1 \in T
  BY <1>1
<1>3. PICK m \in T : \A k \in T : m <= k
  BY <1>2, SmallestExists
<1>4. m \in 1 .. Len(list) + 1 /\ Is(m)
  BY <1>1, <1>3
<1>5. \E i \in 1 .. Len(list) + 1 : Is(i)
  BY <1>4
<1> QED
  BY <1>5 DEF InsertionPoint

\* The search of findPacketNoLock ends at a packet with the number.
LEMMA FindPacketExists ==
    ASSUME NEW S, NEW list \in Seq(S), NEW seqnum, HasSeqnum(list, seqnum)
    PROVE  /\ FindPacket(list, seqnum) \in 1 .. Len(list)
           /\ list[FindPacket(list, seqnum)].seqnum = seqnum
<1> DEFINE T == {i \in 1 .. Len(list) : list[i].seqnum = seqnum}
           Is(i) == /\ list[i].seqnum = seqnum
                    /\ \A j \in 1 .. i - 1 : list[j].seqnum # seqnum
<1>1. Len(list) \in Nat /\ DOMAIN list = 1 .. Len(list)
  OBVIOUS
<1>2. T \in SUBSET Nat /\ T # {}
  BY <1>1 DEF HasSeqnum
<1>3. PICK m \in T : \A k \in T : m <= k
  BY <1>2, SmallestExists
<1>4. m \in DOMAIN list /\ Is(m)
  BY <1>1, <1>3
<1>5. \E i \in DOMAIN list : Is(i)
  BY <1>4
<1>6. FindPacket(list, seqnum) \in DOMAIN list /\ Is(FindPacket(list, seqnum))
  BY <1>5 DEF FindPacket
<1> QED
  BY <1>1, <1>6

LEMMA InsertAtProperties ==
    ASSUME NEW S, NEW list \in Seq(S), NEW i \in 1 .. Len(list) + 1, NEW e \in S
    PROVE  /\ InsertAt(list, i, e) \in Seq(S)
           /\ Len(InsertAt(list, i, e)) = Len(list) + 1
           /\ \A j \in 1 .. Len(list) + 1 :
                 InsertAt(list, i, e)[j] = IF j < i THEN list[j]
                                           ELSE IF j = i THEN e ELSE list[j - 1]
<1> DEFINE a == SubSeq(list, 1, i - 1)
           b == SubSeq(list, i, Len(list))
<1>1. Len(list) \in Nat /\ \A j \in 1 .. Len(list) : list[j] \in S
  OBVIOUS
<1>2. /\ a \in Seq(S) /\ Len(a) = i - 1
      /\ \A j \in 1 .. i - 1 : a[j] = list[j]
  <2>1. \A j \in 1 .. i - 1 : list[j] \in S
    BY <1>1
  <2>2. 1 \in Int /\ i - 1 \in Int /\ (1 <= i - 1 \/ i - 1 = 0)
    BY <1>1
  <2> QED
    BY <2>1, <2>2, SubSeqProperties
<1>3. /\ b \in Seq(S) /\ Len(b) = Len(list) - i + 1
      /\ \A j \in 1 .. Len(list) - i + 1 : b[j] = list[i + j - 1]
  <2>1. \A j \in i .. Len(list) : list[j] \in S
    BY <1>1
  <2>2. i \in Int /\ Len(list) \in Int /\ (i <= Len(list) \/ Len(list) - i + 1 = 0)
    BY <1>1
  <2> QED
    BY <2>1, <2>2, SubSeqProperties
<1>4. <<e>> \in Seq(S) /\ Len(<<e>>) = 1 /\ <<e>>[1] = e
  OBVIOUS
<1> HIDE DEF a, b
<1>5. /\ a \o <<e>> \in Seq(S) /\ Len(a \o <<e>>) = i
      /\ \A j \in 1 .. i : (a \o <<e>>)[j] = IF j < i THEN list[j] ELSE e
  BY <1>1, <1>2, <1>4
<1>6. /\ (a \o <<e>>) \o b \in Seq(S)
      /\ Len((a \o <<e>>) \o b) = Len(list) + 1
      /\ \A j \in 1 .. Len(list) + 1 :
           ((a \o <<e>>) \o b)[j] = IF j <= i THEN (a \o <<e>>)[j] ELSE b[j - i]
  BY <1>1, <1>3, <1>5
<1>7. InsertAt(list, i, e) = (a \o <<e>>) \o b
  BY DEF InsertAt, a, b
<1> QED
  BY <1>1, <1>3, <1>5, <1>6, <1>7, SMTT(30)

LEMMA RemoveAtProperties ==
    ASSUME NEW S, NEW list \in Seq(S), NEW i \in 1 .. Len(list)
    PROVE  /\ RemoveAt(list, i) \in Seq(S)
           /\ Len(RemoveAt(list, i)) = Len(list) - 1
           /\ \A j \in 1 .. Len(list) - 1 :
                 RemoveAt(list, i)[j] = IF j < i THEN list[j] ELSE list[j + 1]
<1>1. Len(list) \in Nat /\ \A j \in 1 .. Len(list) : list[j] \in S
  OBVIOUS
<1>2. PICK k \in 2 .. Len(list) + 1 : k = i + 1
  BY <1>1
<1>3. PICK h \in 0 .. Len(list) - 1 : h = i - 1
  BY <1>1
<1> DEFINE a == SubSeq(list, 1, h)
           b == SubSeq(list, k, Len(list))
<1>4. /\ a \in Seq(S) /\ Len(a) = h
      /\ \A j \in 1 .. h : a[j] = list[j]
  <2>1. \A j \in 1 .. h : list[j] \in S
    BY <1>1
  <2>2. 1 \in Int /\ h \in Int /\ (1 <= h \/ h = 0)
    BY <1>1
  <2> QED
    BY <2>1, <2>2, SubSeqProperties
<1>5. /\ b \in Seq(S) /\ Len(b) = Len(list) - k + 1
      /\ \A j \in 1 .. Len(list) - k + 1 : b[j] = list[k + j - 1]
  <2>1. \A j \in k .. Len(list) : list[j] \in S
    BY <1>1
  <2>2. k \in Int /\ Len(list) \in Int /\ (k <= Len(list) \/ Len(list) - k + 1 = 0)
    BY <1>1
  <2> QED
    BY <2>1, <2>2, SubSeqProperties
<1> HIDE DEF a, b
<1>6. /\ a \o b \in Seq(S) /\ Len(a \o b) = Len(list) - 1
      /\ \A j \in 1 .. Len(list) - 1 :
           (a \o b)[j] = IF j <= h THEN a[j] ELSE b[j - h]
  <2>1. Len(a) + Len(b) = Len(list) - 1
    BY <1>1, <1>2, <1>3, <1>4, <1>5
  <2>2. /\ a \o b \in Seq(S) /\ Len(a \o b) = Len(a) + Len(b)
        /\ \A j \in 1 .. Len(a) + Len(b) :
             (a \o b)[j] = IF j <= Len(a) THEN a[j] ELSE b[j - Len(a)]
    BY <1>4, <1>5, ConcatProperties
  <2> QED
    BY <2>1, <2>2, <1>4
<1>7. RemoveAt(list, i) = a \o b
  BY <1>2, <1>3 DEF RemoveAt, a, b
<1>8. ASSUME NEW j \in 1 .. Len(list) - 1
      PROVE  (a \o b)[j] = IF j < i THEN list[j] ELSE list[j + 1]
  <2>1. CASE j <= h
    BY <2>1, <1>1, <1>3, <1>4, <1>6
  <2>2. CASE j > h
    <3>1. PICK m \in 1 .. Len(list) - k + 1 : m = j - h
      BY <2>2, <1>1, <1>2, <1>3
    <3>2. b[m] = list[k + m - 1] /\ k + m - 1 = j + 1
      BY <3>1, <1>2, <1>3, <1>5
    <3> QED
      BY <2>2, <3>1, <3>2, <1>3, <1>6
  <2>3. j <= h \/ j > h
    BY <1>1
  <2> QED
    BY <2>1, <2>2, <2>3, Zenon
<1> QED
  BY <1>6, <1>7, <1>8

\* insert() adds at most the packet it is given, and nothing of another kind.
LEMMA InsertType ==
    ASSUME NEW S, NEW list \in Seq(S), NEW p \in S, NEW next
    PROVE  insert(list, p, next) \in Seq(S)
<1>1. MakeRoom(list) \in Seq(S)
  <2>1. list = << >> \/ Tail(list) \in Seq(S)
    OBVIOUS
  <2>2. list = << >> => ~(Len(list) >= SEQNUM_MAX)
    BY SeqNumAssumption
  <2> QED
    BY <2>1, <2>2 DEF MakeRoom
<1> DEFINE l == MakeRoom(list)
           i == InsertionPoint(l, p.seqnum, next)
<1>2. i \in 1 .. Len(l) + 1
  BY <1>1, InsertionPointExists
<1>3. InsertAt(l, i, p) \in Seq(S)
  <2> HIDE DEF l, i
  <2> QED BY <1>1, <1>2, InsertAtProperties DEF l
<1> QED
  BY <1>1, <1>3 DEF insert

LEMMA PopType ==
    ASSUME NEW S, NEW list \in Seq(S), NEW seqnum, HasSeqnum(list, seqnum)
    PROVE  popSeqnum(list, seqnum) \in Seq(S)
<1>1. FindPacket(list, seqnum) \in 1 .. Len(list)
  BY FindPacketExists
<1> QED
  BY <1>1, RemoveAtProperties DEF popSeqnum
-----------------------------------------------------------------------------
(* The order of a packet list                                              *)

\* The list starts at base on the circle of numbers and goes up from there.
OrderedFrom(list, base) ==
    \A i, j \in 1 .. Len(list) :
        i < j => Ahead(base, list[i].seqnum) < Ahead(base, list[j].seqnum)

LEMMA AheadInjective ==
    ASSUME NEW base \in SeqNums, NEW s \in SeqNums, NEW t \in SeqNums
    PROVE  /\ Ahead(base, s) \in 0 .. SEQNUM_MAX
           /\ Ahead(base, s) = Ahead(base, t) => s = t
BY SeqNumAssumption DEF Ahead, SeqNums

\* The search of insert() runs past the numbers that come first on the circle.
LEMMA SkippedIsBehind ==
    ASSUME NEW base \in SeqNums, NEW s \in SeqNums, NEW t \in SeqNums
    PROVE  Skipped(s, t, base) <=> Ahead(base, s) < Ahead(base, t)
BY SeqNumAssumption DEF Skipped, Ahead, SeqNums

\* insert() of a packet that it does not reject keeps the order and every
\* packet that was there, and adds the packet unless its number is there.
LEMMA InsertProperties ==
    ASSUME NEW S, \A x \in S : x.seqnum \in SeqNums,
           NEW list \in Seq(S), NEW p \in S, NEW base \in SeqNums,
           OrderedFrom(list, base), Len(list) < SEQNUM_MAX,
           ~Rejected(p, base)
    PROVE  LET l == insert(list, p, base) IN
           /\ OrderedFrom(l, base)
           /\ \A i \in 1 .. Len(l) :
                 l[i] = p \/ \E j \in 1 .. Len(list) : l[i] = list[j]
           /\ \A i \in 1 .. Len(list) : \E j \in 1 .. Len(l) : l[j] = list[i]
           /\ \E j \in 1 .. Len(l) : l[j].seqnum = p.seqnum
<1> DEFINE k == InsertionPoint(list, p.seqnum, base)
           a(i) == Ahead(base, list[i].seqnum)
<1>1. /\ Len(list) \in Nat /\ p.seqnum \in SeqNums /\ SEQNUM_MAX \in Nat
      /\ \A i \in 1 .. Len(list) : list[i] \in S /\ list[i].seqnum \in SeqNums
  BY SeqNumAssumption
<1>6. Ahead(base, p.seqnum) \in Int /\ \A i \in 1 .. Len(list) : a(i) \in Int
  <2>1. \A t \in SeqNums : Ahead(base, t) \in 0 .. SEQNUM_MAX
    BY AheadInjective
  <2> QED
    BY <1>1, <2>1
<1>2. /\ k \in 1 .. Len(list) + 1
      /\ k <= Len(list) => ~Skipped(list[k].seqnum, p.seqnum, base)
      /\ \A j \in 1 .. k - 1 : Skipped(list[j].seqnum, p.seqnum, base)
  BY InsertionPointExists
<1>3. MakeRoom(list) = list
  BY <1>1 DEF MakeRoom
<1>4. CASE k <= Len(list) /\ list[k].seqnum = p.seqnum
  <2>1. insert(list, p, base) = list
    BY <1>3, <1>4 DEF insert
  <2> HIDE DEF k
  <2> QED
    BY <1>1, <1>2, <1>4, <2>1
<1>5. CASE ~(k <= Len(list) /\ list[k].seqnum = p.seqnum)
  <2> DEFINE l == InsertAt(list, k, p)
  <2>1. insert(list, p, base) = l
    BY <1>3, <1>5 DEF insert
  <2> HIDE DEF k
  <2>2. /\ l \in Seq(S) /\ Len(l) = Len(list) + 1
        /\ \A j \in 1 .. Len(list) + 1 :
              l[j] = IF j < k THEN list[j] ELSE IF j = k THEN p ELSE list[j - 1]
    BY <1>2, InsertAtProperties
  <2> HIDE DEF l
  <2>3. \A j \in 1 .. k - 1 : a(j) < Ahead(base, p.seqnum)
    <3>1. ASSUME NEW j \in 1 .. k - 1 PROVE a(j) < Ahead(base, p.seqnum)
      <4>1. list[j].seqnum \in SeqNums
        BY <1>1, <1>2
      <4> QED
        BY <1>1, <1>2, <4>1, SkippedIsBehind
    <3> QED
      BY <3>1
  <2>4. \A j \in k .. Len(list) : Ahead(base, p.seqnum) < a(j)
    <3>1. ASSUME k <= Len(list) PROVE Ahead(base, p.seqnum) < a(k)
      <4>1. list[k].seqnum \in SeqNums /\ list[k].seqnum # p.seqnum
        BY <1>1, <1>2, <1>5, <3>1
      <4>2. ~(a(k) < Ahead(base, p.seqnum))
        BY <1>1, <1>2, <3>1, <4>1, SkippedIsBehind
      <4>3. a(k) # Ahead(base, p.seqnum)
        BY <1>1, <4>1, AheadInjective
      <4>4. a(k) \in 0 .. SEQNUM_MAX /\ Ahead(base, p.seqnum) \in 0 .. SEQNUM_MAX
        BY <1>1, <4>1, AheadInjective
      <4> QED
        BY <4>2, <4>3, <4>4, <1>1
    <3>2. ASSUME NEW j \in k .. Len(list) PROVE Ahead(base, p.seqnum) < a(j)
      <4>1. k <= Len(list) /\ k \in 1 .. Len(list) /\ j \in 1 .. Len(list)
        BY <1>1, <1>2
      <4>2. j = k \/ a(k) < a(j)
        BY <4>1 DEF OrderedFrom
      <4>3. a(k) \in Int /\ a(j) \in Int /\ Ahead(base, p.seqnum) \in Int
        BY <1>1, <1>6, <4>1
      <4> QED
        BY <3>1, <4>1, <4>2, <4>3
    <3> QED
      BY <3>2
  <2>5. OrderedFrom(l, base)
    <3> SUFFICES ASSUME NEW i \in 1 .. Len(list) + 1, NEW j \in 1 .. Len(list) + 1,
                        i < j
                 PROVE  Ahead(base, l[i].seqnum) < Ahead(base, l[j].seqnum)
      BY <2>2 DEF OrderedFrom
    <3>1. CASE j < k
      BY <1>1, <1>2, <2>2, <3>1 DEF OrderedFrom
    <3>2. CASE j = k
      BY <1>1, <1>2, <2>2, <2>3, <3>2
    <3>3. CASE j > k /\ i = k
      <4>1. j - 1 \in k .. Len(list)
        BY <1>1, <1>2, <3>3
      <4>2. l[j] = list[j - 1] /\ l[i] = p
        BY <1>1, <1>2, <2>2, <3>3
      <4> QED
        BY <2>4, <4>1, <4>2
    <3>4. CASE j > k /\ i > k
      <4>1. i - 1 \in 1 .. Len(list) /\ j - 1 \in 1 .. Len(list) /\ i - 1 < j - 1
        BY <1>1, <1>2, <3>4
      <4>2. l[j] = list[j - 1] /\ l[i] = list[i - 1]
        BY <1>1, <1>2, <2>2, <3>4
      <4> QED
        BY <4>1, <4>2 DEF OrderedFrom
    <3>5. CASE j > k /\ i < k
      <4>1. j - 1 \in k .. Len(list) /\ i \in 1 .. k - 1 /\ i \in 1 .. Len(list)
        BY <1>1, <1>2, <3>5
      <4>2. l[j] = list[j - 1] /\ l[i] = list[i]
        BY <1>1, <1>2, <2>2, <3>5
      <4>3. a(i) < Ahead(base, p.seqnum) /\ Ahead(base, p.seqnum) < a(j - 1)
        BY <2>3, <2>4, <4>1
      <4>4. /\ a(i) \in Int /\ a(j - 1) \in Int
            /\ Ahead(base, p.seqnum) \in Int
        BY <1>1, <1>2, <1>6, <4>1
      <4> QED
        BY <4>2, <4>3, <4>4
    <3> QED
      BY <1>1, <1>2, <3>1, <3>2, <3>3, <3>4, <3>5
  <2>6. \A i \in 1 .. Len(l) : l[i] = p \/ \E j \in 1 .. Len(list) : l[i] = list[j]
    <3>1. ASSUME NEW i \in 1 .. Len(list) + 1, i # k
          PROVE  \E j \in 1 .. Len(list) : l[i] = list[j]
      <4>1. CASE i < k
        BY <1>1, <1>2, <2>2, <4>1
      <4>2. CASE i > k
        <5>1. i - 1 \in 1 .. Len(list) /\ l[i] = list[i - 1]
          BY <1>1, <1>2, <2>2, <4>2
        <5> QED
          BY <5>1
      <4> QED
        BY <1>2, <3>1, <4>1, <4>2
    <3> QED
      BY <1>2, <2>2, <3>1
  <2>7. \A i \in 1 .. Len(list) : \E j \in 1 .. Len(l) : l[j] = list[i]
    <3>1. ASSUME NEW i \in 1 .. Len(list)
          PROVE  \E j \in 1 .. Len(l) : l[j] = list[i]
      <4>1. CASE i < k
        BY <1>1, <1>2, <2>2, <4>1, SMTT(30)
      <4>2. CASE ~(i < k)
        <5>1. i + 1 \in 1 .. Len(l) /\ l[i + 1] = list[i]
          BY <1>1, <1>2, <2>2, <4>2
        <5> QED
          BY <5>1
      <4> QED
        BY <4>1, <4>2
    <3> QED
      BY <3>1
  <2>8. k \in 1 .. Len(l) /\ l[k] = p
    BY <1>2, <2>2
  <2> QED
    BY <2>1, <2>5, <2>6, <2>7, <2>8
<1> QED
  BY <1>4, <1>5

\* A list of numbers that goes up has no more entries than there is room for.
LEMMA RisingLength ==
    ASSUME NEW n \in Nat, NEW f, \A i \in 1 .. n : f[i] \in Int,
           \A i, j \in 1 .. n : i < j => f[i] < f[j],
           NEW lo \in Int, \A i \in 1 .. n : lo <= f[i]
    PROVE  \A i \in 1 .. n : lo + i - 1 <= f[i]
<1> DEFINE T == {i \in 1 .. n : ~(lo + i - 1 <= f[i])}
<1> SUFFICES ASSUME T # {} PROVE FALSE
  OBVIOUS
<1>1. T \in SUBSET Nat
  OBVIOUS
<1>2. PICK m \in T : \A k \in T : m <= k
  BY <1>1, SmallestExists
<1>3. m \in 1 .. n /\ m # 1
  BY <1>2
<1>4. m - 1 \in 1 .. n /\ m - 1 \notin T /\ f[m - 1] < f[m]
  BY <1>2, <1>3
<1> QED
  BY <1>2, <1>3, <1>4

-----------------------------------------------------------------------------
(* Numbers and the steps of the channel                                    *)

LEMMA IncrementedType ==
    ASSUME NEW s \in SeqNums
    PROVE  /\ Incremented(s) \in SeqNums
           /\ Incremented(s) = Shift(s, 1)
<1>1. PICK o \in 0 .. SEQNUM_MAX + 1 : o = 1
  BY SeqNumAssumption
<1>2. /\ U16(s + o) = IF s + o <= SEQNUM_MAX THEN s + o
                      ELSE s + o - (SEQNUM_MAX + 1)
      /\ U16(s + o) \in SeqNums
  BY <1>1, U16Sum, Zenon
<1> QED
  BY <1>1, <1>2, SeqNumAssumption DEF Incremented, Shift, SeqNums

-----------------------------------------------------------------------------
(* Types and the loop over the chunks of a command                         *)

\* The command that processReliableSendCommand works on is there, and has more
\* chunks than have been given a number, or as many; the loop runs between two
\* calls of runTimeouts.
AttemptOK ==
    /\ attempting = "no" => toadd = << >>
    /\ attempting = "run" => queued_commands # << >>
    /\ attempting = "put" => m_command_queue # << >>
    /\ attempting # "no" => pc = "commands" /\ Len(toadd) <= Current.chunks

ChannelInv == TypeOK /\ AttemptOK /\ PutBackSucceeds

LEMMA NewPacketType ==
    ASSUME TypeOK, NEW payload \in Payload
    PROVE  NewPacket(payload) \in Packet
BY DEF TypeOK, NewPacket, Packet

LEMMA PingPayloadType == PingPayload \in Payload
BY DEF PingPayload, Payload

LEMMA CurrentType ==
    ASSUME TypeOK, AttemptOK, attempting # "no"
    PROVE  Current \in Command
BY DEF TypeOK, AttemptOK, Current

LEMMA ProcessType ==
    ASSUME TypeOK, NEW p \in Packet, ProcessReliable(p)
    PROVE  /\ next_incoming_seqnum' \in SeqNums /\ received' \in Seq(Payload)
           /\ delivered' \in Seq(Nat) /\ incoming_splits' \in SUBSET Payload
<1>1. p.payload \in Payload /\ p.payload.cmd \in Nat
  BY DEF Packet, Payload
<1>2. ChunksWith(p.payload) \subseteq Payload
  BY <1>1 DEF ChunksWith, TypeOK
<1> QED
  BY <1>1, <1>2, IncrementedType DEF ProcessReliable, ProcessPayload, TypeOK

\* Every step of Next keeps the types.
LEMMA TypeStep == ChannelInv /\ [Next]_vars => TypeOK'
<1> SUFFICES ASSUME ChannelInv, [Next]_vars PROVE TypeOK'
  OBVIOUS
<1>0. TypeOK /\ AttemptOK
  BY DEF ChannelInv
<1>1. ASSUME NEW n \in ChunkCounts, Submit(n) PROVE TypeOK'
  <2>1. [id |-> submitted + 1, chunks |-> n] \in Command
    BY <1>0 DEF TypeOK, Command
  <2> QED
    BY <1>0, <1>1, <2>1, ChannelAssumption DEF Submit, TypeOK, receiverVars, wireVars
<1>2. ASSUME NEW i \in DOMAIN outgoing_reliables_sent, resendReliable(i) PROVE TypeOK'
  BY <1>0, <1>2 DEF resendReliable, TypeOK, senderVars, receiverVars
<1>3. CASE UpdateTimers
  BY <1>0, <1>3 DEF UpdateTimers, TypeOK, receiverVars, wireVars
<1>4. CASE Ping
  <2> DEFINE p == NewPacket(PingPayload)
  <2>1. p \in Packet /\ PingPayload \in Payload
    BY <1>0, NewPacketType, PingPayloadType
  <2>2. Incremented(next_outgoing_seqnum) \in SeqNums
    BY <1>0, IncrementedType DEF TypeOK
  <2> HIDE DEF p
  <2>3. \A b : insert(outgoing_reliables_sent, p, b) \in Seq(Packet)
    BY <1>0, <2>1, InsertType DEF TypeOK
  <2>4. next_outgoing_seqnum' \in SeqNums /\ log' \in Seq(Payload)
    <3>1. Append(log, PingPayload) \in Seq(Payload)
      BY <1>0, <2>1 DEF TypeOK
    <3> QED
      BY <1>0, <1>4, <2>2, <3>1 DEF Ping, TypeOK
  <2>5. /\ net' \subseteq Packet /\ outgoing_reliables_sent' \in Seq(Packet)
        /\ queued_reliables' \in Seq(Packet)
    <3>1. Append(queued_reliables, p) \in Seq(Packet)
      BY <1>0, <2>1 DEF TypeOK
    <3>2. net \cup {p} \subseteq Packet
      BY <1>0, <2>1 DEF TypeOK
    <3>3. CASE ~SeqNumAvailable
      BY <1>0, <1>4, <3>3 DEF Ping, TypeOK
    <3>4. CASE SeqNumAvailable
      BY <1>0, <1>4, <2>3, <3>1, <3>2, <3>4 DEF Ping, sendAsPacketReliable, TypeOK, p
    <3> QED
      BY <3>3, <3>4
  <2>6. pings' \in 0 .. NumPings
    BY <1>0, <1>4, ChannelAssumption DEF Ping, TypeOK
  <2> QED
    BY <1>0, <1>4, <2>4, <2>5, <2>6 DEF Ping, TypeOK, receiverVars
<1>5. CASE RunCommandQueues
  BY <1>0, <1>5 DEF RunCommandQueues, TypeOK, receiverVars, wireVars
<1>6. CASE PutReliableSendCommand
  <2>1. Head(m_command_queue) \in Command /\ Tail(m_command_queue) \in Seq(Command)
    BY <1>0, <1>6 DEF PutReliableSendCommand, TypeOK
  <2>2. Append(queued_commands, Head(m_command_queue)) \in Seq(Command)
    BY <1>0, <2>1 DEF TypeOK
  <2>3. /\ queued_commands' \in Seq(Command) /\ m_command_queue' \in Seq(Command)
        /\ attempting' \in {"no", "run", "put"}
    BY <1>0, <1>6, <2>1, <2>2 DEF PutReliableSendCommand, TypeOK
  <2> QED
    BY <1>0, <1>6, <2>3 DEF PutReliableSendCommand, TypeOK, receiverVars, wireVars
<1>7. CASE AllocateChunk
  <2> DEFINE payload == [cmd |-> Current.id, num |-> Len(toadd),
                         count |-> Current.chunks]
  <2>1. Current \in Command
    BY <1>0, <1>7, CurrentType DEF AllocateChunk
  <2>2. payload \in Payload
    <3>1. Current.id \in Nat /\ Current.chunks \in ChunkCounts
      BY <2>1 DEF Command
    <3>2. Len(toadd) \in Nat
      BY <1>0 DEF TypeOK
    <3>3. Current.chunks \in Nat
      BY <3>1, ChannelAssumption
    <3> QED
      BY <3>1, <3>2, <3>3 DEF Payload
  <2>3. NewPacket(payload) \in Packet
    BY <1>0, <2>2, NewPacketType
  <2>4. Incremented(next_outgoing_seqnum) \in SeqNums
    BY <1>0, IncrementedType DEF TypeOK
  <2> HIDE DEF payload
  <2>5. toadd' = Append(toadd, NewPacket(payload))
    BY <1>7 DEF AllocateChunk, payload
  <2> QED
    BY <1>0, <1>7, <2>3, <2>4, <2>5 DEF AllocateChunk, TypeOK, receiverVars, wireVars
<1>8. CASE QueuePackets
  <2>1. log' \in Seq(Payload)
    <3>1. \A k \in 1 .. Len(toadd) : toadd[k].payload \in Payload
      <4>1. \A k \in 1 .. Len(toadd) : toadd[k] \in Packet
        BY <1>0 DEF TypeOK
      <4>2. \A q \in Packet : q.payload \in Payload
        BY DEF Packet
      <4> QED
        BY <4>1, <4>2
    <3>2. [k \in 1 .. Len(toadd) |-> toadd[k].payload] \in Seq(Payload)
      BY <1>0, <3>1 DEF TypeOK
    <3> QED
      BY <1>0, <1>8, <3>2 DEF QueuePackets, TypeOK
  <2>2. queued_commands' \in Seq(Command) /\ m_command_queue' \in Seq(Command)
    <3>1. /\ queued_commands # << >> => Tail(queued_commands) \in Seq(Command)
          /\ m_command_queue # << >> => Tail(m_command_queue) \in Seq(Command)
      BY <1>0 DEF TypeOK
    <3>2. attempting = "run" \/ attempting = "put"
      BY <1>0, <1>8 DEF QueuePackets, TypeOK
    <3> QED
      BY <1>0, <1>8, <3>1, <3>2 DEF QueuePackets, TypeOK, AttemptOK
  <2>3. queued_reliables' \in Seq(Packet)
    BY <1>0, <1>8 DEF QueuePackets, TypeOK
  <2> QED
    <3>1. toadd' = << >> /\ << >> \in Seq(Packet) /\ attempting' = "no"
      BY <1>8 DEF QueuePackets
    <3> QED
      BY <1>0, <1>8, <2>1, <2>2, <2>3, <3>1
      DEF QueuePackets, TypeOK, receiverVars, wireVars
<1>9. CASE PutBackSequenceNumbers
  <2>1. next_outgoing_seqnum' \in SeqNums
    <3>1. toadd # << >> => toadd[1] \in Packet
      BY <1>0 DEF TypeOK
    <3>2. \A q \in Packet : q.seqnum \in SeqNums
      BY DEF Packet
    <3> QED
      BY <1>0, <1>9, <3>1, <3>2 DEF PutBackSequenceNumbers, TypeOK
  <2>2. Current \in Command
    BY <1>0, <1>9, CurrentType DEF PutBackSequenceNumbers
  <2>3. queued_commands' \in Seq(Command) /\ m_command_queue' \in Seq(Command)
    <3>1. m_command_queue # << >> => Tail(m_command_queue) \in Seq(Command)
      BY <1>0 DEF TypeOK
    <3>2. attempting = "run" \/ attempting = "put"
      BY <1>0, <1>9 DEF PutBackSequenceNumbers, TypeOK
    <3>3. Append(queued_commands, Current) \in Seq(Command)
      BY <1>0, <2>2 DEF TypeOK
    <3> QED
      BY <1>0, <1>9, <3>1, <3>2, <3>3 DEF PutBackSequenceNumbers, TypeOK, AttemptOK
  <2> QED
    BY <1>0, <1>9, <2>1, <2>3, SMTT(30) DEF PutBackSequenceNumbers, TypeOK, receiverVars, wireVars
<1>10. CASE EndCommands
  BY <1>0, <1>10, ChannelAssumption DEF EndCommands, TypeOK, receiverVars, wireVars
<1>11. CASE SendQueuedReliable
  <2>1. Head(queued_reliables) \in Packet /\ Tail(queued_reliables) \in Seq(Packet)
    BY <1>0, <1>11 DEF SendQueuedReliable, MaySend, TypeOK
  <2>2. \A b : insert(outgoing_reliables_sent, Head(queued_reliables), b) \in Seq(Packet)
    BY <1>0, <2>1, InsertType DEF TypeOK
  <2>3. net' \subseteq Packet /\ outgoing_reliables_sent' \in Seq(Packet)
    BY <1>0, <1>11, <2>1, <2>2 DEF SendQueuedReliable, sendAsPacketReliable, TypeOK
  <2>4. quota' \in 0 .. PacketQuota
    BY <1>0, <1>11, ChannelAssumption DEF SendQueuedReliable, MaySend, TypeOK
  <2> QED
    BY <1>0, <1>11, <2>1, <2>3, <2>4 DEF SendQueuedReliable, TypeOK, receiverVars
<1>12. CASE EndSendPackets
  BY <1>0, <1>12, ChannelAssumption DEF EndSendPackets, TypeOK, receiverVars, wireVars
<1>13. ASSUME NEW a \in acks, ReceiveAck(a) PROVE TypeOK'
  <2>1. outgoing_reliables_sent' \in Seq(Packet)
    BY <1>0, <1>13, PopType DEF ReceiveAck, TypeOK
  <2> QED
    BY <1>0, <1>13, <2>1 DEF ReceiveAck, TypeOK, receiverVars, wireVars
<1>14. ASSUME NEW p \in net, Receive(p) PROVE TypeOK'
  <2>1. p \in Packet
    BY <1>0 DEF TypeOK
  <2>2. ASSUME SendAck(p) PROVE acks' \subseteq Ack
    BY <1>0, <2>1, <2>2 DEF SendAck, TypeOK, Packet, Ack
  <2>3. /\ incoming_reliables' \in Seq(Packet) /\ acks' \subseteq Ack
        /\ next_incoming_seqnum' \in SeqNums /\ received' \in Seq(Payload)
        /\ delivered' \in Seq(Nat) /\ incoming_splits' \subseteq Payload
    <3>1. CASE ReceiveNow(p)
      BY <1>0, <3>1, <2>1, <2>2, ProcessType DEF ReceiveNow, TypeOK
    <3>2. CASE ReceiveAhead(p)
      BY <1>0, <3>2, <2>1, <2>2, InsertType DEF ReceiveAhead, TypeOK
    <3>3. CASE ReceiveOutOfWindow(p)
      BY <1>0, <3>3, <2>1, <2>2 DEF ReceiveOutOfWindow, TypeOK
    <3> QED
      BY <1>14, <3>1, <3>2, <3>3 DEF Receive
  <2>4. packet_queued' = TRUE /\ UNCHANGED <<senderVars, net>>
    BY <1>14 DEF Receive
  <2> QED
    BY <1>0, <2>3, <2>4 DEF TypeOK, senderVars
<1>15. CASE checkIncomingBuffers
  <2>1. CASE FirstIsDue
    <3>1. Head(incoming_reliables) \in Packet /\ Tail(incoming_reliables) \in Seq(Packet)
      BY <1>0, <2>1 DEF FirstIsDue, TypeOK
    <3> QED
      BY <1>0, <1>15, <2>1, <3>1, ProcessType
      DEF checkIncomingBuffers, TypeOK, senderVars, wireVars
  <2>2. CASE ~FirstIsDue
    BY <1>0, <1>15, <2>2 DEF checkIncomingBuffers, TypeOK, senderVars, wireVars
  <2> QED
    BY <2>1, <2>2
<1>16. ASSUME NEW p \in net, LosePacket(p) PROVE TypeOK'
  BY <1>0, <1>16 DEF LosePacket, TypeOK, senderVars, receiverVars
<1>17. ASSUME NEW a \in acks, LoseAck(a) PROVE TypeOK'
  BY <1>0, <1>17 DEF LoseAck, TypeOK, senderVars, receiverVars
<1>18. CASE UNCHANGED vars
  BY <1>0, <1>18 DEF vars, TypeOK, senderVars, receiverVars, wireVars
<1> QED
  BY <1>1, <1>2, <1>3, <1>4, <1>5, <1>6, <1>7, <1>8, <1>9, <1>10, <1>11, <1>12,
     <1>13, <1>14, <1>15, <1>16, <1>17, <1>18
  DEF Next, Endpoints, SendThread, ReceiveThread, Network
-----------------------------------------------------------------------------
(* The loop over the chunks and what gives its numbers back                *)

\* Shift by one number more is Shift and then a step.
LEMMA ShiftNext ==
    ASSUME NEW s \in SeqNums, NEW d \in 0 .. SEQNUM_MAX - 1
    PROVE  Shift(Shift(s, d), 1) = Shift(s, d + 1)
BY SeqNumAssumption DEF Shift, SeqNums

\* What a step has to leave alone so that the loop is where it was.
LEMMA AttemptStutter ==
    ASSUME ChannelInv,
           UNCHANGED <<pc, attempting, toadd, next_outgoing_seqnum, queued_commands>>,
           attempting = "put" => /\ m_command_queue' # << >>
                                 /\ Head(m_command_queue') = Head(m_command_queue)
    PROVE  AttemptOK' /\ PutBackSucceeds'
<1>1. attempting \in {"no", "run", "put"}
  BY DEF ChannelInv, TypeOK
<1>2. attempting # "no" => Current' = Current
  BY <1>1 DEF Current
<1>3. AttemptOK'
  BY <1>1, <1>2 DEF ChannelInv, AttemptOK
<1>4. PutBackSucceeds'
  BY DEF ChannelInv, PutBackSucceeds
<1> QED
  BY <1>3, <1>4

\* A step outside of the loop.
LEMMA NotAttempting ==
    ASSUME attempting' = "no", toadd' = << >>
    PROVE  AttemptOK' /\ PutBackSucceeds'
BY DEF AttemptOK, PutBackSucceeds

LEMMA AttemptStep == ChannelInv /\ [Next]_vars => AttemptOK' /\ PutBackSucceeds'
<1> SUFFICES ASSUME ChannelInv, [Next]_vars PROVE AttemptOK' /\ PutBackSucceeds'
  OBVIOUS
<1>0. TypeOK /\ AttemptOK /\ PutBackSucceeds
  BY DEF ChannelInv
<1>1. ASSUME NEW n \in ChunkCounts, Submit(n)
      PROVE  AttemptOK' /\ PutBackSucceeds'
  <2>1. m_command_queue # << >> =>
            /\ m_command_queue' # << >>
            /\ Head(m_command_queue') = Head(m_command_queue)
    <3>1. \A q \in Seq(Command) : \A c : q # << >> =>
              Append(q, c) # << >> /\ Head(Append(q, c)) = Head(q)
      OBVIOUS
    <3> QED
      BY <1>0, <1>1, <3>1 DEF Submit, TypeOK
  <2> QED
    BY <1>0, <1>1, <2>1, AttemptStutter DEF Submit, AttemptOK
<1>2. CASE \E i \in DOMAIN outgoing_reliables_sent : resendReliable(i)
  BY <1>0, <1>2, AttemptStutter DEF resendReliable, senderVars, AttemptOK
<1>3. CASE UpdateTimers
  BY <1>0, <1>3, AttemptStutter DEF UpdateTimers, AttemptOK
<1>4. CASE Ping
  <2>1. attempting = "no" /\ toadd = << >>
    BY <1>0, <1>4 DEF Ping, AttemptOK
  <2> QED
    BY <1>4, <2>1, NotAttempting DEF Ping
<1>5. CASE RunCommandQueues
  <2>1. attempting = "no" /\ toadd = << >>
    BY <1>0, <1>5 DEF RunCommandQueues, AttemptOK
  <2>2. attempting' = "run" => /\ queued_commands # << >>
                               /\ Head(queued_commands) \in Command
    BY <1>0, <1>5 DEF RunCommandQueues, TypeOK
  <2>3. attempting' = "run" => Head(queued_commands).chunks \in Nat
    BY <2>2, ChannelAssumption DEF Command
  <2> QED
    BY <1>5, <2>1, <2>2, <2>3 DEF RunCommandQueues, AttemptOK, PutBackSucceeds, Current
<1>6. CASE PutReliableSendCommand
  <2>1. toadd = << >>
    BY <1>0, <1>6 DEF PutReliableSendCommand, AttemptOK
  <2>2. Head(m_command_queue) \in Command
    BY <1>0, <1>6 DEF PutReliableSendCommand, TypeOK
  <2>3. Head(m_command_queue).chunks \in Nat
    BY <2>2, ChannelAssumption DEF Command
  <2> QED
    BY <1>6, <2>1, <2>3 DEF PutReliableSendCommand, AttemptOK, PutBackSucceeds, Current
<1>7. CASE AllocateChunk
  <2> DEFINE n == Len(toadd)
             p == NewPacket([cmd |-> Current.id, num |-> Len(toadd),
                             count |-> Current.chunks])
  <2>1. n \in Nat /\ next_outgoing_seqnum \in SeqNums
    BY <1>0 DEF TypeOK
  <2>2. Current.chunks \in Nat /\ Current.chunks < MAX_RELIABLE_WINDOW_SIZE
    <3>1. Current \in Command
      BY <1>0, <1>7, CurrentType DEF AllocateChunk
    <3> QED
      BY <3>1, ChannelAssumption DEF Command
  <2>3. n < Current.chunks
    BY <1>7 DEF AllocateChunk
  <2>4. p.seqnum = next_outgoing_seqnum
    BY DEF NewPacket
  <2> HIDE DEF p
  <2>5. /\ toadd' = Append(toadd, p)
        /\ next_outgoing_seqnum' = Shift(next_outgoing_seqnum, 1)
        /\ UNCHANGED <<pc, attempting, queued_commands, m_command_queue>>
    BY <1>7, <2>1, IncrementedType DEF AllocateChunk, p
  <2>6. /\ Len(toadd') = n + 1 /\ toadd'[n + 1] = p
        /\ \A k \in 1 .. n : toadd'[k] = toadd[k]
    BY <1>0, <2>5 DEF TypeOK
  <2>7. AttemptOK'
    <3>1. Current' = Current
      BY <2>5 DEF Current
    <3> QED
      BY <1>0, <1>7, <2>1, <2>2, <2>3, <2>5, <2>6, <3>1 DEF AllocateChunk, AttemptOK
  <2>8. ASSUME NEW k \in DOMAIN toadd'
        PROVE  Shift(toadd'[k].seqnum, Len(toadd') - k + 1) = next_outgoing_seqnum'
    <3>1. k \in 1 .. n + 1
      BY <1>0, <2>1, <2>5, <2>6 DEF TypeOK
    <3>2. CASE k = n + 1
      BY <2>1, <2>4, <2>5, <2>6, <3>2
    <3>3. CASE k \in 1 .. n
      <4>1. toadd[k].seqnum \in SeqNums
        <5>1. toadd[k] \in Packet
          BY <1>0, <3>3 DEF TypeOK
        <5> QED
          BY <5>1 DEF Packet
      <4>2. Shift(toadd[k].seqnum, n - k + 1) = next_outgoing_seqnum
        BY <1>0, <1>7, <3>3, SMTT(30) DEF PutBackSucceeds, AllocateChunk, TypeOK
      <4>3. PICK d \in 0 .. SEQNUM_MAX - 1 : d = n - k + 1
        BY <2>1, <2>2, <2>3, <3>3, SeqNumAssumption
      <4>4. Shift(Shift(toadd[k].seqnum, d), 1) = Shift(toadd[k].seqnum, d + 1)
        BY <4>1, ShiftNext
      <4>5. Len(toadd') - k + 1 = d + 1
        BY <2>1, <2>6, <3>3, <4>3
      <4> QED
        BY <2>5, <2>6, <3>3, <4>2, <4>3, <4>4, <4>5
    <3> QED
      BY <2>1, <3>1, <3>2, <3>3
  <2> QED
    BY <2>7, <2>8 DEF PutBackSucceeds
<1>8. CASE QueuePackets
  BY <1>8, NotAttempting DEF QueuePackets
<1>9. CASE PutBackSequenceNumbers
  BY <1>9, NotAttempting DEF PutBackSequenceNumbers
<1>10. CASE EndCommands
  BY <1>0, <1>10, NotAttempting DEF EndCommands, AttemptOK
<1>11. CASE SendQueuedReliable
  BY <1>0, <1>11, AttemptStutter DEF SendQueuedReliable, AttemptOK
<1>12. CASE EndSendPackets
  BY <1>0, <1>12, NotAttempting DEF EndSendPackets, AttemptOK
<1>13. CASE \E a \in acks : ReceiveAck(a)
  BY <1>0, <1>13, AttemptStutter DEF ReceiveAck, AttemptOK
<1>14. CASE ReceiveThread
  BY <1>0, <1>14, AttemptStutter
  DEF ReceiveThread, Receive, checkIncomingBuffers, senderVars, AttemptOK
<1>15. CASE Network
  BY <1>0, <1>15, AttemptStutter DEF Network, LosePacket, LoseAck, senderVars, AttemptOK
<1>16. CASE UNCHANGED vars
  BY <1>0, <1>16, AttemptStutter DEF vars, senderVars, AttemptOK
<1> QED
  BY <1>1, <1>2, <1>3, <1>4, <1>5, <1>6, <1>7, <1>8, <1>9, <1>10, <1>11, <1>12,
     <1>13, <1>14, <1>15, <1>16
  DEF Next, Endpoints, SendThread

LEMMA ChannelInvInit == Init => ChannelInv
<1> SUFFICES ASSUME Init PROVE ChannelInv
  OBVIOUS
<1>1. TypeOK
  <2>1. /\ << >> \in Seq(Command) /\ << >> \in Seq(Packet)
        /\ << >> \in Seq(Nat) /\ << >> \in Seq(Payload)
    OBVIOUS
  <2>2. 0 \in 0 .. PacketQuota /\ 0 \in 0 .. NumCommands /\ NumPings \in 0 .. NumPings
    BY ChannelAssumption
  <2> QED
    BY <2>1, <2>2, ChannelAssumption DEF Init, TypeOK
<1>2. AttemptOK /\ PutBackSucceeds
  BY DEF Init, AttemptOK, PutBackSucceeds
<1> QED
  BY <1>1, <1>2 DEF ChannelInv

LEMMA ChannelInvariant == Spec => []ChannelInv
<1>1. ChannelInv /\ [Next]_vars => ChannelInv'
  BY TypeStep, AttemptStep DEF ChannelInv
<1> QED
  BY <1>1, ChannelInvInit, PTL DEF Spec

\* Every variable keeps its type; above all every sequence number stays a u16
\* through increments, put-backs and both buffers.
THEOREM ChannelTypes == Spec => []TypeOK
<1>1. ChannelInv => TypeOK
  BY DEF ChannelInv
<1> QED
  BY <1>1, ChannelInvariant, PTL

\* The put-back loop of processReliableSendCommand never meets a number other
\* than the one given out last, so its FATAL_ERROR_IF cannot fire: nothing else
\* that takes a number runs between two chunks of a command.
THEOREM PutBackNeverFails == Spec => []PutBackSucceeds
<1>1. ChannelInv => PutBackSucceeds
  BY DEF ChannelInv
<1> QED
  BY <1>1, ChannelInvariant, PTL
-----------------------------------------------------------------------------
(* Order: the numbers, the packets and the history they stand for          *)

\* The number of the k-th payload of the channel's history, for the code that
\* counts modulo SEQNUM_MAX + 1.
NumberOf(k) == U16(SEQNUM_INITIAL + k)

LEMMA NumberAhead ==
    ASSUME NEW k \in Int, NEW d \in 0 .. SEQNUM_MAX
    PROVE  /\ NumberOf(k) \in SeqNums
           /\ Ahead(NumberOf(k), NumberOf(k + d)) = d
           /\ NumberOf(k + 1) = Incremented(NumberOf(k))
           /\ NumberOf(k + SEQNUM_MAX + 1) = NumberOf(k)
<1>1. PICK M \in Nat \ {0} : M = SEQNUM_MAX + 1
  BY SeqNumAssumption
<1>2. PICK x \in Int : x = SEQNUM_INITIAL + k
  BY ChannelAssumption DEF SeqNums
<1>3. PICK r \in 0 .. M - 1 : r = x % M
  BY DivMod
<1>4. \A e \in 0 .. M : (x + e) % M = IF r + e < M THEN r + e ELSE r + e - M
  BY <1>3, ModShift
<1>5. NumberOf(k) = r
  BY <1>1, <1>2, <1>3 DEF NumberOf, U16
<1>6. \A e \in 0 .. M : NumberOf(k + e) = IF r + e < M THEN r + e ELSE r + e - M
  <2>1. ASSUME NEW e \in 0 .. M PROVE SEQNUM_INITIAL + (k + e) = x + e
    BY <1>2, ChannelAssumption DEF SeqNums
  <2> QED
    BY <1>1, <1>4, <2>1 DEF NumberOf, U16
<1>7. NumberOf(k) \in SeqNums /\ Ahead(NumberOf(k), NumberOf(k + d)) = d
  BY <1>1, <1>3, <1>5, <1>6, SeqNumAssumption DEF SeqNums, Ahead
<1>8. NumberOf(k + 1) = Incremented(NumberOf(k))
  <2>1. PICK e \in 0 .. M : e = 1
    BY <1>1
  <2>2. NumberOf(k + 1) = IF r + 1 < M THEN r + 1 ELSE r + 1 - M
    BY <1>6, <2>1
  <2>3. Incremented(NumberOf(k)) = Shift(NumberOf(k), 1)
    BY <1>7, IncrementedType
  <2> QED
    BY <1>1, <1>3, <1>5, <2>2, <2>3, SeqNumAssumption DEF Shift
<1>9. NumberOf(k + SEQNUM_MAX + 1) = NumberOf(k)
  <2>1. PICK e \in 0 .. M : e = M
    BY <1>1
  <2>2. NumberOf(k + M) = r
    BY <1>3, <1>6, <2>1
  <2>3. k + SEQNUM_MAX + 1 = k + M
    BY <1>1, SeqNumAssumption
  <2> QED
    BY <1>5, <2>2, <2>3
<1> QED
  BY <1>7, <1>8, <1>9

\* How far two numbers are apart, for places less than a revolution apart.
LEMMA NumberDistance ==
    ASSUME NEW i \in Int, NEW j \in Int,
           i - j \in -SEQNUM_MAX .. SEQNUM_MAX
    PROVE  /\ NumberOf(i) \in SeqNums /\ NumberOf(j) \in SeqNums
           /\ Ahead(NumberOf(i), NumberOf(j)) =
                  IF i <= j THEN j - i ELSE j - i + SEQNUM_MAX + 1
           /\ NumberOf(i) = NumberOf(j) => i = j
<1>1. NumberOf(i) \in SeqNums /\ NumberOf(j) \in SeqNums
  <2>1. 0 \in 0 .. SEQNUM_MAX
    BY SeqNumAssumption
  <2> QED
    BY <2>1, NumberAhead
<1>2. CASE i <= j
  <2>1. PICK d \in 0 .. SEQNUM_MAX : d = j - i
    BY <1>2, SeqNumAssumption
  <2>2. Ahead(NumberOf(i), NumberOf(i + d)) = d /\ i + d = j
    BY <2>1, NumberAhead
  <2> QED
    BY <1>1, <1>2, <2>1, <2>2, SeqNumAssumption DEF Ahead, SeqNums
<1>3. CASE i > j
  <2>1. PICK d \in 0 .. SEQNUM_MAX : d = j - i + SEQNUM_MAX + 1
    BY <1>3, SeqNumAssumption
  <2>2. Ahead(NumberOf(i), NumberOf(i + d)) = d
    BY <2>1, NumberAhead
  <2>3. i + d = j + SEQNUM_MAX + 1 /\ 0 \in 0 .. SEQNUM_MAX
    BY <2>1, SeqNumAssumption
  <2>4. NumberOf(i + d) = NumberOf(j)
    BY <2>3, NumberAhead
  <2> QED
    BY <1>1, <1>3, <2>1, <2>2, <2>4, SeqNumAssumption DEF Ahead, SeqNums
<1> QED
  BY <1>1, <1>2, <1>3

Total == Len(log) + Len(toadd)

\* A packet stands for a payload of a history and has its number.
SoundIn(history, p) ==
    /\ p.idx \in 0 .. Len(history) - 1
    /\ p.seqnum = NumberOf(p.idx)
    /\ p.payload = history[p.idx + 1]

Sound(p) == SoundIn(log, p)

AllSound(list) == \A i \in 1 .. Len(list) : Sound(list[i])

Rising(list) ==
    \A i, j \in 1 .. Len(list) : i < j => list[i].idx < list[j].idx

\* The receiver has processed or buffered the packet.
Taken(k) == k < Len(received) \/ HeldIn(incoming_reliables, k)

Numbering == /\ next_outgoing_seqnum = NumberOf(Total)
             /\ next_incoming_seqnum = NumberOf(Len(received))

AttemptNumbered ==
    \A k \in 1 .. Len(toadd) :
        toadd[k] = [seqnum  |-> NumberOf(Len(log) + k - 1),
                    idx     |-> Len(log) + k - 1,
                    payload |-> [cmd |-> Current.id, num |-> k - 1,
                                 count |-> Current.chunks]]

PacketsSound ==
    /\ \A p \in net : Sound(p)
    /\ AllSound(queued_reliables) /\ AllSound(outgoing_reliables_sent)
    /\ AllSound(incoming_reliables)

AcksMeanTaken == \A a \in acks : a.seqnum = NumberOf(a.idx) /\ Taken(a.idx)

\* What is buffered for later is within the receive window, in order, and does
\* not hold the packet that is due unless the buffer is about to be looked at.
ReceiveBufferOK ==
    /\ Rising(incoming_reliables)
    /\ \A i \in 1 .. Len(incoming_reliables) :
          /\ incoming_reliables[i].idx >= Len(received)
          /\ incoming_reliables[i].idx
                 < Len(received) + MAX_RELIABLE_WINDOW_SIZE
          /\ ~packet_queued => incoming_reliables[i].idx # Len(received)

\* What waits for an ack is in order and less than half the numbers back.
SentListOK ==
    /\ Rising(outgoing_reliables_sent)
    /\ \A i \in 1 .. Len(outgoing_reliables_sent) :
          Total - outgoing_reliables_sent[i].idx <= MAX_RELIABLE_WINDOW_SIZE

\* Whatever was numbered after a queued packet is queued behind it, or a ping
\* that went past it.
QueueOK ==
    \A i \in 1 .. Len(queued_reliables) :
        /\ Len(log) - queued_reliables[i].idx
               <= Len(queued_reliables) - i + 1 + NumPings - pings
        /\ Total - queued_reliables[i].idx + pings < MAX_RELIABLE_WINDOW_SIZE

AttemptLimit ==
    /\ attempting = "run" => Len(queued_reliables) < MaxRequeued
    /\ attempting = "put" =>
          \E w \in Windows : Len(queued_reliables) + 1 < w \div 2

HistoryInv ==
    /\ Numbering /\ AttemptNumbered /\ PacketsSound /\ AcksMeanTaken
    /\ ReceiveBufferOK /\ SentListOK /\ QueueOK /\ AttemptLimit
    /\ NoPacketForgotten /\ InOrderDelivery

\* What NumbersSuffice says of the queue a command may find when it is tried.
LEMMA QueueRoom ==
    ASSUME NumbersSuffice, NEW n \in ChunkCounts, NEW q \in Nat,
           q = 0 \/ q < MaxRequeued \/ \E w \in Windows : q + 1 < w \div 2
    PROVE  q + n + NumPings < MAX_RELIABLE_WINDOW_SIZE
<1>1. /\ n \in Nat /\ NumPings \in Nat /\ MaxRequeued \in Nat
      /\ MAX_RELIABLE_WINDOW_SIZE \in Nat /\ \A w \in Windows : w \div 2 \in Nat
  BY ChannelAssumption, SeqNumAssumption
<1>2. CASE q = 0
  BY <1>1, <1>2 DEF NumbersSuffice, QueueBounds
<1>3. CASE q < MaxRequeued
  <2>1. MaxRequeued - 1 + n + NumPings < MAX_RELIABLE_WINDOW_SIZE
    BY DEF NumbersSuffice, QueueBounds
  <2> QED
    BY <1>1, <1>3, <2>1
<1>4. CASE \E w \in Windows : q + 1 < w \div 2
  <2>1. PICK w \in Windows : q + 1 < w \div 2
    BY <1>4
  <2>2. w \div 2 - 2 + n + NumPings < MAX_RELIABLE_WINDOW_SIZE
    BY DEF NumbersSuffice, QueueBounds
  <2>3. PICK h \in Nat : h = w \div 2
    BY <1>1
  <2>4. q + 1 < h /\ h - 2 + n + NumPings < MAX_RELIABLE_WINDOW_SIZE
    BY <2>1, <2>2, <2>3
  <2> QED
    BY <1>1, <2>4
<1> QED
  BY <1>2, <1>3, <1>4

LEMMA LengthTypes ==
    ASSUME TypeOK
    PROVE  /\ Len(log) \in Nat /\ Len(toadd) \in Nat /\ Len(received) \in Nat
           /\ Len(queued_reliables) \in Nat /\ Len(incoming_reliables) \in Nat
           /\ Len(outgoing_reliables_sent) \in Nat /\ Total \in Nat
           /\ MAX_RELIABLE_WINDOW_SIZE \in Nat \ {0}
           /\ SEQNUM_MAX = 2 * MAX_RELIABLE_WINDOW_SIZE - 1
           /\ pings \in Nat /\ NumPings \in Nat /\ pings <= NumPings
BY SeqNumAssumption, ChannelAssumption DEF TypeOK, Total

\* What a step that leaves a place of a list alone leaves in HeldIn.
LEMMA HeldInPlaces ==
    ASSUME NEW S, NEW list \in Seq(S), NEW k
    PROVE  HeldIn(list, k) <=> \E i \in 1 .. Len(list) : list[i].idx = k
BY DEF HeldIn

LEMMA PacketFields ==
    ASSUME TypeOK
    PROVE  /\ \A i \in 1 .. Len(queued_reliables) : queued_reliables[i] \in Packet
           /\ \A i \in 1 .. Len(outgoing_reliables_sent) :
                 outgoing_reliables_sent[i] \in Packet
           /\ \A i \in 1 .. Len(incoming_reliables) :
                 incoming_reliables[i] \in Packet
           /\ \A i \in 1 .. Len(toadd) : toadd[i] \in Packet
           /\ \A p \in net : p \in Packet
           /\ \A p \in Packet : p.idx \in Nat /\ p.seqnum \in SeqNums
           /\ \A a \in acks : a.idx \in Nat
<1>1. \A list \in Seq(Packet) : \A i \in 1 .. Len(list) : list[i] \in Packet
  OBVIOUS
<1>2. /\ \A p \in Packet : p.idx \in Nat /\ p.seqnum \in SeqNums
      /\ \A a \in Ack : a.idx \in Nat
  BY DEF Packet, Ack
<1>3. /\ queued_reliables \in Seq(Packet) /\ outgoing_reliables_sent \in Seq(Packet)
      /\ incoming_reliables \in Seq(Packet) /\ toadd \in Seq(Packet)
      /\ net \subseteq Packet /\ acks \subseteq Ack
  BY DEF TypeOK
<1> QED
  BY <1>1, <1>2, <1>3

\* Two packets of the history with one place are one packet.
LEMMA SoundUnique ==
    ASSUME NEW p \in Packet, NEW q \in Packet, Sound(p), Sound(q), p.idx = q.idx
    PROVE  p = q
BY DEF Packet, Sound, SoundIn

\* The receiver's first gap is not far behind.
LEMMA OutstandingReach ==
    ASSUME ChannelInv, HistoryInv
    PROVE  /\ Total <= Len(received) + 2 * MAX_RELIABLE_WINDOW_SIZE
           /\ ~packet_queued => Total <= Len(received) + MAX_RELIABLE_WINDOW_SIZE
<1> DEFINE W == MAX_RELIABLE_WINDOW_SIZE
           R == Len(received)
<1>0. TypeOK /\ AttemptOK
  BY DEF ChannelInv
<1>1. /\ R \in Nat /\ W \in Nat \ {0} /\ Len(log) \in Nat /\ Len(toadd) \in Nat
      /\ pings \in Nat /\ R <= Len(log)
  BY <1>0, LengthTypes DEF HistoryInv, InOrderDelivery
<1>2. Len(toadd) < W
  <2>1. CASE attempting = "no"
    BY <1>0, <1>1, <2>1 DEF AttemptOK
  <2>2. CASE attempting # "no"
    <3>1. Current \in Command
      BY <1>0, <2>2, CurrentType
    <3>2. Current.chunks \in Nat /\ Current.chunks < W
      BY <3>1, ChannelAssumption DEF Command
    <3> QED
      BY <1>0, <1>1, <2>2, <3>2 DEF AttemptOK
  <2> QED
    BY <2>1, <2>2
\* A place that the receiver has not taken is queued or waits for its ack.
<1>3. ASSUME NEW k \in 0 .. Len(log) - 1, ~Taken(k)
      PROVE  Total - k <= W
  <2>1. HeldIn(queued_reliables, k) \/ HeldIn(outgoing_reliables_sent, k)
    BY <1>1, <1>3 DEF HistoryInv, NoPacketForgotten, Taken
  <2>2. CASE HeldIn(queued_reliables, k)
    <3>1. PICK i \in 1 .. Len(queued_reliables) : queued_reliables[i].idx = k
      BY <1>0, <2>2 DEF HeldIn, TypeOK
    <3> QED
      BY <1>1, <3>1, SMTT(30) DEF HistoryInv, QueueOK, Total
  <2>3. CASE HeldIn(outgoing_reliables_sent, k)
    <3>1. PICK i \in 1 .. Len(outgoing_reliables_sent) :
              outgoing_reliables_sent[i].idx = k
      BY <1>0, <2>3 DEF HeldIn, TypeOK
    <3> QED
      BY <3>1 DEF HistoryInv, SentListOK
  <2> QED
    BY <2>1, <2>2, <2>3
<1>4. Total <= R + 2 * W
  <2>1. CASE R + W >= Len(log)
    BY <1>1, <1>2, <2>1 DEF Total
  <2>2. CASE R + W < Len(log)
    <3>1. PICK k \in 0 .. Len(log) - 1 : k = R + W
      BY <1>1, <2>2
    <3>2. ~HeldIn(incoming_reliables, k)
      <4>1. \A i \in 1 .. Len(incoming_reliables) :
                /\ incoming_reliables[i] \in Packet
                /\ incoming_reliables[i].idx < R + W
        BY <1>0, PacketFields DEF HistoryInv, ReceiveBufferOK
      <4>2. \A i \in 1 .. Len(incoming_reliables) : incoming_reliables[i].idx # k
        BY <1>1, <3>1, <4>1 DEF Packet
      <4> QED
        BY <1>0, <4>2, HeldInPlaces DEF TypeOK
    <3>3. ~Taken(k)
      BY <1>1, <3>1, <3>2 DEF Taken
    <3> QED
      BY <1>1, <1>3, <3>1, <3>3 DEF Total
  <2> QED
    BY <1>1, <2>1, <2>2
<1>5. ~packet_queued => Total <= R + W
  <2> SUFFICES ASSUME ~packet_queued PROVE Total <= R + W
    OBVIOUS
  <2>1. CASE R = Len(log)
    BY <1>1, <1>2, <2>1 DEF Total
  <2>2. CASE R < Len(log)
    <3>1. R \in 0 .. Len(log) - 1
      BY <1>1, <2>2
    <3>2. ~HeldIn(incoming_reliables, R)
      BY <1>0, <1>1 DEF HistoryInv, ReceiveBufferOK, HeldIn, TypeOK
    <3>3. ~Taken(R)
      BY <1>1, <3>2 DEF Taken
    <3> QED
      BY <1>1, <1>3, <3>1, <3>3 DEF Total
  <2> QED
    BY <1>1, <2>1, <2>2
<1> QED
  BY <1>4, <1>5

\* What the receiver finds out about a packet by its number is so.
LEMMA NumbersTellThePlace ==
    ASSUME ChannelInv, HistoryInv, NEW p \in net, InLifetime(p)
    PROVE  /\ p.idx \in Nat /\ Sound(p) /\ p \in Packet
           /\ InReceiveWindow(p) <=>
                  /\ Len(received) <= p.idx
                  /\ p.idx < Len(received) + MAX_RELIABLE_WINDOW_SIZE
           /\ p.seqnum = next_incoming_seqnum <=> p.idx = Len(received)
           /\ ~IsDuplicateOfDifferentPacket(p)
           /\ ~packet_queued /\ ~InReceiveWindow(p) => p.idx < Len(received)
<1> DEFINE W == MAX_RELIABLE_WINDOW_SIZE
           R == Len(received)
<1>0. TypeOK /\ SEQNUM_MAX = 2 * W - 1 /\ W \in Nat \ {0}
  BY LengthTypes DEF ChannelInv
<1>1. p \in Packet /\ p.idx \in Nat /\ Sound(p) /\ p.seqnum = NumberOf(p.idx)
  BY <1>0, PacketFields DEF HistoryInv, PacketsSound, Sound, SoundIn
<1>2. /\ R \in Nat /\ Len(log) \in Nat /\ Len(toadd) \in Nat
      /\ next_incoming_seqnum = NumberOf(R)
  BY <1>0, LengthTypes DEF HistoryInv, Numbering
<1>3. R - p.idx <= W /\ p.idx < Len(log)
  BY <1>1, <1>2 DEF InLifetime, Sound, SoundIn
<1>4. Total <= R + 2 * W /\ (~packet_queued => Total <= R + W)
  BY OutstandingReach
<1>5. R - p.idx \in -SEQNUM_MAX .. SEQNUM_MAX
  BY <1>0, <1>1, <1>2, <1>3, <1>4 DEF Total
<1>6. /\ NumberOf(R) \in SeqNums /\ NumberOf(p.idx) \in SeqNums
      /\ Ahead(NumberOf(R), NumberOf(p.idx)) =
             IF R <= p.idx THEN p.idx - R ELSE p.idx - R + SEQNUM_MAX + 1
      /\ NumberOf(R) = NumberOf(p.idx) => R = p.idx
  BY <1>1, <1>2, <1>5, NumberDistance
<1>7. InReceiveWindow(p) <=> R <= p.idx /\ p.idx < R + W
  <2>1. W \in 1 .. SEQNUM_MAX
    BY <1>0
  <2>2. InReceiveWindow(p) <=> Ahead(NumberOf(R), NumberOf(p.idx)) < W
    BY <1>1, <1>2, <1>6, <2>1, WindowIsDistance DEF InReceiveWindow
  <2> QED
    BY <1>0, <1>1, <1>2, <1>3, <1>6, <2>2
<1>8. p.seqnum = next_incoming_seqnum <=> p.idx = R
  BY <1>1, <1>2, <1>6
<1>9. ~IsDuplicateOfDifferentPacket(p)
  <2> SUFFICES ASSUME IsDuplicateOfDifferentPacket(p) PROVE FALSE
    OBVIOUS
  <2> DEFINE i == InsertionPoint(incoming_reliables, p.seqnum, next_incoming_seqnum)
             q == incoming_reliables[i]
  <2>1. /\ InReceiveWindow(p)
        /\ i <= Len(incoming_reliables) /\ q.seqnum = p.seqnum /\ q # p
    BY DEF IsDuplicateOfDifferentPacket, Corrupting, Rejected, InReceiveWindow
  <2>2. i \in 1 .. Len(incoming_reliables) + 1
    BY <1>0, InsertionPointExists DEF TypeOK
  <2> HIDE DEF i
  <2>3. i \in 1 .. Len(incoming_reliables)
    BY <1>0, <2>1, <2>2, LengthTypes
  <2>4. q \in Packet /\ Sound(q) /\ R <= q.idx /\ q.idx < R + W /\ q.idx \in Nat
    BY <1>0, <2>3, PacketFields
    DEF HistoryInv, PacketsSound, AllSound, ReceiveBufferOK
  <2> HIDE DEF q
  <2>5. NumberOf(p.idx) = NumberOf(q.idx)
    BY <1>1, <2>1, <2>4 DEF Sound, SoundIn
  <2>6. p.idx - q.idx \in -SEQNUM_MAX .. SEQNUM_MAX
    BY <1>0, <1>1, <1>2, <1>7, <2>1, <2>4
  <2>7. p.idx = q.idx
    BY <1>1, <2>4, <2>5, <2>6, NumberDistance
  <2> QED
    BY <1>1, <2>1, <2>4, <2>7, SoundUnique
<1>10. ~packet_queued /\ ~InReceiveWindow(p) => p.idx < R
  BY <1>0, <1>1, <1>2, <1>3, <1>4, <1>7 DEF Total
<1> QED
  BY <1>1, <1>7, <1>8, <1>9, <1>10

\* Every place and number of a list of packets, in terms of the history.
LEMMA InsertRising ==
    ASSUME NEW b \in Int, NEW list \in Seq(Packet), Rising(list),
           \A i \in 1 .. Len(list) :
               /\ list[i].seqnum = NumberOf(list[i].idx)
               /\ b <= list[i].idx /\ list[i].idx < b + MAX_RELIABLE_WINDOW_SIZE,
           NEW p \in Packet, p.seqnum = NumberOf(p.idx),
           b < p.idx, p.idx < b + MAX_RELIABLE_WINDOW_SIZE
    PROVE  LET l == insert(list, p, NumberOf(b)) IN
           /\ l \in Seq(Packet) /\ Rising(l)
           /\ \A i \in 1 .. Len(l) :
                 l[i] = p \/ \E j \in 1 .. Len(list) : l[i] = list[j]
           /\ \A i \in 1 .. Len(list) : \E j \in 1 .. Len(l) : l[j] = list[i]
           /\ \E j \in 1 .. Len(l) : l[j].idx = p.idx
<1> DEFINE W == MAX_RELIABLE_WINDOW_SIZE
           l == insert(list, p, NumberOf(b))
           InReach(q) == /\ q \in Packet /\ q.seqnum = NumberOf(q.idx)
                         /\ b <= q.idx /\ q.idx < b + W
<1>1. /\ W \in Nat \ {0} /\ SEQNUM_MAX = 2 * W - 1 /\ Len(list) \in Nat
      /\ \A q \in Packet : q.idx \in Nat /\ q.seqnum \in SeqNums
  BY SeqNumAssumption DEF Packet
<1>2. InReach(p) /\ \A i \in 1 .. Len(list) : InReach(list[i])
  <2>1. \A i \in 1 .. Len(list) : list[i] \in Packet
    OBVIOUS
  <2> QED
    BY <1>1, <2>1
<1>3. ASSUME NEW q, InReach(q)
      PROVE  Ahead(NumberOf(b), q.seqnum) = q.idx - b
  <2>1. q.idx \in Int /\ b - q.idx \in -SEQNUM_MAX .. SEQNUM_MAX
    BY <1>1, <1>3
  <2> QED
    BY <1>3, <2>1, NumberDistance
<1>4. NumberOf(b) \in SeqNums
  <2>1. 0 \in 0 .. SEQNUM_MAX
    BY <1>1
  <2> QED
    BY <2>1, NumberAhead
<1>5. OrderedFrom(list, NumberOf(b))
  <2> SUFFICES ASSUME NEW i \in 1 .. Len(list), NEW j \in 1 .. Len(list), i < j
               PROVE  Ahead(NumberOf(b), list[i].seqnum)
                          < Ahead(NumberOf(b), list[j].seqnum)
    BY DEF OrderedFrom
  <2>1. list[i].idx < list[j].idx /\ list[i].idx \in Int /\ list[j].idx \in Int
    BY <1>1, <1>2 DEF Rising
  <2>2. /\ Ahead(NumberOf(b), list[i].seqnum) = list[i].idx - b
        /\ Ahead(NumberOf(b), list[j].seqnum) = list[j].idx - b
    BY <1>2, <1>3
  <2> QED
    BY <2>1, <2>2
<1>6. Len(list) < SEQNUM_MAX
  <2> DEFINE f == [i \in 1 .. Len(list) |-> list[i].idx]
  <2>1. /\ \A i \in 1 .. Len(list) : f[i] \in Int /\ b <= f[i] /\ f[i] < b + W
        /\ \A i, j \in 1 .. Len(list) : i < j => f[i] < f[j]
    BY <1>1, <1>2 DEF Rising
  <2> HIDE DEF f
  <2>2. \A i \in 1 .. Len(list) : b + i - 1 <= f[i]
    BY <1>1, <2>1, RisingLength
  <2>3. W > 1
    BY <1>1, <1>2
  <2>4. CASE Len(list) = 0
    BY <1>1, <2>3, <2>4
  <2>5. CASE Len(list) # 0
    <3>1. PICK n \in 1 .. Len(list) : n = Len(list)
      BY <1>1, <2>5
    <3>2. b + n - 1 <= f[n] /\ f[n] < b + W /\ f[n] \in Int
      BY <2>1, <2>2
    <3> QED
      BY <1>1, <2>3, <3>1, <3>2
  <2> QED
    BY <2>4, <2>5
<1>7. ~Rejected(p, NumberOf(b))
  <2>1. W \in 1 .. SEQNUM_MAX
    BY <1>1
  <2>2. Ahead(NumberOf(b), p.seqnum) < W
    BY <1>1, <1>2, <1>3
  <2>3. seqnum_in_window(p.seqnum, NumberOf(b), W)
    BY <1>1, <1>2, <1>4, <2>1, <2>2, WindowIsDistance
  <2>4. p.seqnum # NumberOf(b)
    <3>1. b - p.idx \in -SEQNUM_MAX .. SEQNUM_MAX /\ p.idx \in Int
      BY <1>1, <1>2
    <3> QED
      BY <1>2, <3>1, NumberDistance
  <2> QED
    BY <2>3, <2>4 DEF Rejected
<1>8. /\ OrderedFrom(l, NumberOf(b))
      /\ \A i \in 1 .. Len(l) :
            l[i] = p \/ \E j \in 1 .. Len(list) : l[i] = list[j]
      /\ \A i \in 1 .. Len(list) : \E j \in 1 .. Len(l) : l[j] = list[i]
      /\ \E j \in 1 .. Len(l) : l[j].seqnum = p.seqnum
  <2>1. \A q \in Packet : q.seqnum \in SeqNums
    BY <1>1
  <2> QED
    BY <1>4, <1>5, <1>6, <1>7, <2>1, InsertProperties
<1>9. l \in Seq(Packet)
  BY InsertType
<1> HIDE DEF l
<1>10. \A i \in 1 .. Len(l) : InReach(l[i])
  <2> SUFFICES ASSUME NEW i \in 1 .. Len(l) PROVE InReach(l[i])
    OBVIOUS
  <2>1. CASE l[i] = p
    BY <1>2, <2>1
  <2>2. CASE \E j \in 1 .. Len(list) : l[i] = list[j]
    BY <1>2, <2>2
  <2> QED
    BY <1>8, <2>1, <2>2
<1>11. Rising(l)
  <2> SUFFICES ASSUME NEW i \in 1 .. Len(l), NEW j \in 1 .. Len(l), i < j
               PROVE  l[i].idx < l[j].idx
    BY DEF Rising
  <2>1. Ahead(NumberOf(b), l[i].seqnum) < Ahead(NumberOf(b), l[j].seqnum)
    BY <1>8 DEF OrderedFrom
  <2>2. /\ Ahead(NumberOf(b), l[i].seqnum) = l[i].idx - b
        /\ Ahead(NumberOf(b), l[j].seqnum) = l[j].idx - b
        /\ l[i].idx \in Int /\ l[j].idx \in Int
    BY <1>1, <1>3, <1>10
  <2> QED
    BY <2>1, <2>2
<1>12. \E j \in 1 .. Len(l) : l[j].idx = p.idx
  <2>1. PICK j \in 1 .. Len(l) : l[j].seqnum = p.seqnum
    BY <1>8
  <2>2. l[j].idx - b = p.idx - b /\ l[j].idx \in Int /\ p.idx \in Int
    BY <1>1, <1>2, <1>3, <1>10, <2>1
  <2> QED
    BY <2>2
<1> QED
  BY <1>8, <1>9, <1>11, <1>12 DEF l

LEMMA PopRising ==
    ASSUME NEW list \in Seq(Packet), Rising(list), NEW s, HasSeqnum(list, s)
    PROVE  LET l == popSeqnum(list, s) IN
           /\ l \in Seq(Packet) /\ Rising(l)
           /\ \A i \in 1 .. Len(l) : \E j \in 1 .. Len(list) : l[i] = list[j]
           /\ \A i \in 1 .. Len(list) :
                 list[i].seqnum # s => \E j \in 1 .. Len(l) : l[j] = list[i]
<1> DEFINE k == FindPacket(list, s)
           l == RemoveAt(list, k)
<1>1. Len(list) \in Nat
  OBVIOUS
<1>2. k \in 1 .. Len(list) /\ list[k].seqnum = s
  BY FindPacketExists
<1> HIDE DEF k
<1>3. /\ l \in Seq(Packet) /\ Len(l) = Len(list) - 1
      /\ \A j \in 1 .. Len(list) - 1 : l[j] = IF j < k THEN list[j] ELSE list[j + 1]
  BY <1>2, RemoveAtProperties
<1> HIDE DEF l
<1> DEFINE from(j) == IF j < k THEN j ELSE j + 1
<1>4. \A j \in 1 .. Len(l) : from(j) \in 1 .. Len(list) /\ l[j] = list[from(j)]
  BY <1>1, <1>2, <1>3
<1>5. \A i, j \in 1 .. Len(l) : i < j => from(i) < from(j)
  BY <1>1, <1>2, <1>3
<1> HIDE DEF from
<1>6. Rising(l)
  BY <1>4, <1>5 DEF Rising
<1>7. ASSUME NEW i \in 1 .. Len(list), list[i].seqnum # s
      PROVE  \E j \in 1 .. Len(l) : l[j] = list[i]
  <2>1. i # k
    BY <1>2, <1>7
  <2>2. CASE i < k
    <3>1. i \in 1 .. Len(l) /\ l[i] = list[i]
      BY <1>1, <1>2, <1>3, <2>2
    <3> QED
      BY <3>1
  <2>3. CASE i > k
    <3>1. i - 1 \in 1 .. Len(l) /\ l[i - 1] = list[i]
      BY <1>1, <1>2, <1>3, <2>3
    <3> QED
      BY <3>1
  <2> QED
    BY <1>1, <1>2, <2>1, <2>2, <2>3
<1>8. popSeqnum(list, s) = l
  BY DEF popSeqnum, l, k
<1> QED
  BY <1>3, <1>4, <1>6, <1>7, <1>8

-----------------------------------------------------------------------------
(* Each step keeps the history invariant                                   *)

\* Any copies of sound packets may be on the wire, and any acks be gone.
LEMMA HistoryStutter ==
    ASSUME HistoryInv,
           UNCHANGED <<log, toadd, next_outgoing_seqnum, queued_reliables,
                       outgoing_reliables_sent, next_incoming_seqnum,
                       incoming_reliables, packet_queued, received>>,
           pings' = pings, toadd # << >> => Current' = Current,
           \A p \in net' : Sound(p), acks' \subseteq acks, AttemptLimit'
    PROVE  HistoryInv'
<1>1. Total' = Total
  BY DEF Total
<1>2. \A p : Sound(p)' <=> Sound(p)
  BY DEF Sound, SoundIn
<1>3. \A k : Taken(k)' <=> Taken(k)
  BY DEF Taken, HeldIn
<1>4. Numbering'
  BY <1>1 DEF HistoryInv, Numbering, NumberOf
<1>5. AttemptNumbered'
  <2>1. CASE toadd = << >>
    BY <2>1 DEF AttemptNumbered
  <2>2. CASE toadd # << >>
    BY <2>2 DEF HistoryInv, AttemptNumbered, NumberOf
  <2> QED
    BY <2>1, <2>2
<1>6. PacketsSound'
  BY <1>2 DEF HistoryInv, PacketsSound, AllSound
<1>7. AcksMeanTaken'
  BY <1>3 DEF HistoryInv, AcksMeanTaken, NumberOf
<1>8. ReceiveBufferOK'
  BY DEF HistoryInv, ReceiveBufferOK, Rising
<1>9. SentListOK'
  BY <1>1 DEF HistoryInv, SentListOK, Rising
<1>10. QueueOK'
  BY <1>1 DEF HistoryInv, QueueOK
<1>11. NoPacketForgotten'
  BY DEF HistoryInv, NoPacketForgotten, HeldIn
<1>12. InOrderDelivery'
  BY DEF HistoryInv, InOrderDelivery
<1> QED
  BY <1>4, <1>5, <1>6, <1>7, <1>8, <1>9, <1>10, <1>11, <1>12 DEF HistoryInv

\* The steps that touch none of the numbers.
LEMMA QuietSteps ==
    ASSUME ChannelInv, HistoryInv,
           \/ \E n \in ChunkCounts : Submit(n)
           \/ \E i \in DOMAIN outgoing_reliables_sent : resendReliable(i)
           \/ UpdateTimers \/ RunCommandQueues \/ PutReliableSendCommand
           \/ EndCommands \/ EndSendPackets
           \/ Network \/ UNCHANGED vars
    PROVE  HistoryInv'
<1>0. /\ TypeOK /\ AttemptOK /\ AttemptLimit
      /\ attempting \in {"no", "run", "put"} /\ (\A p \in net : Sound(p))
  BY DEF ChannelInv, TypeOK, HistoryInv, PacketsSound
<1>1. ASSUME NEW n \in ChunkCounts, Submit(n) PROVE HistoryInv'
  <2>1. attempting = "put" => Head(m_command_queue') = Head(m_command_queue)
    <3>1. \A q \in Seq(Command) : \A c : q # << >> => Head(Append(q, c)) = Head(q)
      OBVIOUS
    <3> QED
      BY <1>0, <1>1, <3>1 DEF Submit, TypeOK, AttemptOK
  <2>2. toadd # << >> => Current' = Current
    BY <1>0, <1>1, <2>1 DEF Submit, Current, AttemptOK
  <2> QED
    BY <1>0, <1>1, <2>2, HistoryStutter
    DEF Submit, receiverVars, wireVars, AttemptLimit
<1>2. ASSUME NEW i \in DOMAIN outgoing_reliables_sent, resendReliable(i)
      PROVE  HistoryInv'
  <2>1. Sound(outgoing_reliables_sent[i])
    <3>1. i \in 1 .. Len(outgoing_reliables_sent)
      BY <1>0 DEF TypeOK
    <3> QED
      BY <3>1 DEF HistoryInv, PacketsSound, AllSound
  <2> QED
    BY <1>0, <1>2, <2>1, HistoryStutter
    DEF resendReliable, senderVars, receiverVars, AttemptLimit, Current
<1>3. CASE UpdateTimers
  BY <1>0, <1>3, HistoryStutter
  DEF UpdateTimers, receiverVars, wireVars, AttemptLimit, Current
<1>4. CASE RunCommandQueues
  <2>1. toadd = << >>
    BY <1>0, <1>4 DEF RunCommandQueues, AttemptOK
  <2>2. AttemptLimit'
    BY <1>4 DEF RunCommandQueues, AttemptLimit
  <2> QED
    BY <1>0, <1>4, <2>1, <2>2, HistoryStutter
    DEF RunCommandQueues, receiverVars, wireVars
<1>5. CASE PutReliableSendCommand
  <2>1. toadd = << >>
    BY <1>0, <1>5 DEF PutReliableSendCommand, AttemptOK
  <2>2. AttemptLimit'
    BY <1>0, <1>5 DEF PutReliableSendCommand, AttemptLimit, TypeOK
  <2> QED
    BY <1>0, <1>5, <2>1, <2>2, HistoryStutter
    DEF PutReliableSendCommand, receiverVars, wireVars
<1>6. CASE EndCommands
  BY <1>0, <1>6, HistoryStutter
  DEF EndCommands, receiverVars, wireVars, AttemptLimit, Current
<1>7. CASE EndSendPackets
  BY <1>0, <1>7, HistoryStutter
  DEF EndSendPackets, receiverVars, wireVars, AttemptLimit, Current
<1>8. CASE Network
  BY <1>0, <1>8, HistoryStutter
  DEF Network, LosePacket, LoseAck, senderVars, receiverVars, AttemptLimit, Current
<1>9. CASE UNCHANGED vars
  BY <1>0, <1>9, HistoryStutter
  DEF vars, senderVars, receiverVars, wireVars, AttemptLimit, Current
<1> QED
  BY <1>1, <1>2, <1>3, <1>4, <1>5, <1>6, <1>7, <1>8, <1>9

LEMMA SentWindowNumber ==
    ASSUME NEW t \in Int
    PROVE  SentWindowStart(NumberOf(t)) = NumberOf(t - MAX_RELIABLE_WINDOW_SIZE)
<1> DEFINE W == MAX_RELIABLE_WINDOW_SIZE
<1>1. /\ W \in Nat \ {0} /\ SEQNUM_MAX = 2 * W - 1 /\ t - W \in Int
      /\ (t - W) - t \in -SEQNUM_MAX .. SEQNUM_MAX
  BY SeqNumAssumption
<1>2. /\ NumberOf(t - W) \in SeqNums /\ NumberOf(t) \in SeqNums
      /\ Ahead(NumberOf(t - W), NumberOf(t)) = W
  BY <1>1, NumberDistance
<1>3. SentWindowStart(NumberOf(t)) = Shift(NumberOf(t), -W)
  BY <1>2, SentWindowIsHalfSpace
<1> QED
  BY <1>1, <1>2, <1>3 DEF Ahead, Shift, SeqNums

\* When a number is available, what waits for an ack stays less than half the
\* numbers back (getOutgoingSequenceNumber looks at the oldest one only).
LEMMA AvailableRoom ==
    ASSUME ChannelInv, HistoryInv, SeqNumAvailable
    PROVE  \A i \in 1 .. Len(outgoing_reliables_sent) :
               Total + 1 - outgoing_reliables_sent[i].idx <= MAX_RELIABLE_WINDOW_SIZE
<1> DEFINE W == MAX_RELIABLE_WINDOW_SIZE
           first == outgoing_reliables_sent[1]
<1> SUFFICES ASSUME NEW i \in 1 .. Len(outgoing_reliables_sent)
             PROVE  Total + 1 - outgoing_reliables_sent[i].idx <= W
  OBVIOUS
<1>0. TypeOK /\ W \in Nat \ {0} /\ SEQNUM_MAX = 2 * W - 1 /\ Total \in Nat
  BY LengthTypes DEF ChannelInv
<1>1. 1 \in 1 .. Len(outgoing_reliables_sent) /\ outgoing_reliables_sent # << >>
  BY <1>0 DEF TypeOK
<1>2. /\ first \in Packet /\ first.idx \in Nat /\ first.idx < Total
      /\ first.seqnum = NumberOf(first.idx) /\ Total - first.idx <= W
  <2>1. Sound(first)
    BY <1>1 DEF HistoryInv, PacketsSound, AllSound
  <2>2. first.idx \in 0 .. Len(log) - 1
    BY <2>1 DEF Sound, SoundIn
  <2> QED
    BY <1>0, <1>1, <2>1, <2>2, PacketFields, LengthTypes, SMTT(30)
    DEF HistoryInv, SentListOK, Sound, SoundIn, Total
<1>3. outgoing_reliables_sent[i].idx \in Nat /\ first.idx <= outgoing_reliables_sent[i].idx
  <2>1. i = 1 \/ 1 < i
    BY <1>1
  <2>2. outgoing_reliables_sent[i].idx \in Nat
    BY <1>0, PacketFields
  <2> QED
    BY <1>1, <1>2, <2>1, <2>2 DEF HistoryInv, SentListOK, Rising
<1> HIDE DEF first
<1>4. /\ ~WindowExceeded(NumberOf(Total), NumberOf(first.idx), m_window_size)
      /\ m_window_size \in Windows /\ m_window_size \in Nat /\ m_window_size + 2 <= W
  BY <1>0, <1>1, <1>2, ChannelAssumption
  DEF SeqNumAvailable, getFirstSeqnum, HistoryInv, Numbering, TypeOK, first
<1>5. first.idx - Total \in -SEQNUM_MAX .. SEQNUM_MAX
  BY <1>0, <1>2
<1>6. /\ NumberOf(Total) \in SeqNums /\ NumberOf(first.idx) \in SeqNums
      /\ Ahead(NumberOf(first.idx), NumberOf(Total)) = Total - first.idx
      /\ Total - first.idx # 0
  BY <1>0, <1>2, <1>5, NumberDistance
<1>7. Total - first.idx <= m_window_size + 1
  BY <1>0, <1>2, <1>4, <1>6 DEF WindowExceeded, Ahead, SeqNums
<1> QED
  BY <1>0, <1>2, <1>3, <1>4, <1>7

\* sendAsPacketReliable buffers a packet that is not far behind.
LEMMA SendInsert ==
    ASSUME ChannelInv, HistoryInv, NEW t \in Nat, Total <= t,
           \A i \in 1 .. Len(outgoing_reliables_sent) :
               t - outgoing_reliables_sent[i].idx <= MAX_RELIABLE_WINDOW_SIZE,
           NEW p \in Packet, p.seqnum = NumberOf(p.idx), p.idx < t,
           t - p.idx < MAX_RELIABLE_WINDOW_SIZE
    PROVE  LET l == insert(outgoing_reliables_sent, p, SentWindowStart(NumberOf(t))) IN
           /\ l \in Seq(Packet) /\ Rising(l)
           /\ \A i \in 1 .. Len(l) :
                 /\ l[i] = p \/ \E j \in 1 .. Len(outgoing_reliables_sent) :
                                   l[i] = outgoing_reliables_sent[j]
                 /\ t - l[i].idx <= MAX_RELIABLE_WINDOW_SIZE
           /\ \A k : HeldIn(outgoing_reliables_sent, k) \/ k = p.idx => HeldIn(l, k)
<1> DEFINE W == MAX_RELIABLE_WINDOW_SIZE
           l == insert(outgoing_reliables_sent, p, NumberOf(t - W))
<1>0. /\ TypeOK /\ W \in Nat \ {0} /\ Total \in Nat /\ p.idx \in Nat /\ t - W \in Int
      /\ Len(log) \in Nat /\ Len(toadd) \in Nat
  BY LengthTypes DEF ChannelInv, Packet
<1>1. SentWindowStart(NumberOf(t)) = NumberOf(t - W)
  BY SentWindowNumber
<1>2. /\ outgoing_reliables_sent \in Seq(Packet) /\ Rising(outgoing_reliables_sent)
  BY <1>0 DEF TypeOK, HistoryInv, SentListOK
<1>3. ASSUME NEW i \in 1 .. Len(outgoing_reliables_sent)
      PROVE  LET q == outgoing_reliables_sent[i] IN
             /\ q.seqnum = NumberOf(q.idx) /\ q.idx \in Nat
             /\ t - W <= q.idx /\ q.idx < (t - W) + W
  <2>1. Sound(outgoing_reliables_sent[i])
    BY DEF HistoryInv, PacketsSound, AllSound
  <2> QED
    BY <1>0, <2>1, SMTT(30) DEF Sound, SoundIn, Total
<1>4. t - W < p.idx /\ p.idx < (t - W) + W
  BY <1>0
<1>5. /\ l \in Seq(Packet) /\ Rising(l)
      /\ \A i \in 1 .. Len(l) : l[i] = p \/ \E j \in 1 .. Len(outgoing_reliables_sent) :
                                                l[i] = outgoing_reliables_sent[j]
      /\ \A i \in 1 .. Len(outgoing_reliables_sent) :
            \E j \in 1 .. Len(l) : l[j] = outgoing_reliables_sent[i]
      /\ \E j \in 1 .. Len(l) : l[j].idx = p.idx
  <2>1. PICK b \in Int : b = t - W
    BY <1>0
  <2>2. /\ \A i \in 1 .. Len(outgoing_reliables_sent) :
              /\ outgoing_reliables_sent[i].seqnum
                     = NumberOf(outgoing_reliables_sent[i].idx)
              /\ b <= outgoing_reliables_sent[i].idx
              /\ outgoing_reliables_sent[i].idx < b + W
        /\ b < p.idx /\ p.idx < b + W
    BY <1>3, <1>4, <2>1
  <2> QED
    BY <1>2, <2>1, <2>2, InsertRising
<1> HIDE DEF l
<1>6. ASSUME NEW i \in 1 .. Len(l) PROVE t - l[i].idx <= W
  <2>1. CASE l[i] = p
    BY <1>0, <2>1
  <2>2. CASE \E j \in 1 .. Len(outgoing_reliables_sent) : l[i] = outgoing_reliables_sent[j]
    BY <1>0, <1>3, <2>2
  <2> QED
    BY <1>5, <2>1, <2>2
<1>7. ASSUME NEW k, HeldIn(outgoing_reliables_sent, k) \/ k = p.idx
      PROVE  HeldIn(l, k)
  <2>1. CASE k = p.idx
    BY <1>5, <2>1, HeldInPlaces
  <2>2. CASE HeldIn(outgoing_reliables_sent, k)
    <3>1. PICK i \in 1 .. Len(outgoing_reliables_sent) : outgoing_reliables_sent[i].idx = k
      BY <1>2, <2>2, HeldInPlaces
    <3>2. PICK j \in 1 .. Len(l) : l[j] = outgoing_reliables_sent[i]
      BY <1>5
    <3> QED
      BY <1>5, <3>1, <3>2, HeldInPlaces
  <2> QED
    BY <1>7, <2>1, <2>2
<1>8. SentWindowStart(NumberOf(t)) = NumberOf(t - W) => insert(outgoing_reliables_sent, p, SentWindowStart(NumberOf(t))) = l
  BY DEF l
<1> QED
  BY <1>1, <1>5, <1>6, <1>7, <1>8

LEMMA SoundKept ==
    ASSUME Len(log) \in Nat, Len(log') \in Nat, Len(log) <= Len(log'),
           \A k \in 1 .. Len(log) : log'[k] = log[k], NEW p, Sound(p)
    PROVE  SoundIn(log', p)
<1>1. p.idx \in 0 .. Len(log) - 1 /\ p.idx + 1 \in 1 .. Len(log)
  BY DEF Sound, SoundIn
<1>2. log'[p.idx + 1] = log[p.idx + 1]
  BY <1>1
<1> QED
  BY <1>1, <1>2 DEF Sound, SoundIn, NumberOf

LEMMA InOrderKept ==
    ASSUME InOrderDelivery, Len(log) \in Nat, Len(log') \in Nat, Len(received) \in Nat,
           Len(log) <= Len(log'), \A k \in 1 .. Len(log) : log'[k] = log[k],
           received' = received
    PROVE  InOrderDelivery'
BY DEF InOrderDelivery

LEMMA PingStep ==
    ASSUME NumbersSuffice, ChannelInv, ChannelInv', HistoryInv, Ping
    PROVE  HistoryInv'
<1> DEFINE W == MAX_RELIABLE_WINDOW_SIZE
           p == NewPacket(PingPayload)
<1>0. /\ TypeOK /\ TypeOK' /\ AttemptOK /\ toadd = << >> /\ attempting = "no"
      /\ toadd' = << >> /\ attempting' = "no" /\ Len(toadd) = 0 /\ Len(toadd') = 0
  BY DEF ChannelInv, AttemptOK, Ping
<1>1. /\ Len(log) \in Nat /\ Len(log') \in Nat /\ Len(received) \in Nat
      /\ W \in Nat \ {0} /\ Total = Len(log) /\ Total \in Nat /\ Total' = Len(log')
      /\ pings \in Nat /\ pings' = pings - 1 /\ NumPings \in Nat
      /\ pings > 0 /\ pings <= NumPings
  BY <1>0, LengthTypes, SMTT(30) DEF Total, Ping, TypeOK
<1>2. /\ UNCHANGED <<next_incoming_seqnum, incoming_reliables, packet_queued, received>>
      /\ acks' = acks
  BY DEF Ping, receiverVars
<1>3. /\ AttemptNumbered' /\ AttemptLimit' /\ ReceiveBufferOK' /\ AcksMeanTaken'
  BY <1>0, <1>2 DEF AttemptNumbered, AttemptLimit, HistoryInv, ReceiveBufferOK, Rising,
     AcksMeanTaken, Taken, HeldIn, NumberOf
\* Without a number nothing happens.
<1>4. CASE ~SeqNumAvailable
  <2>1. UNCHANGED <<next_outgoing_seqnum, log, net, outgoing_reliables_sent,
                    queued_reliables>>
    BY <1>4 DEF Ping
  <2>2. Numbering' /\ PacketsSound' /\ SentListOK' /\ NoPacketForgotten' /\ InOrderDelivery'
    BY <1>1, <1>2, <2>1
    DEF HistoryInv, Numbering, NumberOf, PacketsSound, AllSound, Sound, SoundIn, SentListOK,
        Rising, NoPacketForgotten, HeldIn, InOrderDelivery
  <2>3. QueueOK'
    <3> SUFFICES ASSUME NEW i \in 1 .. Len(queued_reliables)
                 PROVE  /\ Len(log) - queued_reliables[i].idx
                               <= Len(queued_reliables) - i + 1 + NumPings - pings'
                        /\ Total - queued_reliables[i].idx + pings' < W
      BY <1>1, <2>1 DEF QueueOK
    <3>1. queued_reliables[i].idx \in Nat /\ Len(queued_reliables) \in Nat
      BY <1>0, PacketFields, LengthTypes
    <3>2. /\ Len(log) - queued_reliables[i].idx
               <= Len(queued_reliables) - i + 1 + NumPings - pings
          /\ Total - queued_reliables[i].idx + pings < W
      BY DEF HistoryInv, QueueOK
    <3>3. Len(log) - queued_reliables[i].idx
               <= Len(queued_reliables) - i + 1 + NumPings - pings'
      BY <1>1, <3>1, <3>2
    <3>4. Total - queued_reliables[i].idx + pings' < W
      <4>1. Total \in Nat /\ pings \in Nat /\ pings' = pings - 1 /\ W \in Nat
        BY <1>1
      <4> QED
        BY <3>1, <3>2, <4>1
    <3> QED
      BY <3>3, <3>4
  <2> QED
    BY <1>3, <2>2, <2>3 DEF HistoryInv
<1>5. CASE SeqNumAvailable
  <2>1. /\ log' = Append(log, PingPayload) /\ Len(log') = Len(log) + 1
        /\ \A k \in 1 .. Len(log) : log'[k] = log[k]
        /\ log'[Len(log) + 1] = PingPayload
        /\ next_outgoing_seqnum' = Incremented(next_outgoing_seqnum)
    <3>1. log \in Seq(Payload)
      BY <1>0 DEF TypeOK
    <3>2. log' = Append(log, PingPayload)
      BY <1>5 DEF Ping
    <3> QED
      BY <1>5, <3>1, <3>2 DEF Ping
  <2>2. next_outgoing_seqnum' = NumberOf(Total + 1)
    <3>1. 0 \in 0 .. SEQNUM_MAX /\ Total \in Int
      BY <1>1, SeqNumAssumption
    <3> QED
      BY <2>1, <3>1, NumberAhead DEF HistoryInv, Numbering
  <2>3. Numbering'
    BY <1>1, <1>2, <2>1, <2>2 DEF HistoryInv, Numbering, NumberOf
  <2>4. InOrderDelivery'
    BY <1>1, <1>2, <2>1, InOrderKept DEF HistoryInv
  <2>5. \A q : Sound(q) => SoundIn(log', q)
    BY <1>1, <2>1, SoundKept
  <2>6. /\ p \in Packet /\ p.idx = Total /\ p.seqnum = NumberOf(p.idx) /\ SoundIn(log', p)
    <3>1. p \in Packet /\ p.idx = Total /\ p.payload = PingPayload
      BY <1>0, <1>1, NewPacketType, PingPayloadType DEF NewPacket
    <3>2. p.seqnum = NumberOf(Total)
      BY DEF NewPacket, HistoryInv, Numbering
    <3> QED
      BY <1>1, <2>1, <3>1, <3>2 DEF Sound, SoundIn, NumberOf
  <2>7. \A i \in 1 .. Len(outgoing_reliables_sent) :
            Total + 1 - outgoing_reliables_sent[i].idx <= W
    BY <1>5, AvailableRoom
  <2> HIDE DEF p
  <2>8. /\ \A i \in 1 .. Len(queued_reliables) :
              /\ queued_reliables[i].idx \in Nat
              /\ Len(log) - queued_reliables[i].idx
                    <= Len(queued_reliables) - i + 1 + NumPings - pings
              /\ Total - queued_reliables[i].idx + pings < W
        /\ Len(queued_reliables) \in Nat
        /\ NumPings < W => pings < W
    <3>1. \A i \in 1 .. Len(queued_reliables) : queued_reliables[i].idx \in Nat
      BY <1>0, PacketFields
    <3>2. QueueOK
      BY DEF HistoryInv
    <3>3. Len(queued_reliables) \in Nat
      BY <1>0, LengthTypes
    <3>4. NumPings < W => pings < W
      BY <1>1
    <3> QED
      BY <3>1, <3>2, <3>3, <3>4 DEF QueueOK
  <2>11. /\ Total \in Nat /\ W \in Nat /\ \A q \in Packet : q.idx \in Nat
         /\ \A i \in 1 .. Len(outgoing_reliables_sent) :
               outgoing_reliables_sent[i].idx \in Nat
         /\ \A i \in 1 .. Len(outgoing_reliables_sent') :
               outgoing_reliables_sent'[i].idx \in Nat
    <3>1. \A list \in Seq(Packet) : \A i \in 1 .. Len(list) : list[i] \in Packet
      OBVIOUS
    <3>2. \A q \in Packet : q.idx \in Nat
      BY DEF Packet
    <3>3. /\ outgoing_reliables_sent \in Seq(Packet)
          /\ outgoing_reliables_sent' \in Seq(Packet)
      BY <1>0 DEF TypeOK
    <3> QED
      BY <1>1, <3>1, <3>2, <3>3
  \* It goes out past the queue ...
  <2>9. CASE Len(outgoing_reliables_sent) < m_window_size
    <3>1. /\ outgoing_reliables_sent' =
               insert(outgoing_reliables_sent, p, SentWindowStart(NumberOf(Total + 1)))
          /\ net' = net \cup {p} /\ queued_reliables' = queued_reliables
      BY <1>5, <2>2, <2>9 DEF Ping, sendAsPacketReliable, p
    <3>2. W > 1
      BY <1>1, ChannelAssumption
    <3>3. /\ Rising(outgoing_reliables_sent')
          /\ \A i \in 1 .. Len(outgoing_reliables_sent') :
                /\ \/ outgoing_reliables_sent'[i] = p
                   \/ \E j \in 1 .. Len(outgoing_reliables_sent) :
                         outgoing_reliables_sent'[i] = outgoing_reliables_sent[j]
                /\ Total + 1 - outgoing_reliables_sent'[i].idx <= W
          /\ \A k : HeldIn(outgoing_reliables_sent, k) \/ k = p.idx
                        => HeldIn(outgoing_reliables_sent', k)
      <4>1. PICK t \in Nat : t = Total + 1
        BY <1>1
      <4>2. /\ Total <= t /\ p.idx < t /\ t - p.idx < W
        <5>1. Total \in Nat /\ p.idx = Total /\ W \in Nat
          BY <1>1, <2>6
        <5> QED
          BY <3>2, <4>1, <5>1
      <4>3. ASSUME NEW i \in 1 .. Len(outgoing_reliables_sent)
            PROVE  t - outgoing_reliables_sent[i].idx <= W
        <5>1. Total + 1 - outgoing_reliables_sent[i].idx <= W
          BY <2>7
        <5> QED
          BY <2>11, <4>1, <5>1
      <4>4. outgoing_reliables_sent' =
                insert(outgoing_reliables_sent, p, SentWindowStart(NumberOf(t)))
        BY <3>1, <4>1
      <4>5. /\ outgoing_reliables_sent' \in Seq(Packet) /\ Rising(outgoing_reliables_sent')
            /\ \A i \in 1 .. Len(outgoing_reliables_sent') :
                /\ \/ outgoing_reliables_sent'[i] = p
                   \/ \E j \in 1 .. Len(outgoing_reliables_sent) :
                         outgoing_reliables_sent'[i] = outgoing_reliables_sent[j]
                /\ t - outgoing_reliables_sent'[i].idx <= W
            /\ \A k : HeldIn(outgoing_reliables_sent, k) \/ k = p.idx
                        => HeldIn(outgoing_reliables_sent', k)
        BY <2>6, <4>2, <4>3, <4>4, SendInsert
      <4>6. ASSUME NEW i \in 1 .. Len(outgoing_reliables_sent')
            PROVE  Total + 1 - outgoing_reliables_sent'[i].idx <= W
        <5>1. t - outgoing_reliables_sent'[i].idx <= W
          BY <4>5
        <5> QED
          BY <2>11, <4>1, <5>1
      <4> QED
        BY <4>5, <4>6
    <3>4. PacketsSound'
      <4>1. \A q \in net' : SoundIn(log', q)
        BY <2>5, <2>6, <3>1 DEF HistoryInv, PacketsSound
      <4>2. AllSound(queued_reliables)' /\ AllSound(incoming_reliables)'
        BY <1>2, <2>5, <3>1 DEF HistoryInv, PacketsSound, AllSound, Sound
      <4>3. AllSound(outgoing_reliables_sent)'
        <5> SUFFICES ASSUME NEW i \in 1 .. Len(outgoing_reliables_sent')
                     PROVE  SoundIn(log', outgoing_reliables_sent'[i])
          BY DEF AllSound, Sound
        <5>1. CASE outgoing_reliables_sent'[i] = p
          BY <2>6, <5>1
        <5>2. CASE \E j \in 1 .. Len(outgoing_reliables_sent) :
                      outgoing_reliables_sent'[i] = outgoing_reliables_sent[j]
          BY <2>5, <5>2 DEF HistoryInv, PacketsSound, AllSound
        <5> QED
          BY <3>3, <5>1, <5>2
      <4> QED
        BY <4>1, <4>2, <4>3 DEF PacketsSound, Sound
    <3>5. SentListOK'
      <4>1. Total' = Total + 1
        BY <1>1, <2>1
      <4>2. ASSUME NEW i \in 1 .. Len(outgoing_reliables_sent')
            PROVE  Total' - outgoing_reliables_sent'[i].idx <= W
        <5>1. Total + 1 - outgoing_reliables_sent'[i].idx <= W
          BY <3>3
        <5> QED
          BY <2>11, <4>1, <5>1
      <4> QED
        BY <3>3, <4>2 DEF SentListOK, Rising
    <3>6. QueueOK'
      BY <1>1, <2>1, <2>8, <3>1, SMTT(30) DEF QueueOK
    <3>7. NoPacketForgotten'
      <4> SUFFICES ASSUME NEW k \in 0 .. Len(log') - 1, ~(k < Len(received')),
                          ~HeldIn(incoming_reliables', k), ~HeldIn(queued_reliables', k)
                   PROVE  HeldIn(outgoing_reliables_sent', k)
        BY DEF NoPacketForgotten
      <4>1. k = p.idx \/ k \in 0 .. Len(log) - 1
        BY <1>1, <2>1, <2>6
      <4> QED
        BY <1>2, <3>1, <3>3, <4>1 DEF HistoryInv, NoPacketForgotten
    <3> QED
      BY <1>3, <2>3, <2>4, <3>4, <3>5, <3>6, <3>7 DEF HistoryInv
  \* ... or to its end.
  <2>10. CASE ~(Len(outgoing_reliables_sent) < m_window_size)
    <3>1. /\ queued_reliables' = Append(queued_reliables, p)
          /\ net' = net /\ outgoing_reliables_sent' = outgoing_reliables_sent
      BY <1>5, <2>10 DEF Ping, p
    <3>2. /\ Len(queued_reliables') = Len(queued_reliables) + 1
          /\ queued_reliables'[Len(queued_reliables) + 1] = p
          /\ \A i \in 1 .. Len(queued_reliables) :
                queued_reliables'[i] = queued_reliables[i]
      <4>1. queued_reliables \in Seq(Packet)
        BY <1>0 DEF TypeOK
      <4> QED
        BY <3>1, <4>1
    <3>3. PacketsSound'
      <4>1. AllSound(queued_reliables)'
        <5> SUFFICES ASSUME NEW i \in 1 .. Len(queued_reliables')
                     PROVE  SoundIn(log', queued_reliables'[i])
          BY DEF AllSound, Sound
        <5>1. i = Len(queued_reliables) + 1 \/ i \in 1 .. Len(queued_reliables)
          BY <2>8, <3>2
        <5> QED
          BY <2>5, <2>6, <3>2, <5>1 DEF HistoryInv, PacketsSound, AllSound
      <4> QED
        BY <1>2, <2>5, <3>1, <4>1 DEF HistoryInv, PacketsSound, AllSound, Sound
    <3>4. SentListOK'
      <4>1. Total' = Total + 1
        BY <1>1, <2>1
      <4>2. ASSUME NEW i \in 1 .. Len(outgoing_reliables_sent')
            PROVE  Total' - outgoing_reliables_sent'[i].idx <= W
        <5>1. Total + 1 - outgoing_reliables_sent[i].idx <= W
          BY <2>7, <3>1
        <5> QED
          BY <2>11, <3>1, <4>1, <5>1
      <4> QED
        BY <3>1, <4>2 DEF HistoryInv, SentListOK, Rising
    <3>5. QueueOK'
      <4> SUFFICES ASSUME NEW i \in 1 .. Len(queued_reliables')
                   PROVE  /\ Len(log') - queued_reliables'[i].idx
                                 <= Len(queued_reliables') - i + 1 + NumPings - pings'
                          /\ Total' - queued_reliables'[i].idx + pings' < W
        BY DEF QueueOK
      <4>1. CASE i \in 1 .. Len(queued_reliables)
        <5>1. /\ Len(log') = Len(log) + 1 /\ Total' = Total + 1 /\ pings' = pings - 1
              /\ Len(queued_reliables') = Len(queued_reliables) + 1
              /\ queued_reliables'[i] = queued_reliables[i]
          BY <1>1, <2>1, <3>2, <4>1
        <5>2. /\ Len(log) \in Nat /\ Total \in Nat /\ pings \in Nat /\ NumPings \in Nat
          BY <1>1
        <5>3. Len(log') - queued_reliables'[i].idx
                  <= Len(queued_reliables') - i + 1 + NumPings - pings'
          BY <2>8, <4>1, <5>1, <5>2, SMTT(30)
        <5>4. Total' - queued_reliables'[i].idx + pings' < W
          <6>1. PICK x \in Nat : x = queued_reliables[i].idx
            BY <2>8, <4>1
          <6>2. Total - x + pings < W
            BY <2>8, <4>1, <6>1
          <6>3. Total + 1 - x + (pings - 1) < W
            BY <5>2, <6>2
          <6>4. /\ Total' = Total + 1 /\ pings' = pings - 1
                /\ queued_reliables'[i].idx = x
            BY <5>1, <6>1
          <6> QED
            BY <2>11, <5>2, <6>3, <6>4
        <5> QED
          BY <5>3, <5>4
      <4>2. CASE i = Len(queued_reliables) + 1
        <5>1. /\ queued_reliables'[i].idx = Len(log) /\ Len(queued_reliables') = i
              /\ Len(log') = Len(log) + 1 /\ Total' = Len(log) + 1 /\ pings' = pings - 1
          BY <1>1, <2>1, <2>6, <3>2, <4>2
        <5>2. /\ Len(log) \in Nat /\ pings \in Nat /\ NumPings \in Nat /\ i \in Nat
              /\ pings <= NumPings /\ pings < W /\ W \in Nat
          BY <1>1, <2>8 DEF NumbersSuffice
        <5>3. Len(log) + 1 - Len(log) <= i - i + 1 + NumPings - (pings - 1)
          BY <5>2
        <5>4. Len(log) + 1 - Len(log) + (pings - 1) < W
          BY <5>2
        <5> QED
          BY <5>1, <5>3, <5>4
      <4> QED
        BY <2>8, <3>2, <4>1, <4>2
    <3>6. NoPacketForgotten'
      <4> SUFFICES ASSUME NEW k \in 0 .. Len(log') - 1, ~(k < Len(received')),
                          ~HeldIn(incoming_reliables', k),
                          ~HeldIn(outgoing_reliables_sent', k)
                   PROVE  HeldIn(queued_reliables', k)
        BY DEF NoPacketForgotten
      <4>1. k = p.idx \/ k \in 0 .. Len(log) - 1
        BY <1>1, <2>1, <2>6
      <4>2. queued_reliables' \in Seq(Packet) /\ queued_reliables \in Seq(Packet)
        BY <1>0 DEF TypeOK
      <4>3. CASE k = p.idx
        <5>1. Len(queued_reliables) + 1 \in 1 .. Len(queued_reliables')
          BY <2>8, <3>2
        <5> QED
          BY <3>2, <4>2, <4>3, <5>1, HeldInPlaces
      <4>4. CASE k \in 0 .. Len(log) - 1
        <5>1. HeldIn(queued_reliables, k)
          BY <1>2, <3>1, <4>4 DEF HistoryInv, NoPacketForgotten
        <5>2. PICK i \in 1 .. Len(queued_reliables) : queued_reliables[i].idx = k
          BY <4>2, <5>1, HeldInPlaces
        <5>3. i \in 1 .. Len(queued_reliables') /\ queued_reliables'[i].idx = k
          BY <2>8, <3>2, <5>2
        <5> QED
          BY <4>2, <5>3, HeldInPlaces
      <4> QED
        BY <4>1, <4>3, <4>4
    <3> QED
      BY <1>3, <2>3, <2>4, <3>3, <3>4, <3>5, <3>6 DEF HistoryInv
  <2> QED
    BY <2>9, <2>10
<1> QED
  BY <1>4, <1>5

\* The packets of the lists, by their places.
LEMMA IndexTypes ==
    ASSUME TypeOK
    PROVE  /\ \A i \in 1 .. Len(queued_reliables) : queued_reliables[i].idx \in Nat
           /\ \A i \in 1 .. Len(outgoing_reliables_sent) :
                 outgoing_reliables_sent[i].idx \in Nat
           /\ \A i \in 1 .. Len(incoming_reliables) :
                 incoming_reliables[i].idx \in Nat
BY PacketFields

LEMMA AllocateChunkStep ==
    ASSUME NumbersSuffice, ChannelInv, ChannelInv', HistoryInv, AllocateChunk
    PROVE  HistoryInv'
<1> DEFINE W == MAX_RELIABLE_WINDOW_SIZE
           chunk == [cmd |-> Current.id, num |-> Len(toadd), count |-> Current.chunks]
<1>0. /\ TypeOK /\ TypeOK' /\ AttemptOK /\ attempting # "no"
      /\ attempting \in {"no", "run", "put"}
      /\ Len(toadd) < Current.chunks /\ SeqNumAvailable
  BY DEF ChannelInv, AllocateChunk, TypeOK
<1>1. /\ Len(log) \in Nat /\ Len(toadd) \in Nat /\ Total \in Nat /\ W \in Nat
      /\ Len(queued_reliables) \in Nat /\ pings \in Nat /\ NumPings \in Nat
      /\ Total = Len(log) + Len(toadd)
  BY <1>0, LengthTypes DEF Total
<1>2. /\ UNCHANGED <<log, pings, attempting, queued_reliables, outgoing_reliables_sent,
                     next_incoming_seqnum, incoming_reliables, packet_queued, received,
                     net, acks, queued_commands, m_command_queue>>
      /\ Current' = Current
  BY DEF AllocateChunk, receiverVars, wireVars, Current
<1>3. /\ Len(toadd') = Len(toadd) + 1
      /\ \A k \in 1 .. Len(toadd) : toadd'[k] = toadd[k]
      /\ toadd'[Len(toadd) + 1] = NewPacket(chunk)
  <2>1. toadd' = Append(toadd, NewPacket(chunk)) /\ toadd \in Seq(Packet)
    BY <1>0 DEF AllocateChunk, TypeOK
  <2> QED
    BY <2>1
<1>4. Total' = Total + 1
  BY <1>1, <1>2, <1>3 DEF Total
<1>5. Numbering'
  <2>1. 0 \in 0 .. SEQNUM_MAX /\ Total \in Int
    BY <1>1, SeqNumAssumption
  <2>2. next_outgoing_seqnum' = NumberOf(Total + 1)
    BY <2>1, NumberAhead DEF AllocateChunk, HistoryInv, Numbering
  <2> QED
    BY <1>2, <1>4, <2>2 DEF HistoryInv, Numbering, NumberOf
<1>6. AttemptNumbered'
  <2> SUFFICES ASSUME NEW k \in 1 .. Len(toadd')
               PROVE  toadd'[k] = [seqnum  |-> NumberOf(Len(log) + k - 1),
                                   idx     |-> Len(log) + k - 1,
                                   payload |-> [cmd |-> Current.id, num |-> k - 1,
                                                count |-> Current.chunks]]
    BY <1>2 DEF AttemptNumbered, NumberOf
  <2>1. CASE k \in 1 .. Len(toadd)
    BY <1>3, <2>1 DEF HistoryInv, AttemptNumbered
  <2>2. CASE k = Len(toadd) + 1
    <3>1. k - 1 = Len(toadd) /\ Len(log) + k - 1 = Len(log) + Len(toadd)
      BY <1>1, <2>2
    <3>2. next_outgoing_seqnum = NumberOf(Len(log) + Len(toadd))
      BY <1>1 DEF HistoryInv, Numbering
    <3> QED
      BY <1>3, <2>2, <3>1, <3>2 DEF NewPacket
  <2> QED
    BY <1>1, <1>3, <2>1, <2>2
<1>7. /\ PacketsSound' /\ AcksMeanTaken' /\ ReceiveBufferOK' /\ AttemptLimit'
      /\ NoPacketForgotten' /\ InOrderDelivery'
  BY <1>2 DEF HistoryInv, PacketsSound, AllSound, Sound, SoundIn, NumberOf, AcksMeanTaken,
     Taken, HeldIn, ReceiveBufferOK, Rising, AttemptLimit, NoPacketForgotten,
     InOrderDelivery
<1>8. SentListOK'
  <2>1. ASSUME NEW i \in 1 .. Len(outgoing_reliables_sent')
        PROVE  Total' - outgoing_reliables_sent'[i].idx <= W
    <3>1. /\ Total + 1 - outgoing_reliables_sent[i].idx <= W
          /\ outgoing_reliables_sent[i].idx \in Nat
      BY <1>0, <1>2, AvailableRoom, IndexTypes
    <3> QED
      BY <1>1, <1>2, <1>4, <3>1
  <2> QED
    BY <1>2, <2>1 DEF HistoryInv, SentListOK, Rising
<1>9. QueueOK'
  <2>1. Current \in Command /\ Current.chunks \in ChunkCounts /\ Current.chunks \in Nat
    BY <1>0, CurrentType, ChannelAssumption DEF Command
  <2>2. PICK q \in Nat : q = Len(queued_reliables)
    BY <1>1
  <2>3. PICK n \in Nat : n = Current.chunks
    BY <2>1
  <2>4. q < MaxRequeued \/ \E w \in Windows : q + 1 < w \div 2
    BY <1>0, <2>2 DEF HistoryInv, AttemptLimit
  <2>5. q + n + NumPings < W
    BY <2>1, <2>3, <2>4, QueueRoom
  <2>6. ASSUME NEW i \in 1 .. Len(queued_reliables)
        PROVE  /\ Len(log) - queued_reliables[i].idx
                     <= Len(queued_reliables) - i + 1 + NumPings - pings
               /\ Total + 1 - queued_reliables[i].idx + pings < W
    <3>1. PICK x \in Nat : x = queued_reliables[i].idx
      BY <1>0, IndexTypes
    <3>2. Len(log) - x <= q - i + 1 + NumPings - pings
      BY <2>2, <3>1 DEF HistoryInv, QueueOK
    <3>3. Len(toadd) + 1 <= n
      BY <1>0, <1>1, <2>3
    <3>4. Total + 1 - x + pings < W
      BY <1>1, <2>5, <3>2, <3>3
    <3> QED
      BY <1>1, <3>1, <3>4 DEF HistoryInv, QueueOK
  <2>7. ASSUME NEW i \in 1 .. Len(queued_reliables')
        PROVE  Total' - queued_reliables'[i].idx + pings' < W
    <3>1. /\ Total + 1 - queued_reliables[i].idx + pings < W
          /\ queued_reliables[i].idx \in Nat
      BY <1>0, <1>2, <2>6, IndexTypes
    <3> QED
      BY <1>1, <1>2, <1>4, <3>1
  <2> QED
    BY <1>2, <2>6, <2>7 DEF QueueOK
<1> QED
  BY <1>5, <1>6, <1>7, <1>8, <1>9 DEF HistoryInv

\* What a list holds is in the lists it is put together from.
LEMMA HeldInConcat ==
    ASSUME NEW a \in Seq(Packet), NEW b \in Seq(Packet), NEW k
    PROVE  HeldIn(a \o b, k) <=> HeldIn(a, k) \/ HeldIn(b, k)
<1>1. /\ Len(a) \in Nat /\ Len(b) \in Nat /\ a \o b \in Seq(Packet)
      /\ Len(a \o b) = Len(a) + Len(b)
      /\ \A i \in 1 .. Len(a) : (a \o b)[i] = a[i]
      /\ \A i \in 1 .. Len(b) : (a \o b)[Len(a) + i] = b[i]
  OBVIOUS
<1>2. ASSUME HeldIn(a, k) PROVE HeldIn(a \o b, k)
  <2>1. PICK i \in 1 .. Len(a) : a[i].idx = k
    BY <1>2, HeldInPlaces
  <2>2. i \in 1 .. Len(a \o b) /\ (a \o b)[i].idx = k
    BY <1>1, <2>1
  <2> QED
    BY <1>1, <2>2, HeldInPlaces
<1>3. ASSUME HeldIn(b, k) PROVE HeldIn(a \o b, k)
  <2>1. PICK i \in 1 .. Len(b) : b[i].idx = k
    BY <1>3, HeldInPlaces
  <2>2. Len(a) + i \in 1 .. Len(a \o b) /\ (a \o b)[Len(a) + i].idx = k
    BY <1>1, <2>1
  <2> QED
    BY <1>1, <2>2, HeldInPlaces
<1>4. ASSUME HeldIn(a \o b, k) PROVE HeldIn(a, k) \/ HeldIn(b, k)
  <2>1. PICK i \in 1 .. Len(a \o b) : (a \o b)[i].idx = k
    BY <1>1, <1>4, HeldInPlaces
  <2>2. CASE i <= Len(a)
    <3>1. i \in 1 .. Len(a) /\ a[i].idx = k
      BY <1>1, <2>1, <2>2
    <3> QED
      BY <3>1, HeldInPlaces
  <2>3. CASE i > Len(a)
    <3>1. PICK j \in 1 .. Len(b) : i = Len(a) + j
      <4>1. i - Len(a) \in 1 .. Len(b) /\ i = Len(a) + (i - Len(a))
        BY <1>1, <2>3
      <4> QED
        BY <4>1
    <3>2. b[j].idx = k
      BY <1>1, <2>1, <3>1
    <3> QED
      BY <3>2, HeldInPlaces
  <2> QED
    BY <1>1, <2>2, <2>3
<1> QED
  BY <1>2, <1>3, <1>4

\* What a list of packets holds is its head or in its tail.
LEMMA HeldInTail ==
    ASSUME NEW a \in Seq(Packet), a # << >>, NEW k
    PROVE  HeldIn(a, k) <=> a[1].idx = k \/ HeldIn(Tail(a), k)
<1>1. /\ <<a[1]>> \in Seq(Packet) /\ Tail(a) \in Seq(Packet) /\ a = <<a[1]>> \o Tail(a)
  <2>1. a[1] \in Packet /\ Tail(a) \in Seq(Packet) /\ Len(a) \in Nat \ {0}
    OBVIOUS
  <2>2. a = <<a[1]>> \o Tail(a)
    OBVIOUS
  <2> QED
    BY <2>1, <2>2
<1>2. HeldIn(<<a[1]>>, k) <=> a[1].idx = k
  BY DEF HeldIn
<1>3. HeldIn(<<a[1]>> \o Tail(a), k) <=> HeldIn(<<a[1]>>, k) \/ HeldIn(Tail(a), k)
  BY <1>1, HeldInConcat
<1>4. HeldIn(a, k) <=> HeldIn(<<a[1]>> \o Tail(a), k)
  BY <1>1, Zenon
<1> QED
  BY <1>2, <1>3, <1>4

\* The packets of a finished command are those of its attempt.
LEMMA QueuePacketsStep ==
    ASSUME NumbersSuffice, ChannelInv, ChannelInv', HistoryInv, QueuePackets
    PROVE  HistoryInv'
<1> DEFINE W == MAX_RELIABLE_WINDOW_SIZE
           payloads == [k \in 1 .. Len(toadd) |-> toadd[k].payload]
<1>0. /\ TypeOK /\ TypeOK' /\ toadd' = << >> /\ attempting' = "no" /\ Len(toadd') = 0
  BY DEF ChannelInv, QueuePackets
<1>1. /\ Len(log) \in Nat /\ Len(toadd) \in Nat /\ Total \in Nat /\ W \in Nat
      /\ Len(queued_reliables) \in Nat /\ pings \in Nat /\ NumPings \in Nat
      /\ Total = Len(log) + Len(toadd) /\ Len(log') \in Nat /\ Len(received) \in Nat
  <2>1. Len(log') \in Nat
    BY <1>0 DEF TypeOK
  <2> QED
    BY <1>0, <2>1, LengthTypes DEF Total
<1>2. UNCHANGED <<pings, outgoing_reliables_sent, next_outgoing_seqnum,
                  next_incoming_seqnum, incoming_reliables, packet_queued, received,
                  net, acks>>
  BY DEF QueuePackets, receiverVars, wireVars
<1>3. /\ Len(log') = Len(log) + Len(toadd)
      /\ \A k \in 1 .. Len(log) : log'[k] = log[k]
      /\ \A k \in 1 .. Len(toadd) : log'[Len(log) + k] = toadd[k].payload
  <2>1. payloads \in Seq(Payload) /\ Len(payloads) = Len(toadd)
    <3>1. \A k \in 1 .. Len(toadd) : toadd[k].payload \in Payload
      BY <1>0, PacketFields DEF Packet
    <3> QED
      BY <1>1, <3>1
  <2>2. log' = log \o payloads /\ log \in Seq(Payload)
    BY <1>0 DEF QueuePackets, TypeOK
  <2>3. \A k \in 1 .. Len(toadd) : payloads[k] = toadd[k].payload
    OBVIOUS
  <2> HIDE DEF payloads
  <2>4. /\ Len(log \o payloads) = Len(log) + Len(payloads)
        /\ \A k \in 1 .. Len(log) : (log \o payloads)[k] = log[k]
        /\ \A k \in 1 .. Len(payloads) : (log \o payloads)[Len(log) + k] = payloads[k]
    <3>1. \A a \in Seq(Payload), b \in Seq(Payload) :
              /\ Len(a \o b) = Len(a) + Len(b)
              /\ \A k \in 1 .. Len(a) : (a \o b)[k] = a[k]
              /\ \A k \in 1 .. Len(b) : (a \o b)[Len(a) + k] = b[k]
      OBVIOUS
    <3> QED
      BY <2>1, <2>2, <3>1
  <2> QED
    BY <2>1, <2>2, <2>3, <2>4
<1>4. /\ queued_reliables \in Seq(Packet) /\ toadd \in Seq(Packet)
      /\ queued_reliables' = queued_reliables \o toadd
      /\ Len(queued_reliables') = Len(queued_reliables) + Len(toadd)
      /\ \A i \in 1 .. Len(queued_reliables) : queued_reliables'[i] = queued_reliables[i]
      /\ \A k \in 1 .. Len(toadd) : queued_reliables'[Len(queued_reliables) + k] = toadd[k]
  <2>1. /\ queued_reliables \in Seq(Packet) /\ toadd \in Seq(Packet)
        /\ queued_reliables' = queued_reliables \o toadd
    BY <1>0 DEF QueuePackets, TypeOK
  <2> QED
    BY <2>1
<1>5. Total' = Total
  BY <1>0, <1>1, <1>3 DEF Total
<1>6. \A k \in 1 .. Len(toadd) :
          /\ toadd[k].idx = Len(log) + k - 1 /\ toadd[k].seqnum = NumberOf(toadd[k].idx)
          /\ SoundIn(log', toadd[k])
  <2> SUFFICES ASSUME NEW k \in 1 .. Len(toadd)
               PROVE  /\ toadd[k].idx = Len(log) + k - 1
                      /\ toadd[k].seqnum = NumberOf(toadd[k].idx)
                      /\ SoundIn(log', toadd[k])
    OBVIOUS
  <2>1. /\ toadd[k].idx = Len(log) + k - 1 /\ toadd[k].seqnum = NumberOf(toadd[k].idx)
    <3>1. toadd[k] = [seqnum  |-> NumberOf(Len(log) + k - 1), idx |-> Len(log) + k - 1,
                      payload |-> [cmd |-> Current.id, num |-> k - 1,
                                   count |-> Current.chunks]]
      BY DEF HistoryInv, AttemptNumbered
    <3> QED
      BY <3>1
  <2>2. toadd[k].idx \in 0 .. Len(log') - 1 /\ toadd[k].idx + 1 = Len(log) + k
    BY <1>1, <1>3, <2>1, SMTT(30)
  <2>3. toadd[k].payload = log'[toadd[k].idx + 1]
    BY <1>3, <2>2
  <2> QED
    BY <2>1, <2>2, <2>3 DEF SoundIn
<1>7. \A q : Sound(q) => SoundIn(log', q)
  <2>1. Len(log) <= Len(log')
    BY <1>1, <1>3
  <2> QED
    BY <1>1, <1>3, <2>1, SoundKept
<1>8. Numbering' /\ AttemptNumbered' /\ AcksMeanTaken' /\ ReceiveBufferOK' /\ SentListOK'
  BY <1>0, <1>2, <1>5 DEF HistoryInv, Numbering, NumberOf, AttemptNumbered, AcksMeanTaken,
     Taken, HeldIn, ReceiveBufferOK, SentListOK, Rising
<1>9. AttemptLimit'
  BY <1>0 DEF AttemptLimit
<1>10. InOrderDelivery'
  <2>1. Len(log) <= Len(log')
    BY <1>1, <1>3
  <2> QED
    BY <1>1, <1>2, <1>3, <2>1, InOrderKept DEF HistoryInv
<1>11. ASSUME NEW i \in 1 .. Len(queued_reliables')
       PROVE  \/ i \in 1 .. Len(queued_reliables)
              \/ \E k \in 1 .. Len(toadd) : i = Len(queued_reliables) + k
  <2>1. CASE i <= Len(queued_reliables)
    BY <1>1, <2>1
  <2>2. CASE i > Len(queued_reliables)
    <3>1. /\ i - Len(queued_reliables) \in 1 .. Len(toadd)
          /\ i = Len(queued_reliables) + (i - Len(queued_reliables))
      BY <1>1, <1>4, <2>2
    <3> QED
      BY <3>1
  <2> QED
    BY <1>1, <2>1, <2>2
<1>12. PacketsSound'
  <2>1. ASSUME NEW i \in 1 .. Len(queued_reliables')
        PROVE  SoundIn(log', queued_reliables'[i])
    <3>1. CASE i \in 1 .. Len(queued_reliables)
      BY <1>4, <1>7, <3>1 DEF HistoryInv, PacketsSound, AllSound
    <3>2. CASE \E k \in 1 .. Len(toadd) : i = Len(queued_reliables) + k
      BY <1>4, <1>6, <3>2
    <3> QED
      BY <1>11, <3>1, <3>2
  <2> QED
    BY <1>2, <1>7, <2>1 DEF HistoryInv, PacketsSound, AllSound, Sound
<1>13. QueueOK'
  <2> SUFFICES ASSUME NEW i \in 1 .. Len(queued_reliables')
               PROVE  /\ Len(log') - queued_reliables'[i].idx
                             <= Len(queued_reliables') - i + 1 + NumPings - pings
                      /\ Total - queued_reliables'[i].idx + pings < W
    BY <1>2, <1>5 DEF QueueOK
  <2>1. CASE i \in 1 .. Len(queued_reliables)
    <3>1. PICK x \in Nat : x = queued_reliables[i].idx
      BY <1>0, <2>1, IndexTypes
    <3>2. /\ Len(log) - x <= Len(queued_reliables) - i + 1 + NumPings - pings
          /\ Total - x + pings < W
      BY <2>1, <3>1 DEF HistoryInv, QueueOK
    <3>3. Len(log) + Len(toadd) - x
              <= Len(queued_reliables) + Len(toadd) - i + 1 + NumPings - pings
      BY <1>1, <2>1, <3>2
    <3>4. queued_reliables'[i].idx = x
      BY <1>4, <2>1, <3>1
    <3> QED
      BY <1>3, <1>4, <3>2, <3>3, <3>4
  <2>2. CASE \E k \in 1 .. Len(toadd) : i = Len(queued_reliables) + k
    <3>1. PICK k \in 1 .. Len(toadd) : i = Len(queued_reliables) + k
      BY <2>2
    <3>2. queued_reliables'[i].idx = Len(log) + k - 1
      BY <1>4, <1>6, <3>1
    <3>3. Len(log) + Len(toadd) - (Len(log) + k - 1)
              <= Len(queued_reliables) + Len(toadd) - i + 1 + NumPings - pings
      <4>1. pings <= NumPings
        BY <1>0, LengthTypes
      <4> QED
        BY <1>1, <3>1, <4>1
    <3>4. Total - (Len(log) + k - 1) + pings < W
      <4>1. Current.chunks \in ChunkCounts /\ Len(toadd) = Current.chunks
        <5>1. attempting # "no" /\ Len(toadd) = Current.chunks
          BY DEF QueuePackets
        <5> QED
          BY <1>0, <5>1, CurrentType DEF ChannelInv, Command
      <4>2. 0 + Len(toadd) + NumPings < W
        BY <4>1, QueueRoom
      <4>3. pings <= NumPings
        BY <1>0, LengthTypes
      <4> QED
        BY <1>1, <4>2, <4>3
    <3> QED
      BY <1>3, <1>4, <3>2, <3>3, <3>4
  <2> QED
    BY <1>11, <2>1, <2>2
<1>14. NoPacketForgotten'
  <2> SUFFICES ASSUME NEW k \in 0 .. Len(log') - 1
               PROVE  \/ k < Len(received)
                      \/ HeldIn(incoming_reliables, k)
                      \/ HeldIn(queued_reliables', k)
                      \/ HeldIn(outgoing_reliables_sent, k)
    BY <1>2 DEF NoPacketForgotten, HeldIn
  <2>1. CASE k < Len(log)
    <3>1. HeldIn(queued_reliables, k) => HeldIn(queued_reliables', k)
      BY <1>4, HeldInConcat
    <3> QED
      BY <1>1, <2>1, <3>1 DEF HistoryInv, NoPacketForgotten
  <2>2. CASE k >= Len(log)
    <3>1. PICK j \in 1 .. Len(toadd) : k = Len(log) + j - 1
      <4>1. /\ k - Len(log) + 1 \in 1 .. Len(toadd)
            /\ k = Len(log) + (k - Len(log) + 1) - 1
        BY <1>1, <1>3, <2>2
      <4> QED
        BY <4>1
    <3>2. HeldIn(toadd, k)
      BY <1>4, <1>6, <3>1, HeldInPlaces
    <3> QED
      BY <1>4, <3>2, HeldInConcat
  <2> QED
    BY <1>1, <2>1, <2>2
<1> QED
  BY <1>8, <1>9, <1>10, <1>12, <1>13, <1>14 DEF HistoryInv

\* The numbers of an attempt that failed are given out again.
LEMMA PutBackStep ==
    ASSUME ChannelInv, ChannelInv', HistoryInv, PutBackSequenceNumbers
    PROVE  HistoryInv'
<1> DEFINE W == MAX_RELIABLE_WINDOW_SIZE
<1>0. /\ TypeOK /\ toadd' = << >> /\ attempting' = "no" /\ Len(toadd') = 0
  BY DEF ChannelInv, PutBackSequenceNumbers
<1>1. /\ Len(log) \in Nat /\ Len(toadd) \in Nat /\ Total \in Nat /\ W \in Nat
      /\ pings \in Nat /\ Total = Len(log) + Len(toadd)
  BY <1>0, LengthTypes DEF Total
<1>2. UNCHANGED <<pings, outgoing_reliables_sent, queued_reliables, log,
                  next_incoming_seqnum, incoming_reliables, packet_queued, received,
                  net, acks>>
  BY DEF PutBackSequenceNumbers, receiverVars, wireVars
<1>3. Total' = Len(log) /\ Total' <= Total
  BY <1>0, <1>1, <1>2 DEF Total
<1>4. next_outgoing_seqnum' = NumberOf(Len(log))
  <2>1. CASE toadd = << >>
    BY <1>1, <2>1 DEF PutBackSequenceNumbers, HistoryInv, Numbering
  <2>2. CASE toadd # << >>
    <3>1. 1 \in 1 .. Len(toadd)
      BY <1>0, <2>2 DEF TypeOK
    <3>2. toadd[1].seqnum = NumberOf(Len(log) + 1 - 1)
      <4>1. toadd[1] = [seqnum  |-> NumberOf(Len(log) + 1 - 1), idx |-> Len(log) + 1 - 1,
                        payload |-> [cmd |-> Current.id, num |-> 1 - 1,
                                     count |-> Current.chunks]]
        BY <3>1 DEF HistoryInv, AttemptNumbered
      <4> QED
        BY <4>1
    <3>3. Len(log) + 1 - 1 = Len(log)
      BY <1>1
    <3> QED
      BY <2>2, <3>2, <3>3 DEF PutBackSequenceNumbers
  <2> QED
    BY <2>1, <2>2
<1>5. /\ Numbering' /\ AttemptNumbered' /\ PacketsSound' /\ AcksMeanTaken'
      /\ ReceiveBufferOK' /\ AttemptLimit' /\ NoPacketForgotten' /\ InOrderDelivery'
  BY <1>0, <1>2, <1>3, <1>4 DEF HistoryInv, Numbering, NumberOf, AttemptNumbered,
     PacketsSound, AllSound, Sound, SoundIn, AcksMeanTaken, Taken, HeldIn, ReceiveBufferOK,
     Rising, AttemptLimit, NoPacketForgotten, InOrderDelivery
<1>6. SentListOK'
  <2>1. ASSUME NEW i \in 1 .. Len(outgoing_reliables_sent')
        PROVE  Total' - outgoing_reliables_sent'[i].idx <= W
    <3>1. /\ Total - outgoing_reliables_sent[i].idx <= W
          /\ outgoing_reliables_sent[i].idx \in Nat
      BY <1>0, <1>2, IndexTypes DEF HistoryInv, SentListOK
    <3> QED
      BY <1>1, <1>2, <1>3, <3>1
  <2> QED
    BY <1>2, <2>1 DEF HistoryInv, SentListOK, Rising
<1>7. QueueOK'
  <2>1. ASSUME NEW i \in 1 .. Len(queued_reliables)
        PROVE  Total' - queued_reliables[i].idx + pings < W
    <3>1. PICK x \in Nat : x = queued_reliables[i].idx
      BY <1>0, IndexTypes
    <3>2. Total - x + pings < W
      BY <3>1 DEF HistoryInv, QueueOK
    <3>3. Total' - x + pings < W
      BY <1>1, <1>3, <3>2
    <3> QED
      BY <3>1, <3>3
  <2> QED
    BY <1>2, <2>1 DEF HistoryInv, QueueOK
<1> QED
  BY <1>5, <1>6, <1>7 DEF HistoryInv

\* The packet at the head of the queue goes to the list of those sent.
LEMMA SendQueuedStep ==
    ASSUME ChannelInv, ChannelInv', HistoryInv, SendQueuedReliable
    PROVE  HistoryInv'
<1> DEFINE W == MAX_RELIABLE_WINDOW_SIZE
           p == Head(queued_reliables)
           rest == Tail(queued_reliables)
<1>0. /\ TypeOK /\ TypeOK' /\ AttemptOK /\ attempting = "no" /\ attempting' = "no"
      /\ toadd = << >> /\ toadd' = << >> /\ Len(toadd) = 0
  BY DEF ChannelInv, AttemptOK, SendQueuedReliable
<1>1. /\ Len(log) \in Nat /\ Total \in Nat /\ W \in Nat /\ Total = Len(log)
      /\ pings \in Nat /\ NumPings \in Nat /\ Len(queued_reliables) \in Nat
  BY <1>0, LengthTypes DEF Total
<1>2. UNCHANGED <<log, pings, next_outgoing_seqnum, next_incoming_seqnum,
                  incoming_reliables, packet_queued, received, acks>>
  BY DEF SendQueuedReliable, receiverVars
<1>3. /\ queued_reliables \in Seq(Packet) /\ queued_reliables # << >>
      /\ queued_reliables' = rest /\ net' = net \cup {p}
      /\ outgoing_reliables_sent' =
             insert(outgoing_reliables_sent, p, SentWindowStart(NumberOf(Total)))
  BY <1>0 DEF TypeOK, SendQueuedReliable, MaySend, sendAsPacketReliable, HistoryInv,
     Numbering
<1>4. /\ 1 \in 1 .. Len(queued_reliables) /\ p = queued_reliables[1]
      /\ rest \in Seq(Packet) /\ Len(rest) = Len(queued_reliables) - 1
      /\ \A i \in 1 .. Len(rest) : /\ i + 1 \in 1 .. Len(queued_reliables)
                                   /\ rest[i] = queued_reliables[i + 1]
  BY <1>3
<1>5. /\ p \in Packet /\ Sound(p) /\ p.seqnum = NumberOf(p.idx) /\ p.idx \in Nat
      /\ p.idx < Total /\ Total - p.idx < W
  <2>1. p \in Packet /\ p.idx \in Nat
    BY <1>0, <1>4, PacketFields
  <2>2. Sound(p)
    BY <1>4 DEF HistoryInv, PacketsSound, AllSound
  <2>3. p.idx \in 0 .. Len(log) - 1 /\ p.seqnum = NumberOf(p.idx)
    BY <2>2 DEF Sound, SoundIn
  <2>4. Total - p.idx + pings < W
    BY <1>4 DEF HistoryInv, QueueOK
  <2> HIDE DEF p
  <2> QED
    BY <1>1, <2>1, <2>2, <2>3, <2>4
<1> HIDE DEF p, rest
<1>6. /\ Rising(outgoing_reliables_sent')
      /\ \A i \in 1 .. Len(outgoing_reliables_sent') :
            /\ \/ outgoing_reliables_sent'[i] = p
               \/ \E j \in 1 .. Len(outgoing_reliables_sent) :
                     outgoing_reliables_sent'[i] = outgoing_reliables_sent[j]
            /\ Total - outgoing_reliables_sent'[i].idx <= W
      /\ \A k : HeldIn(outgoing_reliables_sent, k) \/ k = p.idx
                    => HeldIn(outgoing_reliables_sent', k)
  <2>1. \A i \in 1 .. Len(outgoing_reliables_sent) :
            Total - outgoing_reliables_sent[i].idx <= W
    BY DEF HistoryInv, SentListOK
  <2>2. Total <= Total
    BY <1>1
  <2> QED
    BY <1>1, <1>3, <1>5, <2>1, <2>2, SendInsert
<1>7. Total' = Total
  BY <1>0, <1>2 DEF Total
<1>8. /\ Numbering' /\ AttemptNumbered' /\ AcksMeanTaken' /\ ReceiveBufferOK'
      /\ AttemptLimit' /\ InOrderDelivery'
  BY <1>0, <1>2, <1>7 DEF HistoryInv, Numbering, NumberOf, AttemptNumbered,
     AcksMeanTaken, Taken, HeldIn, ReceiveBufferOK, Rising, AttemptLimit, InOrderDelivery
<1>9. PacketsSound'
  <2>1. \A q : Sound(q)' <=> Sound(q)
    BY <1>2 DEF Sound, SoundIn, NumberOf
  <2>2. \A q \in net' : Sound(q)
    BY <1>3, <1>5 DEF HistoryInv, PacketsSound
  <2>3. \A i \in 1 .. Len(rest) : Sound(rest[i])
    BY <1>4 DEF HistoryInv, PacketsSound, AllSound
  <2>4. \A i \in 1 .. Len(outgoing_reliables_sent') : Sound(outgoing_reliables_sent'[i])
    BY <1>5, <1>6 DEF HistoryInv, PacketsSound, AllSound
  <2> QED
    BY <1>2, <1>3, <2>1, <2>2, <2>3, <2>4 DEF HistoryInv, PacketsSound, AllSound
<1>10. SentListOK'
  BY <1>6, <1>7 DEF SentListOK, Rising
<1>11. QueueOK'
  <2>1. ASSUME NEW i \in 1 .. Len(rest)
        PROVE  /\ Len(log) - rest[i].idx <= Len(rest) - i + 1 + NumPings - pings
               /\ Total - rest[i].idx + pings < W
    <3>1. PICK j \in 1 .. Len(queued_reliables) : j = i + 1 /\ rest[i] = queued_reliables[j]
      BY <1>4
    <3>2. /\ Len(log) - rest[i].idx <= Len(queued_reliables) - j + 1 + NumPings - pings
          /\ Total - rest[i].idx + pings < W
      BY <3>1 DEF HistoryInv, QueueOK
    <3>3. Len(rest) - i = Len(queued_reliables) - j
      BY <1>1, <1>4, <3>1
    <3> QED
      BY <3>2, <3>3
  <2> QED
    BY <1>2, <1>3, <1>7, <2>1 DEF QueueOK
<1>12. NoPacketForgotten'
  <2> SUFFICES ASSUME NEW k \in 0 .. Len(log) - 1
               PROVE  \/ k < Len(received)
                      \/ HeldIn(incoming_reliables, k)
                      \/ HeldIn(queued_reliables', k)
                      \/ HeldIn(outgoing_reliables_sent', k)
    BY <1>2 DEF NoPacketForgotten, HeldIn
  <2>1. HeldIn(queued_reliables, k) <=> p.idx = k \/ HeldIn(queued_reliables', k)
    BY <1>3, <1>4, HeldInTail DEF rest
  <2> QED
    BY <1>6, <2>1 DEF HistoryInv, NoPacketForgotten
<1> QED
  BY <1>8, <1>9, <1>10, <1>11, <1>12 DEF HistoryInv

\* An ack removes the packet it is for, whatever the number was used for before:
\* the receiver has that packet.
LEMMA ReceiveAckStep ==
    ASSUME ChannelInv, HistoryInv, NEW a \in acks, ReceiveAck(a)
    PROVE  HistoryInv'
<1> DEFINE W == MAX_RELIABLE_WINDOW_SIZE
<1>0. /\ TypeOK /\ outgoing_reliables_sent \in Seq(Packet)
      /\ HasSeqnum(outgoing_reliables_sent, a.seqnum)
      /\ Total - a.idx <= W
      /\ outgoing_reliables_sent' = popSeqnum(outgoing_reliables_sent, a.seqnum)
  <2>1. Len(log) + Len(toadd) - a.idx <= W
    BY DEF ReceiveAck
  <2>2. Total - a.idx <= W
    <3>1. Len(log) \in Nat /\ Len(toadd) \in Nat /\ a.idx \in Nat /\ W \in Nat
      BY LengthTypes, PacketFields DEF ChannelInv
    <3> QED
      BY <2>1, <3>1 DEF Total
  <2> QED
    BY <2>2 DEF ChannelInv, TypeOK, ReceiveAck
<1>1. /\ Len(log) \in Nat /\ Len(toadd) \in Nat /\ Total \in Nat /\ W \in Nat \ {0}
      /\ Total = Len(log) + Len(toadd) /\ Len(received) \in Nat
      /\ SEQNUM_MAX = 2 * W - 1
  BY <1>0, LengthTypes DEF Total
<1>2. UNCHANGED <<log, toadd, attempting, pings, next_outgoing_seqnum, queued_reliables,
                  queued_commands, m_command_queue, next_incoming_seqnum,
                  incoming_reliables, packet_queued, received, net, acks>>
  BY DEF ReceiveAck, receiverVars, wireVars
<1>3. /\ outgoing_reliables_sent' \in Seq(Packet) /\ Rising(outgoing_reliables_sent')
      /\ \A i \in 1 .. Len(outgoing_reliables_sent') :
            \E j \in 1 .. Len(outgoing_reliables_sent) :
                outgoing_reliables_sent'[i] = outgoing_reliables_sent[j]
      /\ \A i \in 1 .. Len(outgoing_reliables_sent) :
            outgoing_reliables_sent[i].seqnum # a.seqnum =>
                \E j \in 1 .. Len(outgoing_reliables_sent') :
                    outgoing_reliables_sent'[j] = outgoing_reliables_sent[i]
  <2>1. Rising(outgoing_reliables_sent)
    BY DEF HistoryInv, SentListOK
  <2>2. PICK L, s : L = outgoing_reliables_sent /\ s = a.seqnum
    OBVIOUS
  <2>3. L \in Seq(Packet) /\ Rising(L) /\ HasSeqnum(L, s)
    BY <1>0, <2>1, <2>2, Zenon
  <2>4. outgoing_reliables_sent' = popSeqnum(L, s)
    BY <1>0, <2>2, Zenon
  <2>5. PICK l : l = popSeqnum(L, s)
    OBVIOUS
  <2>6. /\ l \in Seq(Packet) /\ Rising(l)
        /\ \A i \in 1 .. Len(l) : \E j \in 1 .. Len(L) : l[i] = L[j]
        /\ \A i \in 1 .. Len(L) : L[i].seqnum # s => \E j \in 1 .. Len(l) : l[j] = L[i]
    BY ONLY <2>3, <2>5, PopRising, SMTT(30)
  <2> QED
    BY <2>2, <2>4, <2>5, <2>6, Zenon
<1>4. a.idx \in Nat /\ a.seqnum = NumberOf(a.idx) /\ Taken(a.idx) /\ a.idx < Len(log)
  <2>1. a.idx \in Nat /\ a.seqnum = NumberOf(a.idx) /\ Taken(a.idx)
    BY <1>0, PacketFields DEF HistoryInv, AcksMeanTaken
  <2>2. CASE a.idx < Len(received)
    <3>1. Len(received) <= Len(log)
      BY DEF HistoryInv, InOrderDelivery
    <3> QED
      BY <1>1, <2>1, <2>2, <3>1
  <2>3. CASE HeldIn(incoming_reliables, a.idx)
    <3>1. incoming_reliables \in Seq(Packet)
      BY <1>0 DEF TypeOK
    <3>2. PICK i \in 1 .. Len(incoming_reliables) : incoming_reliables[i].idx = a.idx
      BY <2>3, <3>1, HeldInPlaces
    <3>3. Sound(incoming_reliables[i])
      BY DEF HistoryInv, PacketsSound, AllSound
    <3>4. incoming_reliables[i].idx \in 0 .. Len(log) - 1
      BY <3>3 DEF Sound, SoundIn
    <3> QED
      BY <1>1, <2>1, <3>2, <3>4
  <2> QED
    BY <2>1, <2>2, <2>3 DEF Taken
<1>5. ASSUME NEW i \in 1 .. Len(outgoing_reliables_sent),
             outgoing_reliables_sent[i].seqnum = a.seqnum
      PROVE  Taken(outgoing_reliables_sent[i].idx)
  <2>1. PICK x \in Nat : x = outgoing_reliables_sent[i].idx
    BY <1>0, IndexTypes
  <2>2. Sound(outgoing_reliables_sent[i]) /\ Total - x <= W
    BY <2>1 DEF HistoryInv, PacketsSound, AllSound, SentListOK
  <2>3. x < Len(log) /\ NumberOf(x) = NumberOf(a.idx)
    <3>1. x \in 0 .. Len(log) - 1 /\ NumberOf(x) = a.seqnum
      BY <1>5, <2>1, <2>2 DEF Sound, SoundIn
    <3> QED
      BY <1>1, <1>4, <3>1
  <2>4. x - a.idx \in -SEQNUM_MAX .. SEQNUM_MAX
    <3>1. PICK y \in Nat : y = a.idx
      BY <1>4
    <3>2. Total - y <= W /\ y < Len(log)
      BY <1>0, <1>4, <3>1
    <3>3. x - y \in -SEQNUM_MAX .. SEQNUM_MAX
      BY <1>1, <2>2, <2>3, <3>2
    <3> QED
      BY <3>1, <3>3
  <2>5. x = a.idx
    BY <1>4, <2>3, <2>4, NumberDistance
  <2> QED
    BY <1>4, <2>1, <2>5
<1>6. Total' = Total
  BY <1>2 DEF Total
<1>7. /\ Numbering' /\ AttemptNumbered' /\ AcksMeanTaken' /\ ReceiveBufferOK'
      /\ AttemptLimit' /\ InOrderDelivery' /\ QueueOK'
  BY <1>2, <1>6 DEF HistoryInv, Numbering, NumberOf, AttemptNumbered, Current,
     AcksMeanTaken, Taken, HeldIn, ReceiveBufferOK, Rising, AttemptLimit, InOrderDelivery,
     QueueOK
<1>8. PacketsSound'
  BY <1>2, <1>3 DEF HistoryInv, PacketsSound, AllSound, Sound, SoundIn, NumberOf
<1>9. SentListOK'
  <2>1. ASSUME NEW i \in 1 .. Len(outgoing_reliables_sent')
        PROVE  Total - outgoing_reliables_sent'[i].idx <= W
    BY <1>3 DEF HistoryInv, SentListOK
  <2> QED
    BY <1>3, <1>6, <2>1 DEF SentListOK, Rising
<1>10. NoPacketForgotten'
  <2> SUFFICES ASSUME NEW k \in 0 .. Len(log) - 1, HeldIn(outgoing_reliables_sent, k)
               PROVE  Taken(k) \/ HeldIn(outgoing_reliables_sent', k)
    BY <1>2 DEF HistoryInv, NoPacketForgotten, Taken, HeldIn
  <2>1. PICK i \in 1 .. Len(outgoing_reliables_sent) : outgoing_reliables_sent[i].idx = k
    BY <1>0, HeldInPlaces
  <2>2. CASE outgoing_reliables_sent[i].seqnum = a.seqnum
    BY <1>5, <2>1, <2>2
  <2>3. CASE outgoing_reliables_sent[i].seqnum # a.seqnum
    <3>1. PICK j \in 1 .. Len(outgoing_reliables_sent') :
              outgoing_reliables_sent'[j] = outgoing_reliables_sent[i]
      BY <1>3, <2>3
    <3> QED
      BY <1>3, <2>1, <3>1, HeldInPlaces
  <2> QED
    BY <2>2, <2>3
<1> QED
  BY <1>7, <1>8, <1>9, <1>10 DEF HistoryInv

\* What the receiver does leaves the sender's part of the invariant alone.
LEMMA SenderKept ==
    ASSUME HistoryInv, UNCHANGED <<senderVars, net>>
    PROVE  /\ next_outgoing_seqnum' = NumberOf(Total)' /\ Total' = Total
           /\ AttemptNumbered' /\ SentListOK' /\ QueueOK' /\ AttemptLimit'
           /\ \A q : Sound(q)' <=> Sound(q)
           /\ (\A q \in net : Sound(q))' /\ AllSound(queued_reliables)'
           /\ AllSound(outgoing_reliables_sent)'
<1>1. UNCHANGED <<log, toadd, attempting, pings, next_outgoing_seqnum, queued_reliables,
                  queued_commands, m_command_queue, outgoing_reliables_sent, net>>
  BY DEF senderVars
<1>2. Total' = Total
  BY <1>1 DEF Total
<1>3. \A q : Sound(q)' <=> Sound(q)
  BY <1>1 DEF Sound, SoundIn, NumberOf
<1> QED
  BY <1>1, <1>2, <1>3 DEF HistoryInv, Numbering, NumberOf, AttemptNumbered, Current,
     SentListOK, Rising, QueueOK, AttemptLimit, PacketsSound, AllSound

\* The packet that is due, once processed, is the next of the history.
LEMMA ProcessDue ==
    ASSUME ChannelInv, HistoryInv, log' = log, NEW q \in Packet, Sound(q),
           q.idx = Len(received), ProcessReliable(q)
    PROVE  /\ next_incoming_seqnum' = NumberOf(Len(received) + 1)
           /\ Len(received') = Len(received) + 1
           /\ Len(received) + 1 <= Len(log)
           /\ InOrderDelivery'
<1>1. /\ Len(received) \in Nat /\ Len(log) \in Nat /\ received \in Seq(Payload)
  BY DEF ChannelInv, TypeOK
<1>2. received' = Append(received, q.payload)
  BY DEF ProcessReliable
<1>3. /\ Len(received') = Len(received) + 1
      /\ \A k \in 1 .. Len(received) : received'[k] = received[k]
      /\ received'[Len(received) + 1] = q.payload
  BY <1>1, <1>2
<1>4. Len(received) + 1 <= Len(log) /\ q.payload = log[Len(received) + 1]
  BY <1>1 DEF Sound, SoundIn
<1>5. next_incoming_seqnum' = NumberOf(Len(received) + 1)
  <2>1. 0 \in 0 .. SEQNUM_MAX /\ Len(received) \in Int
    BY <1>1, SeqNumAssumption
  <2> QED
    BY <2>1, NumberAhead DEF HistoryInv, Numbering, ProcessReliable
<1>6. InOrderDelivery'
  <2>1. ASSUME NEW k \in 1 .. Len(received')
        PROVE  received'[k] = log[k]
    <3>1. CASE k \in 1 .. Len(received)
      BY <1>3, <3>1 DEF HistoryInv, InOrderDelivery
    <3>2. CASE k = Len(received) + 1
      BY <1>3, <1>4, <3>2
    <3> QED
      BY <1>1, <1>3, <3>1, <3>2
  <2> QED
    BY <1>3, <1>4, <2>1 DEF InOrderDelivery
<1> QED
  BY <1>3, <1>4, <1>5, <1>6

\* The buffer's places and numbers; its first packet is due if its number is.
LEMMA BufferPlaces ==
    ASSUME ChannelInv, HistoryInv
    PROVE  /\ incoming_reliables \in Seq(Packet) /\ Rising(incoming_reliables)
           /\ \A i \in 1 .. Len(incoming_reliables) :
                 LET q == incoming_reliables[i] IN
                 /\ q \in Packet /\ Sound(q) /\ q.idx \in Nat
                 /\ q.seqnum = NumberOf(q.idx)
                 /\ Len(received) <= q.idx
                 /\ q.idx < Len(received) + MAX_RELIABLE_WINDOW_SIZE
                 /\ q.seqnum = next_incoming_seqnum <=> q.idx = Len(received)
<1> DEFINE W == MAX_RELIABLE_WINDOW_SIZE
<1>0. /\ TypeOK /\ W \in Nat \ {0} /\ SEQNUM_MAX = 2 * W - 1 /\ Len(received) \in Nat
  BY LengthTypes DEF ChannelInv
<1>1. incoming_reliables \in Seq(Packet) /\ Rising(incoming_reliables)
  BY <1>0 DEF TypeOK, HistoryInv, ReceiveBufferOK
<1>2. ASSUME NEW i \in 1 .. Len(incoming_reliables)
      PROVE  LET q == incoming_reliables[i] IN
             /\ q \in Packet /\ Sound(q) /\ q.idx \in Nat
             /\ q.seqnum = NumberOf(q.idx)
             /\ Len(received) <= q.idx /\ q.idx < Len(received) + W
             /\ q.seqnum = next_incoming_seqnum <=> q.idx = Len(received)
  <2> DEFINE q == incoming_reliables[i]
  <2>1. q \in Packet /\ q.idx \in Nat
    BY <1>0, PacketFields
  <2>2. Sound(q) /\ q.seqnum = NumberOf(q.idx)
    BY DEF HistoryInv, PacketsSound, AllSound, Sound, SoundIn
  <2>3. Len(received) <= q.idx /\ q.idx < Len(received) + W
    BY <1>0, <2>1 DEF HistoryInv, ReceiveBufferOK
  <2>4. next_incoming_seqnum = NumberOf(Len(received))
    BY DEF HistoryInv, Numbering
  <2> HIDE DEF q
  <2>5. q.idx - Len(received) \in -SEQNUM_MAX .. SEQNUM_MAX
    BY <1>0, <2>1, <2>3
  <2>6. NumberOf(q.idx) = NumberOf(Len(received)) => q.idx = Len(received)
    BY <1>0, <2>1, <2>5, NumberDistance
  <2>7. q.seqnum = next_incoming_seqnum <=> q.idx = Len(received)
    BY <2>2, <2>4, <2>6
  <2> QED
    BY <2>1, <2>2, <2>3, <2>7 DEF q
<1> QED
  BY <1>1, <1>2

LEMMA ReceiveNowStep ==
    ASSUME ChannelInv, HistoryInv, UNCHANGED <<senderVars, net>>,
           NEW p \in net, ~packet_queued, packet_queued', InLifetime(p), ReceiveNow(p)
    PROVE  HistoryInv'
<1> DEFINE W == MAX_RELIABLE_WINDOW_SIZE
           R == Len(received)
<1>0. /\ R \in Nat /\ W \in Nat \ {0} /\ log' = log
  BY LengthTypes DEF ChannelInv, senderVars
<1>1. /\ p \in Packet /\ Sound(p) /\ p.seqnum = NumberOf(p.idx) /\ p.idx = R
      /\ p.seqnum = next_incoming_seqnum
  BY NumbersTellThePlace DEF ReceiveNow, ToBuffer, Sound, SoundIn
<1>2. /\ next_incoming_seqnum' = NumberOf(R + 1) /\ Len(received') = R + 1
      /\ InOrderDelivery'
  <2>1. ProcessReliable(p)
    BY DEF ReceiveNow
  <2> QED
    BY <1>0, <1>1, <2>1, ProcessDue
\* It is not in the buffer.
<1>3. incoming_reliables' = incoming_reliables
  <2>1. CASE incoming_reliables # << >>
    <3>1. 1 \in 1 .. Len(incoming_reliables)
      BY <2>1, BufferPlaces
    <3>2. incoming_reliables[1].seqnum # p.seqnum
      BY <1>1, <3>1, BufferPlaces DEF HistoryInv, ReceiveBufferOK
    <3> QED
      BY <3>2 DEF ReceiveNow, getFirstSeqnum
  <2> QED
    BY <2>1 DEF ReceiveNow
<1>4. Numbering' /\ AttemptNumbered' /\ SentListOK' /\ QueueOK' /\ AttemptLimit'
  BY <1>2, SenderKept DEF Numbering, NumberOf
<1>5. PacketsSound'
  BY <1>3, SenderKept DEF HistoryInv, PacketsSound, AllSound
<1>6. \A k \in Nat : Taken(k) => Taken(k)'
  BY <1>0, <1>2, <1>3 DEF Taken, HeldIn
<1>7. AcksMeanTaken'
  <2>1. Taken(p.idx)'
    BY <1>0, <1>1, <1>2 DEF Taken
  <2>2. \A a \in acks : a.idx \in Nat
    BY PacketFields DEF ChannelInv
  <2>3. acks' = acks \cup {[seqnum |-> p.seqnum, idx |-> p.idx]}
    BY DEF ReceiveNow, SendAck
  <2>4. ASSUME NEW a \in acks' PROVE a.seqnum = NumberOf(a.idx) /\ Taken(a.idx)'
    <3>1. CASE a \in acks
      BY <1>6, <2>2, <3>1 DEF HistoryInv, AcksMeanTaken
    <3>2. CASE a = [seqnum |-> p.seqnum, idx |-> p.idx]
      <4>1. a.seqnum = p.seqnum /\ a.idx = p.idx
        BY <3>2
      <4> QED
        BY <1>1, <2>1, <4>1
    <3> QED
      BY <2>3, <3>1, <3>2
  <2> QED
    BY <2>4 DEF AcksMeanTaken, NumberOf
<1>8. ReceiveBufferOK'
  <2>1. ASSUME NEW i \in 1 .. Len(incoming_reliables)
        PROVE  /\ incoming_reliables[i].idx >= R + 1
               /\ incoming_reliables[i].idx < R + 1 + W
    <3>1. PICK x \in Nat : x = incoming_reliables[i].idx
      BY BufferPlaces
    <3>2. R <= x /\ x < R + W /\ x # R
      BY <3>1, BufferPlaces DEF HistoryInv, ReceiveBufferOK
    <3>3. x >= R + 1 /\ x < R + 1 + W
      BY <1>0, <3>2
    <3> QED
      BY <3>1, <3>3
  <2> QED
    BY <1>2, <1>3, <2>1 DEF HistoryInv, ReceiveBufferOK, Rising
<1>9. NoPacketForgotten'
  BY <1>0, <1>2, <1>3 DEF HistoryInv, NoPacketForgotten, HeldIn, senderVars
<1> QED
  BY <1>2, <1>4, <1>5, <1>7, <1>8, <1>9 DEF HistoryInv

LEMMA ReceiveAheadStep ==
    ASSUME ChannelInv, HistoryInv, UNCHANGED <<senderVars, net>>,
           NEW p \in net, ~packet_queued, packet_queued', InLifetime(p), ReceiveAhead(p)
    PROVE  HistoryInv'
<1> DEFINE W == MAX_RELIABLE_WINDOW_SIZE
           R == Len(received)
<1>0. /\ R \in Nat /\ W \in Nat \ {0} /\ log' = log
      /\ received' = received /\ next_incoming_seqnum' = next_incoming_seqnum
  BY LengthTypes DEF ChannelInv, senderVars, ReceiveAhead
<1>1. /\ p \in Packet /\ Sound(p) /\ p.seqnum = NumberOf(p.idx) /\ p.idx \in Nat
      /\ R < p.idx /\ p.idx < R + W
  <2>1. /\ p \in Packet /\ Sound(p) /\ p.idx \in Nat /\ R <= p.idx /\ p.idx < R + W
        /\ p.seqnum = next_incoming_seqnum <=> p.idx = R
    BY NumbersTellThePlace DEF ReceiveAhead
  <2>2. p.idx # R
    BY <2>1 DEF ReceiveAhead, ToBuffer
  <2>3. p.seqnum = NumberOf(p.idx)
    BY <2>1 DEF Sound, SoundIn
  <2>4. R < p.idx
    BY <1>0, <2>1, <2>2
  <2> QED
    BY <2>1, <2>3, <2>4
<1>2. /\ incoming_reliables' \in Seq(Packet) /\ Rising(incoming_reliables')
      /\ \A i \in 1 .. Len(incoming_reliables') :
            \/ incoming_reliables'[i] = p
            \/ \E j \in 1 .. Len(incoming_reliables) :
                  incoming_reliables'[i] = incoming_reliables[j]
      /\ \A i \in 1 .. Len(incoming_reliables) :
            \E j \in 1 .. Len(incoming_reliables') :
                incoming_reliables'[j] = incoming_reliables[i]
      /\ \E j \in 1 .. Len(incoming_reliables') : incoming_reliables'[j].idx = p.idx
  <2>1. incoming_reliables' = insert(incoming_reliables, p, NumberOf(R))
    BY DEF ReceiveAhead, HistoryInv, Numbering
  <2>2. \A i \in 1 .. Len(incoming_reliables) :
            /\ incoming_reliables[i].seqnum = NumberOf(incoming_reliables[i].idx)
            /\ R <= incoming_reliables[i].idx /\ incoming_reliables[i].idx < R + W
    BY BufferPlaces
  <2>3. R \in Int /\ incoming_reliables \in Seq(Packet) /\ Rising(incoming_reliables)
    BY <1>0, BufferPlaces
  <2> QED
    BY <1>1, <2>1, <2>2, <2>3, InsertRising
<1>3. \A k : HeldIn(incoming_reliables, k) => HeldIn(incoming_reliables', k)
  <2> SUFFICES ASSUME NEW k, HeldIn(incoming_reliables, k)
               PROVE  HeldIn(incoming_reliables', k)
    OBVIOUS
  <2>1. PICK i \in 1 .. Len(incoming_reliables) : incoming_reliables[i].idx = k
    BY BufferPlaces, HeldInPlaces
  <2>2. PICK j \in 1 .. Len(incoming_reliables') :
            incoming_reliables'[j] = incoming_reliables[i]
    BY <1>2
  <2> QED
    BY <1>2, <2>1, <2>2, HeldInPlaces
<1>4. HeldIn(incoming_reliables', p.idx)
  BY <1>2, HeldInPlaces
<1>5. Numbering' /\ AttemptNumbered' /\ SentListOK' /\ QueueOK' /\ AttemptLimit'
  BY <1>0, SenderKept DEF HistoryInv, Numbering, NumberOf
<1>6. PacketsSound'
  <2>1. \A i \in 1 .. Len(incoming_reliables') : Sound(incoming_reliables'[i])
    BY <1>1, <1>2, BufferPlaces
  <2> QED
    BY <2>1, SenderKept DEF PacketsSound, AllSound
<1>7. AcksMeanTaken'
  <2>1. \A k : Taken(k) => Taken(k)'
    BY <1>0, <1>3 DEF Taken, HeldIn
  <2>2. acks' = acks \cup {[seqnum |-> p.seqnum, idx |-> p.idx]}
    BY DEF ReceiveAhead, SendAck
  <2>3. Taken(p.idx)'
    <3>1. \E i \in DOMAIN incoming_reliables' : incoming_reliables'[i].idx = p.idx
      BY <1>4 DEF HeldIn
    <3> QED
      BY <1>2, <3>1 DEF Taken, HeldIn
  <2>4. ASSUME NEW a \in acks' PROVE a.seqnum = NumberOf(a.idx) /\ Taken(a.idx)'
    <3>1. CASE a \in acks
      BY <2>1, <3>1 DEF HistoryInv, AcksMeanTaken
    <3>2. CASE a = [seqnum |-> p.seqnum, idx |-> p.idx]
      <4>1. a.seqnum = p.seqnum /\ a.idx = p.idx
        BY <3>2
      <4> QED
        BY <1>1, <2>3, <4>1
    <3> QED
      BY <2>2, <3>1, <3>2
  <2> QED
    BY <2>4 DEF AcksMeanTaken, NumberOf
<1>8. ReceiveBufferOK'
  <2>1. ASSUME NEW i \in 1 .. Len(incoming_reliables')
        PROVE  /\ incoming_reliables'[i].idx >= R
               /\ incoming_reliables'[i].idx < R + W
    <3>1. CASE incoming_reliables'[i] = p
      BY <1>0, <1>1, <3>1
    <3>2. CASE \E j \in 1 .. Len(incoming_reliables) :
                  incoming_reliables'[i] = incoming_reliables[j]
      BY <1>0, <3>2, BufferPlaces
    <3> QED
      BY <1>2, <3>1, <3>2
  <2> QED
    BY <1>0, <1>2, <2>1 DEF ReceiveBufferOK, Rising
<1>9. NoPacketForgotten'
  BY <1>0, <1>3 DEF HistoryInv, NoPacketForgotten, HeldIn, senderVars
<1>10. InOrderDelivery'
  BY <1>0 DEF HistoryInv, InOrderDelivery
<1> QED
  BY <1>5, <1>6, <1>7, <1>8, <1>9, <1>10 DEF HistoryInv

LEMMA ReceiveOldStep ==
    ASSUME ChannelInv, HistoryInv, UNCHANGED <<senderVars, net>>,
           NEW p \in net, ~packet_queued, packet_queued', InLifetime(p),
           ReceiveOutOfWindow(p)
    PROVE  HistoryInv'
<1>0. /\ log' = log /\ received' = received /\ incoming_reliables' = incoming_reliables
      /\ next_incoming_seqnum' = next_incoming_seqnum
  BY DEF senderVars, ReceiveOutOfWindow
<1>1. p.seqnum = NumberOf(p.idx) /\ Taken(p.idx)
  BY NumbersTellThePlace DEF ReceiveOutOfWindow, Taken, Sound, SoundIn
<1>2. Numbering' /\ AttemptNumbered' /\ SentListOK' /\ QueueOK' /\ AttemptLimit'
  BY <1>0, SenderKept DEF HistoryInv, Numbering, NumberOf
<1>3. PacketsSound'
  BY <1>0, SenderKept DEF HistoryInv, PacketsSound, AllSound
<1>4. AcksMeanTaken'
  <2>1. \A k : Taken(k)' <=> Taken(k)
    BY <1>0 DEF Taken, HeldIn
  <2>2. acks' \subseteq acks \cup {[seqnum |-> p.seqnum, idx |-> p.idx]}
    BY DEF ReceiveOutOfWindow, SendAck
  <2>3. ASSUME NEW a \in acks' PROVE a.seqnum = NumberOf(a.idx) /\ Taken(a.idx)'
    <3>1. CASE a \in acks
      BY <2>1, <3>1 DEF HistoryInv, AcksMeanTaken
    <3>2. CASE a = [seqnum |-> p.seqnum, idx |-> p.idx]
      <4>1. a.seqnum = p.seqnum /\ a.idx = p.idx
        BY <3>2
      <4> QED
        BY <1>1, <2>1, <4>1
    <3> QED
      BY <2>2, <3>1, <3>2
  <2> QED
    BY <2>3 DEF AcksMeanTaken, NumberOf
<1>5. ReceiveBufferOK' /\ NoPacketForgotten' /\ InOrderDelivery'
  BY <1>0 DEF HistoryInv, ReceiveBufferOK, Rising, NoPacketForgotten, HeldIn,
     InOrderDelivery, senderVars
<1> QED
  BY <1>2, <1>3, <1>4, <1>5 DEF HistoryInv

\* checkIncomingBuffers takes the first packet of the buffer when it is due, and
\* lets the receiver read on when none is.
LEMMA CheckBuffersStep ==
    ASSUME ChannelInv, HistoryInv, checkIncomingBuffers
    PROVE  HistoryInv'
<1> DEFINE W == MAX_RELIABLE_WINDOW_SIZE
           R == Len(received)
           p == Head(incoming_reliables)
           rest == Tail(incoming_reliables)
<1>0. /\ R \in Nat /\ W \in Nat \ {0} /\ log' = log /\ acks' = acks
      /\ UNCHANGED <<senderVars, net>>
  BY LengthTypes DEF ChannelInv, senderVars, checkIncomingBuffers, wireVars
<1>1. CASE FirstIsDue
  <2>1. /\ incoming_reliables' = rest /\ packet_queued' /\ ProcessReliable(p)
    BY <1>1 DEF checkIncomingBuffers
  <2>2. /\ incoming_reliables \in Seq(Packet) /\ incoming_reliables # << >>
        /\ 1 \in 1 .. Len(incoming_reliables) /\ p = incoming_reliables[1]
        /\ rest \in Seq(Packet) /\ Len(rest) = Len(incoming_reliables) - 1
        /\ \A i \in 1 .. Len(rest) : /\ i + 1 \in 1 .. Len(incoming_reliables)
                                     /\ 1 < i + 1
                                     /\ rest[i] = incoming_reliables[i + 1]
    <3>1. incoming_reliables \in Seq(Packet) /\ incoming_reliables # << >>
      BY <1>1, BufferPlaces DEF FirstIsDue
    <3> QED
      BY <3>1
  <2> HIDE DEF p, rest
  <2>3. p \in Packet /\ Sound(p) /\ p.idx = R
    BY <1>1, <2>2, BufferPlaces DEF FirstIsDue, getFirstSeqnum
  <2>4. /\ next_incoming_seqnum' = NumberOf(R + 1) /\ Len(received') = R + 1
        /\ InOrderDelivery'
    BY <1>0, <2>1, <2>3, ProcessDue
  <2>5. \A i \in 1 .. Len(rest) :
            /\ Sound(rest[i]) /\ rest[i].idx \in Nat
            /\ R + 1 <= rest[i].idx /\ rest[i].idx < R + 1 + W
    <3> SUFFICES ASSUME NEW i \in 1 .. Len(rest)
                 PROVE  /\ Sound(rest[i]) /\ rest[i].idx \in Nat
                        /\ R + 1 <= rest[i].idx /\ rest[i].idx < R + 1 + W
      OBVIOUS
    <3>1. PICK j \in 1 .. Len(incoming_reliables) : 1 < j /\ rest[i] = incoming_reliables[j]
      BY <2>2
    <3>2. PICK x \in Nat : x = rest[i].idx
      BY <3>1, BufferPlaces
    <3>3. Sound(rest[i]) /\ x < R + W /\ R < x
      BY <2>2, <2>3, <3>1, <3>2, BufferPlaces DEF Rising
    <3>4. R + 1 <= x /\ x < R + 1 + W
      BY <1>0, <3>3
    <3> QED
      BY <3>2, <3>3, <3>4
  <2>6. \A k \in Nat : Taken(k) => Taken(k)'
    <3>1. \A k : HeldIn(incoming_reliables, k) <=> p.idx = k \/ HeldIn(rest, k)
      BY <2>2, HeldInTail DEF rest
    <3> QED
      BY <1>0, <2>1, <2>3, <2>4, <3>1 DEF Taken, HeldIn
  <2>7. Numbering' /\ AttemptNumbered' /\ SentListOK' /\ QueueOK' /\ AttemptLimit'
    BY <1>0, <2>4, SenderKept DEF Numbering, NumberOf
  <2>8. PacketsSound'
    BY <1>0, <2>1, <2>5, SenderKept DEF PacketsSound, AllSound
  <2>9. AcksMeanTaken'
    <3>1. \A a \in acks : a.idx \in Nat
      BY PacketFields DEF ChannelInv
    <3> QED
      BY <1>0, <2>6, <3>1 DEF HistoryInv, AcksMeanTaken, NumberOf
  <2>10. ReceiveBufferOK'
    <3>1. Rising(rest)
      <4> SUFFICES ASSUME NEW i \in 1 .. Len(rest), NEW j \in 1 .. Len(rest), i < j
                   PROVE  rest[i].idx < rest[j].idx
        BY DEF Rising
      <4>1. i + 1 < j + 1
        BY <2>2
      <4> QED
        BY <2>2, <4>1, BufferPlaces DEF Rising
    <3> QED
      BY <2>1, <2>4, <2>5, <3>1 DEF ReceiveBufferOK, Rising
  <2>11. NoPacketForgotten'
    <3> SUFFICES ASSUME NEW k \in 0 .. Len(log) - 1, Taken(k)
                 PROVE  Taken(k)'
      BY <1>0 DEF HistoryInv, NoPacketForgotten, Taken, HeldIn, senderVars
    <3> QED
      BY <1>0, <2>6
  <2> QED
    BY <2>4, <2>7, <2>8, <2>9, <2>10, <2>11 DEF HistoryInv
<1>2. CASE ~FirstIsDue
  <2>1. /\ received' = received /\ incoming_reliables' = incoming_reliables
        /\ next_incoming_seqnum' = next_incoming_seqnum
    BY <1>2 DEF checkIncomingBuffers
  <2>2. ASSUME NEW i \in 1 .. Len(incoming_reliables)
        PROVE  incoming_reliables[i].idx # R
    <3>1. /\ 1 \in 1 .. Len(incoming_reliables) /\ incoming_reliables # << >>
          /\ i = 1 \/ 1 < i
      BY BufferPlaces
    <3>2. incoming_reliables[1].idx # R
      BY <1>2, <3>1, BufferPlaces DEF FirstIsDue, getFirstSeqnum
    <3>3. /\ incoming_reliables[1].idx \in Nat /\ incoming_reliables[i].idx \in Nat
          /\ R <= incoming_reliables[1].idx
          /\ 1 < i => incoming_reliables[1].idx < incoming_reliables[i].idx
      BY <3>1, BufferPlaces DEF Rising
    <3> QED
      BY <1>0, <3>1, <3>2, <3>3
  <2>3. Numbering' /\ AttemptNumbered' /\ SentListOK' /\ QueueOK' /\ AttemptLimit'
    BY <1>0, <2>1, SenderKept DEF HistoryInv, Numbering, NumberOf
  <2>4. PacketsSound'
    BY <1>0, <2>1, SenderKept DEF HistoryInv, PacketsSound, AllSound
  <2>5. ReceiveBufferOK'
    BY <2>1, <2>2 DEF HistoryInv, ReceiveBufferOK, Rising
  <2>6. AcksMeanTaken' /\ NoPacketForgotten' /\ InOrderDelivery'
    BY <1>0, <2>1 DEF HistoryInv, AcksMeanTaken, Taken, NumberOf, NoPacketForgotten,
       HeldIn, InOrderDelivery, senderVars
  <2> QED
    BY <2>3, <2>4, <2>5, <2>6 DEF HistoryInv
<1> QED
  BY <1>1, <1>2

-----------------------------------------------------------------------------
LEMMA HistoryInit == Init => HistoryInv
<1> SUFFICES ASSUME Init PROVE HistoryInv
  OBVIOUS
<1>1. /\ Len(log) = 0 /\ Len(toadd) = 0 /\ Len(received) = 0
      /\ Len(queued_reliables) = 0 /\ Len(outgoing_reliables_sent) = 0
      /\ Len(incoming_reliables) = 0 /\ net = {} /\ acks = {} /\ attempting = "no"
  BY DEF Init
<1>2. Numbering
  <2>1. SEQNUM_INITIAL \in SeqNums /\ SEQNUM_INITIAL \in Nat
    BY ChannelAssumption DEF SeqNums
  <2>2. U16(SEQNUM_INITIAL + 0) = SEQNUM_INITIAL
    <3>1. 0 \in 0 .. SEQNUM_MAX + 1
      BY SeqNumAssumption
    <3>2. U16(SEQNUM_INITIAL + 0) = IF SEQNUM_INITIAL + 0 <= SEQNUM_MAX
                                    THEN SEQNUM_INITIAL + 0
                                    ELSE SEQNUM_INITIAL + 0 - (SEQNUM_MAX + 1)
      BY <2>1, <3>1, U16Sum
    <3> QED
      BY <2>1, <3>2, SeqNumAssumption DEF SeqNums
  <2> QED
    BY <1>1, <2>2 DEF Init, Numbering, NumberOf, Total
<1>3. /\ AttemptNumbered /\ PacketsSound /\ AcksMeanTaken /\ ReceiveBufferOK
      /\ SentListOK /\ QueueOK /\ AttemptLimit
  BY <1>1 DEF AttemptNumbered, PacketsSound, AllSound, AcksMeanTaken, ReceiveBufferOK,
     Rising, SentListOK, QueueOK, AttemptLimit
<1>4. NoPacketForgotten /\ InOrderDelivery
  BY <1>1 DEF NoPacketForgotten, InOrderDelivery
<1> QED
  BY <1>2, <1>3, <1>4 DEF HistoryInv

LEMMA HistoryStep ==
    ASSUME NumbersSuffice, ChannelInv, ChannelInv', HistoryInv, [Next]_vars
    PROVE  HistoryInv'
<1>1. CASE \/ \E n \in ChunkCounts : Submit(n)
           \/ \E i \in DOMAIN outgoing_reliables_sent : resendReliable(i)
           \/ UpdateTimers \/ RunCommandQueues \/ PutReliableSendCommand
           \/ EndCommands \/ EndSendPackets
           \/ Network \/ UNCHANGED vars
  BY <1>1, QuietSteps
<1>2. CASE Ping
  BY <1>2, PingStep
<1>3. CASE AllocateChunk
  BY <1>3, AllocateChunkStep
<1>4. CASE QueuePackets
  BY <1>4, QueuePacketsStep
<1>5. CASE PutBackSequenceNumbers
  BY <1>5, PutBackStep
<1>6. CASE SendQueuedReliable
  BY <1>6, SendQueuedStep
<1>7. ASSUME NEW a \in acks, ReceiveAck(a) PROVE HistoryInv'
  BY <1>7, ReceiveAckStep
<1>8. ASSUME NEW p \in net, Receive(p) PROVE HistoryInv'
  <2>1. /\ UNCHANGED <<senderVars, net>> /\ ~packet_queued /\ packet_queued'
        /\ InLifetime(p)
    BY <1>8 DEF Receive
  <2>2. CASE ReceiveNow(p)
    BY <2>1, <2>2, ReceiveNowStep
  <2>3. CASE ReceiveAhead(p)
    BY <2>1, <2>3, ReceiveAheadStep
  <2>4. CASE ReceiveOutOfWindow(p)
    BY <2>1, <2>4, ReceiveOldStep
  <2> QED
    BY <1>8, <2>2, <2>3, <2>4 DEF Receive
<1>9. CASE checkIncomingBuffers
  BY <1>9, CheckBuffersStep
<1> QED
  BY <1>1, <1>2, <1>3, <1>4, <1>5, <1>6, <1>7, <1>8, <1>9
  DEF Next, Endpoints, SendThread, ReceiveThread

LEMMA HistoryInvariant ==
    ASSUME NumbersSuffice
    PROVE  Spec => [](ChannelInv /\ HistoryInv)
<1>1. Init => ChannelInv /\ HistoryInv
  BY ChannelInvInit, HistoryInit
<1>2. ChannelInv /\ HistoryInv /\ [Next]_vars => (ChannelInv /\ HistoryInv)'
  <2> SUFFICES ASSUME ChannelInv, HistoryInv, [Next]_vars
               PROVE  (ChannelInv /\ HistoryInv)'
    OBVIOUS
  <2>1. ChannelInv'
    BY TypeStep, AttemptStep DEF ChannelInv
  <2> QED
    BY <2>1, HistoryStep
<1> QED
  BY <1>1, <1>2, PTL DEF Spec

\* For every size of the number space, of the windows and of the commands, the
\* receiver processes what the sender numbered, in order and once each, over a
\* network that loses, repeats and reorders packets (handlePacketType_Reliable,
\* checkIncomingBuffers).
THEOREM DeliveryInOrder ==
    ASSUME NumbersSuffice PROVE Spec => []InOrderDelivery
<1>1. HistoryInv => InOrderDelivery
  BY DEF HistoryInv
<1> QED
  BY <1>1, HistoryInvariant, PTL

\* Until the receiver has it, a packet stays in one of the sender's lists:
\* insert() never refuses what sendAsPacketReliable hands to it, and no ack is
\* taken for the one of another packet.
THEOREM NothingForgotten ==
    ASSUME NumbersSuffice PROVE Spec => []NoPacketForgotten
<1>1. HistoryInv => NoPacketForgotten
  BY DEF HistoryInv
<1> QED
  BY <1>1, HistoryInvariant, PTL

\* The sender never has more numbers in use than the receiver accepts, although
\* neither knows the state of the other.
THEOREM OutstandingBounded ==
    ASSUME NumbersSuffice PROVE Spec => []OutstandingBound
<1>1. ChannelInv /\ HistoryInv => OutstandingBound
  <2> SUFFICES ASSUME ChannelInv, HistoryInv, ~packet_queued
               PROVE  Len(log) + Len(toadd) - Len(received) <= MAX_RELIABLE_WINDOW_SIZE
    BY DEF OutstandingBound
  <2>1. Total <= Len(received) + MAX_RELIABLE_WINDOW_SIZE
    BY OutstandingReach
  <2>2. /\ Len(log) \in Nat /\ Len(toadd) \in Nat /\ Len(received) \in Nat
        /\ MAX_RELIABLE_WINDOW_SIZE \in Nat
    BY LengthTypes DEF ChannelInv
  <2> QED
    BY <2>1, <2>2 DEF Total
<1> QED
  BY <1>1, HistoryInvariant, PTL

\* No copy that is still on its way contradicts the receiver's buffer, so that an
\* honest peer is never put down for a duplicate that differs.
THEOREM HonestPeerTrusted ==
    ASSUME NumbersSuffice PROVE Spec => []NoFalseCorruption
<1>1. ChannelInv /\ HistoryInv => NoFalseCorruption
  BY NumbersTellThePlace DEF NoFalseCorruption
<1> QED
  BY <1>1, HistoryInvariant, PTL

-----------------------------------------------------------------------------
(* The channel as the application sees it: the commands come out in order  *)

\* The chunks of a command up to and including x.
Chunks(x) == {[cmd |-> x.cmd, num |-> i, count |-> x.count] : i \in 0 .. x.num}

\* The chunks of a command follow each other in the history without a gap or a
\* ping between them, and the commands follow each other in order.
ChunksInLog ==
    \A k \in 1 .. Len(log) :
        /\ log[k].num < log[k].count
        /\ log[k].cmd # 0 /\ log[k].num > 0 =>
              /\ k > 1
              /\ log[k - 1] = [cmd |-> log[k].cmd, num |-> log[k].num - 1,
                               count |-> log[k].count]
        /\ log[k].cmd # 0 /\ log[k].num + 1 < log[k].count =>
              /\ k < Len(log)
              /\ log[k + 1] = [cmd |-> log[k].cmd, num |-> log[k].num + 1,
                               count |-> log[k].count]
        /\ log[k].cmd # 0 /\ log[k].num = 0 =>
              /\ \A j \in 1 .. k - 1 : log[j].cmd < log[k].cmd
              /\ \A c \in 1 .. log[k].cmd - 1 : \E j \in 1 .. k - 1 : log[j].cmd = c

\* The number of commands whose packets have their numbers for good.
Logged == submitted - Len(queued_commands) - Len(m_command_queue)

\* The commands that have none yet wait in order; none is tried past another.
CommandsInOrder ==
    /\ Logged \in Nat
    /\ \A i \in 1 .. Len(queued_commands) : queued_commands[i].id = Logged + i
    /\ \A i \in 1 .. Len(m_command_queue) :
          m_command_queue[i].id = Logged + Len(queued_commands) + i
    /\ attempting = "put" => queued_commands = << >>
    /\ \A k \in 1 .. Len(log) : log[k].cmd <= Logged
    /\ \A c \in 1 .. Logged : \E k \in 1 .. Len(log) : log[k].cmd = c

\* The last payload the receiver processed is a chunk with others to follow.
InProgress == /\ Len(received) > 0
              /\ log[Len(received)].cmd # 0
              /\ log[Len(received)].num + 1 < log[Len(received)].count

\* What the receiver holds are the chunks of the one command it has begun and
\* not finished; the commands before are delivered.
Reassembly ==
    /\ \A k \in 1 .. Len(delivered) : delivered[k] = k
    /\ \A k \in 1 .. Len(received) :
          \/ log[k].cmd <= Len(delivered)
          \/ InProgress /\ log[k].cmd = Len(delivered) + 1
    /\ \A c \in 1 .. Len(delivered) : \E k \in 1 .. Len(received) : log[k].cmd = c
    /\ InProgress =>
          /\ log[Len(received)].cmd = Len(delivered) + 1
          /\ incoming_splits = Chunks(log[Len(received)])
          /\ IsFiniteSet(incoming_splits)
          /\ Cardinality(incoming_splits) = log[Len(received)].num + 1
    /\ ~InProgress => incoming_splits = {}

FifoInv == ChunksInLog /\ CommandsInOrder /\ Reassembly

\* A history that grows behind what the receiver has processed.
LEMMA ReassemblyKept ==
    ASSUME Reassembly, InOrderDelivery, Len(received) \in Nat, Len(log) \in Nat,
           \A k \in 1 .. Len(log) : log'[k] = log[k],
           UNCHANGED <<received, delivered, incoming_splits>>
    PROVE  Reassembly'
<1>1. \A k \in 1 .. Len(received) : log'[k] = log[k]
  BY DEF InOrderDelivery
<1>2. Len(received) > 0 => log'[Len(received)] = log[Len(received)]
  BY <1>1
<1>3. InProgress' <=> InProgress
  BY <1>2 DEF InProgress
<1>4. InProgress => log'[Len(received)] = log[Len(received)]
  BY <1>2 DEF InProgress
<1>5. \A c : (\E k \in 1 .. Len(received) : log[k].cmd = c)
                 => \E k \in 1 .. Len(received) : log'[k].cmd = c
  BY <1>1
<1>6. InProgress => Chunks(log'[Len(received)]) = Chunks(log[Len(received)])
  BY <1>4
<1>7. \A k \in 1 .. Len(received) :
          \/ log'[k].cmd <= Len(delivered)
          \/ InProgress /\ log'[k].cmd = Len(delivered) + 1
  BY <1>1 DEF Reassembly
<1>8. InProgress => /\ log'[Len(received)].cmd = Len(delivered) + 1
                    /\ incoming_splits = Chunks(log'[Len(received)])
                    /\ IsFiniteSet(incoming_splits)
                    /\ Cardinality(incoming_splits) = log'[Len(received)].num + 1
  BY <1>4, <1>6 DEF Reassembly
<1>9. \A c \in 1 .. Len(delivered) : \E k \in 1 .. Len(received) : log'[k].cmd = c
  BY <1>5 DEF Reassembly
<1>10. /\ \A k \in 1 .. Len(delivered) : delivered[k] = k
       /\ ~InProgress => incoming_splits = {}
  BY DEF Reassembly
<1>11. \A x : Chunks(x)' = Chunks(x)
  BY DEF Chunks
<1> QED
  BY <1>3, <1>7, <1>8, <1>9, <1>10 DEF Reassembly, Chunks

LEMMA QueueTypes ==
    ASSUME TypeOK
    PROVE  /\ queued_commands \in Seq(Command) /\ m_command_queue \in Seq(Command)
           /\ Len(queued_commands) \in Nat /\ Len(m_command_queue) \in Nat
           /\ submitted \in Nat /\ log \in Seq(Payload) /\ Len(log) \in Nat
           /\ \A k \in 1 .. Len(log) : /\ log[k] \in Payload /\ log[k].cmd \in Nat
                                       /\ log[k].num \in Nat /\ log[k].count \in Nat
           /\ \A c \in Command : c.id \in Nat /\ c.chunks \in ChunkCounts
                                 /\ c.chunks \in Nat \ {0}
<1>1. \A x \in Payload : x.cmd \in Nat /\ x.num \in Nat /\ x.count \in Nat
  BY DEF Payload
<1>2. \A c \in Command : c.id \in Nat /\ c.chunks \in ChunkCounts /\ c.chunks \in Nat \ {0}
  BY ChannelAssumption DEF Command
<1>3. /\ queued_commands \in Seq(Command) /\ m_command_queue \in Seq(Command)
      /\ submitted \in Nat /\ log \in Seq(Payload)
  BY ChannelAssumption DEF TypeOK
<1>4. \A k \in 1 .. Len(log) : log[k] \in Payload
  BY <1>3
<1> QED
  BY <1>1, <1>2, <1>3, <1>4

\* A new command waits behind the others.
LEMMA SubmitOrder ==
    ASSUME TypeOK, CommandsInOrder, NEW n \in ChunkCounts, Submit(n)
    PROVE  CommandsInOrder'
<1> DEFINE q == Len(queued_commands)
           m == Len(m_command_queue)
<1>1. /\ m_command_queue \in Seq(Command) /\ q \in Nat /\ m \in Nat /\ submitted \in Nat
  BY QueueTypes
<1>2. /\ UNCHANGED <<queued_commands, log, attempting>> /\ submitted' = submitted + 1
      /\ m_command_queue' = Append(m_command_queue, [id |-> submitted + 1, chunks |-> n])
  BY DEF Submit
<1>3. /\ Len(m_command_queue') = m + 1
      /\ \A i \in 1 .. m : m_command_queue'[i] = m_command_queue[i]
      /\ m_command_queue'[m + 1].id = submitted + 1
  BY <1>1, <1>2
<1>4. Logged' = Logged /\ submitted + 1 = Logged + q + (m + 1)
  BY <1>1, <1>2, <1>3 DEF Logged
<1>5. ASSUME NEW i \in 1 .. m + 1
      PROVE  m_command_queue'[i].id = Logged + q + i
  <2>1. CASE i \in 1 .. m
    BY <1>3, <2>1 DEF CommandsInOrder
  <2>2. CASE i = m + 1
    BY <1>3, <1>4, <2>2
  <2> QED
    BY <1>1, <2>1, <2>2
<1> QED
  BY <1>2, <1>3, <1>4, <1>5 DEF CommandsInOrder

\* A command goes from one queue to the other.
LEMMA MoveOrder ==
    ASSUME TypeOK, CommandsInOrder, m_command_queue # << >>,
           queued_commands' = Append(queued_commands, Head(m_command_queue)),
           m_command_queue' = Tail(m_command_queue),
           UNCHANGED <<submitted, log>>, attempting' # "put"
    PROVE  CommandsInOrder'
<1> DEFINE q == Len(queued_commands)
           m == Len(m_command_queue)
<1>1. /\ m_command_queue \in Seq(Command) /\ queued_commands \in Seq(Command)
      /\ q \in Nat /\ m \in Nat \ {0} /\ submitted \in Nat
  BY QueueTypes
<1>2. /\ Len(m_command_queue') = m - 1 /\ Len(queued_commands') = q + 1
      /\ \A i \in 1 .. m - 1 : m_command_queue'[i] = m_command_queue[i + 1]
      /\ \A i \in 1 .. q : queued_commands'[i] = queued_commands[i]
      /\ queued_commands'[q + 1] = m_command_queue[1]
  BY <1>1
<1>3. Logged' = Logged /\ Logged \in Nat
  BY <1>1, <1>2 DEF Logged, CommandsInOrder
<1>4. ASSUME NEW i \in 1 .. q + 1 PROVE queued_commands'[i].id = Logged + i
  <2>1. CASE i \in 1 .. q
    BY <1>2, <2>1 DEF CommandsInOrder
  <2>2. CASE i = q + 1
    <3>1. 1 \in 1 .. m /\ m_command_queue[1].id = Logged + q + 1
      BY <1>1 DEF CommandsInOrder
    <3> QED
      BY <1>1, <1>2, <1>3, <2>2, <3>1
  <2> QED
    BY <1>1, <2>1, <2>2
<1>5. ASSUME NEW i \in 1 .. m - 1
      PROVE  m_command_queue'[i].id = Logged + (q + 1) + i
  <2>1. i + 1 \in 1 .. m /\ m_command_queue[i + 1].id = Logged + q + (i + 1)
    BY <1>1 DEF CommandsInOrder
  <2> QED
    BY <1>1, <1>2, <1>3, <2>1
<1> QED
  BY <1>2, <1>3, <1>4, <1>5 DEF CommandsInOrder

\* A ping at the end of the history.
LEMMA PingLogged ==
    ASSUME TypeOK, ChunksInLog, CommandsInOrder, log' = Append(log, PingPayload),
           UNCHANGED <<submitted, queued_commands, m_command_queue, attempting>>
    PROVE  ChunksInLog' /\ CommandsInOrder'
<1> DEFINE n == Len(log)
<1>1. /\ log \in Seq(Payload) /\ n \in Nat
      /\ \A k \in 1 .. n : log[k].num \in Nat /\ log[k].count \in Nat /\ log[k].cmd \in Nat
  BY QueueTypes
<1>2. /\ Len(log') = n + 1 /\ \A k \in 1 .. n : log'[k] = log[k]
      /\ log'[n + 1] = PingPayload
  BY <1>1
<1>3. PingPayload.cmd = 0 /\ PingPayload.num = 0 /\ PingPayload.count = 1
  BY DEF PingPayload
<1>4. ChunksInLog'
  <2>1. ASSUME NEW k \in 1 .. n + 1
        PROVE  /\ log'[k].num < log'[k].count
               /\ log'[k].cmd # 0 /\ log'[k].num > 0 =>
                     /\ k > 1
                     /\ log'[k - 1] = [cmd |-> log'[k].cmd, num |-> log'[k].num - 1,
                                       count |-> log'[k].count]
               /\ log'[k].cmd # 0 /\ log'[k].num + 1 < log'[k].count =>
                     /\ k < n + 1
                     /\ log'[k + 1] = [cmd |-> log'[k].cmd, num |-> log'[k].num + 1,
                                       count |-> log'[k].count]
               /\ log'[k].cmd # 0 /\ log'[k].num = 0 =>
                     /\ \A j \in 1 .. k - 1 : log'[j].cmd < log'[k].cmd
                     /\ \A c \in 1 .. log'[k].cmd - 1 :
                           \E j \in 1 .. k - 1 : log'[j].cmd = c
    <3>1. CASE k = n + 1
      BY <1>2, <1>3, <3>1
    <3>2. CASE k \in 1 .. n
      <4>1. log'[k] = log[k]
        BY <1>2, <3>2
      <4>2. \A j \in 1 .. k - 1 : j \in 1 .. n /\ log'[j] = log[j]
        BY <1>1, <1>2, <3>2
      <4>3. log[k].num < log[k].count
        BY <3>2 DEF ChunksInLog
      <4>4. log[k].cmd # 0 /\ log[k].num > 0 =>
                /\ k > 1
                /\ log'[k - 1] = [cmd |-> log[k].cmd, num |-> log[k].num - 1,
                                  count |-> log[k].count]
        <5>1. k > 1 => k - 1 \in 1 .. k - 1
          BY <3>2
        <5> QED
          BY <3>2, <4>2, <5>1 DEF ChunksInLog
      <4>5. log[k].cmd # 0 /\ log[k].num + 1 < log[k].count =>
                /\ k < n + 1
                /\ log'[k + 1] = [cmd |-> log[k].cmd, num |-> log[k].num + 1,
                                  count |-> log[k].count]
        <5>1. k < n => k + 1 \in 1 .. n /\ k < n + 1
          BY <1>1, <3>2
        <5> QED
          BY <1>2, <3>2, <5>1 DEF ChunksInLog
      <4>6. log[k].cmd # 0 /\ log[k].num = 0 =>
                /\ \A j \in 1 .. k - 1 : log'[j].cmd < log[k].cmd
                /\ \A c \in 1 .. log[k].cmd - 1 :
                      \E j \in 1 .. k - 1 : log'[j].cmd = c
        <5> SUFFICES ASSUME log[k].cmd # 0, log[k].num = 0
                     PROVE  /\ \A j \in 1 .. k - 1 : log'[j].cmd < log[k].cmd
                            /\ \A c \in 1 .. log[k].cmd - 1 :
                                  \E j \in 1 .. k - 1 : log'[j].cmd = c
          OBVIOUS
        <5>1. /\ \A j \in 1 .. k - 1 : log[j].cmd < log[k].cmd
              /\ \A c \in 1 .. log[k].cmd - 1 : \E j \in 1 .. k - 1 : log[j].cmd = c
          BY <3>2 DEF ChunksInLog
        <5> QED
          BY <4>2, <5>1
      <4> QED
        BY <4>1, <4>3, <4>4, <4>5, <4>6
    <3>3. k = n + 1 \/ k \in 1 .. n
      BY <1>1
    <3> QED
      BY <3>1, <3>2, <3>3
  <2> QED
    BY <1>2, <2>1, SMTT(30) DEF ChunksInLog
<1>5. CommandsInOrder'
  <2>1. Logged' = Logged /\ Logged \in Nat
    BY DEF Logged, CommandsInOrder
  <2>2. ASSUME NEW k \in 1 .. n + 1 PROVE log'[k].cmd <= Logged
    <3>1. CASE k = n + 1
      BY <1>2, <1>3, <2>1, <3>1
    <3>2. CASE k \in 1 .. n
      BY <1>2, <3>2 DEF CommandsInOrder
    <3> QED
      BY <1>1, <3>1, <3>2
  <2>3. ASSUME NEW c \in 1 .. Logged PROVE \E k \in 1 .. n + 1 : log'[k].cmd = c
    <3>1. PICK k \in 1 .. n : log[k].cmd = c
      BY DEF CommandsInOrder
    <3>2. k \in 1 .. n + 1 /\ log'[k].cmd = c
      BY <1>1, <1>2, <3>1
    <3> QED
      BY <3>2
  <2> QED
    BY <1>2, <2>1, <2>2, <2>3 DEF CommandsInOrder
<1> QED
  BY <1>4, <1>5

\* A finished command leaves its queue, and its chunks end the history.
LEMMA CommandLogged ==
    ASSUME ChannelInv, TypeOK', HistoryInv, ChunksInLog, CommandsInOrder, QueuePackets
    PROVE  ChunksInLog' /\ CommandsInOrder'
<1> DEFINE n == Len(log)
           m == Len(toadd)
           q == Len(queued_commands)
           r == Len(m_command_queue)
           payloads == [k \in 1 .. m |-> toadd[k].payload]
<1>0. TypeOK /\ AttemptOK /\ attempting # "no" /\ Len(toadd) = Current.chunks
  BY DEF ChannelInv, QueuePackets
<1>1. /\ log \in Seq(Payload) /\ n \in Nat /\ toadd \in Seq(Packet) /\ m \in Nat \ {0}
      /\ q \in Nat /\ r \in Nat /\ submitted \in Nat /\ Logged \in Nat
      /\ \A k \in 1 .. n : log[k].num \in Nat /\ log[k].count \in Nat /\ log[k].cmd \in Nat
  <2>1. Current \in Command
    BY <1>0, CurrentType
  <2> QED
    BY <1>0, <2>1, QueueTypes DEF TypeOK, CommandsInOrder
\* What becomes of the queues.
<1>2. /\ Current.id = Logged + 1 /\ Logged' = Logged + 1
      /\ \A i \in 1 .. Len(queued_commands') : queued_commands'[i].id = Logged + 1 + i
      /\ \A i \in 1 .. Len(m_command_queue') :
            m_command_queue'[i].id = Logged + 1 + Len(queued_commands') + i
  <2>0. queued_commands \in Seq(Command) /\ m_command_queue \in Seq(Command)
    BY <1>0, QueueTypes
  <2>1. CASE attempting = "run"
    <3>1. /\ queued_commands # << >> /\ queued_commands' = Tail(queued_commands)
          /\ m_command_queue' = m_command_queue /\ submitted' = submitted
          /\ Current = queued_commands[1]
      BY <1>0, <2>0, <2>1 DEF QueuePackets, AttemptOK, Current
    <3>2. /\ q \in Nat \ {0} /\ Len(queued_commands') = q - 1
          /\ \A i \in 1 .. q - 1 : queued_commands'[i] = queued_commands[i + 1]
      BY <2>0, <3>1
    <3>3. Logged' = Logged + 1
      BY <1>1, <3>1, <3>2 DEF Logged
    <3>4. Current.id = Logged + 1
      BY <3>1, <3>2 DEF CommandsInOrder
    <3>5. ASSUME NEW i \in 1 .. q - 1 PROVE queued_commands'[i].id = Logged + 1 + i
      <4>1. i + 1 \in 1 .. q /\ queued_commands[i + 1].id = Logged + (i + 1)
        BY <3>2 DEF CommandsInOrder
      <4> QED
        BY <1>1, <3>2, <4>1
    <3>6. ASSUME NEW i \in 1 .. r
          PROVE  m_command_queue[i].id = Logged + 1 + (q - 1) + i
      <4>1. m_command_queue[i].id = Logged + q + i
        BY DEF CommandsInOrder
      <4> QED
        BY <1>1, <4>1
    <3> QED
      BY <3>1, <3>2, <3>3, <3>4, <3>5, <3>6
  <2>2. CASE attempting # "run"
    <3>1. /\ m_command_queue # << >> /\ m_command_queue' = Tail(m_command_queue)
          /\ queued_commands' = queued_commands /\ submitted' = submitted
          /\ Current = m_command_queue[1] /\ attempting = "put"
      BY <1>0, <2>0, <2>2 DEF QueuePackets, AttemptOK, Current, TypeOK
    <3>2. /\ r \in Nat \ {0} /\ Len(m_command_queue') = r - 1
          /\ \A i \in 1 .. r - 1 : m_command_queue'[i] = m_command_queue[i + 1]
      BY <2>0, <3>1
    <3>3. q = 0
      BY <3>1 DEF CommandsInOrder
    <3>4. Logged' = Logged + 1
      BY <1>1, <3>1, <3>2 DEF Logged
    <3>5. Current.id = Logged + 1
      <4>1. 1 \in 1 .. r /\ m_command_queue[1].id = Logged + q + 1
        BY <3>2 DEF CommandsInOrder
      <4> QED
        BY <1>1, <3>1, <3>3, <4>1
    <3>6. ASSUME NEW i \in 1 .. r - 1
          PROVE  m_command_queue'[i].id = Logged + 1 + q + i
      <4>1. i + 1 \in 1 .. r /\ m_command_queue[i + 1].id = Logged + q + (i + 1)
        BY <3>2 DEF CommandsInOrder
      <4> QED
        BY <1>1, <3>2, <3>3, <4>1
    <3> QED
      BY <3>1, <3>2, <3>3, <3>4, <3>5, <3>6
  <2> QED
    BY <2>1, <2>2
\* What is added to the history.
<1>3. ASSUME NEW k \in 1 .. m
      PROVE  toadd[k].payload = [cmd |-> Logged + 1, num |-> k - 1, count |-> m]
  <2>1. toadd[k] = [seqnum  |-> NumberOf(Len(log) + k - 1), idx |-> Len(log) + k - 1,
                    payload |-> [cmd |-> Current.id, num |-> k - 1,
                                 count |-> Current.chunks]]
    BY DEF HistoryInv, AttemptNumbered
  <2>2. toadd[k].payload = [cmd |-> Current.id, num |-> k - 1, count |-> Current.chunks]
    BY <2>1
  <2> QED
    BY <1>0, <1>2, <2>2
<1>4. /\ Len(log') = n + m
      /\ \A k \in 1 .. n : log'[k] = log[k]
      /\ \A k \in 1 .. m : log'[n + k] = [cmd |-> Logged + 1, num |-> k - 1, count |-> m]
  <2>1. \A k \in 1 .. m : toadd[k].payload \in Payload
    BY <1>0, PacketFields DEF Packet
  <2>2. payloads \in Seq(Payload) /\ Len(payloads) = m
    BY <1>1, <2>1
  <2>3. \A k \in 1 .. m : payloads[k] = [cmd |-> Logged + 1, num |-> k - 1, count |-> m]
    BY <1>3
  <2>4. log' = log \o payloads
    BY DEF QueuePackets
  <2> HIDE DEF payloads
  <2>5. /\ Len(log \o payloads) = n + m
        /\ \A k \in 1 .. n : (log \o payloads)[k] = log[k]
        /\ \A k \in 1 .. m : (log \o payloads)[n + k] = payloads[k]
    <3>1. \A a \in Seq(Payload), b \in Seq(Payload) :
              /\ Len(a \o b) = Len(a) + Len(b)
              /\ \A k \in 1 .. Len(a) : (a \o b)[k] = a[k]
              /\ \A k \in 1 .. Len(b) : (a \o b)[Len(a) + k] = b[k]
      OBVIOUS
    <3> QED
      BY <1>1, <2>2, <3>1, ZenonT(30)
  <2> QED
    BY <2>3, <2>4, <2>5
<1> HIDE DEF payloads
<1>5. ASSUME NEW k \in 1 .. m
      PROVE  /\ log'[n + k].cmd = Logged + 1 /\ log'[n + k].num = k - 1
             /\ log'[n + k].count = m
  <2>1. log'[n + k] = [cmd |-> Logged + 1, num |-> k - 1, count |-> m]
    BY <1>4
  <2> QED
    BY <2>1
<1>6. ASSUME NEW k \in 1 .. n + m
      PROVE  k \in 1 .. n \/ \E j \in 1 .. m : k = n + j
  <2>1. CASE k <= n
    BY <1>1, <2>1
  <2>2. CASE k > n
    <3>1. k - n \in 1 .. m /\ k = n + (k - n)
      BY <1>1, <2>2
    <3> QED
      BY <3>1, Zenon
  <2> QED
    BY <1>1, <2>1, <2>2
<1>7. CommandsInOrder'
  <2>1. ASSUME NEW k \in 1 .. n + m PROVE log'[k].cmd <= Logged + 1
    <3>1. CASE k \in 1 .. n
      <4>1. log[k].cmd <= Logged /\ log[k].cmd \in Nat
        BY <1>1, <3>1 DEF CommandsInOrder
      <4> QED
        BY <1>1, <1>4, <3>1, <4>1
    <3>2. CASE \E j \in 1 .. m : k = n + j
      <4>1. log'[k].cmd = Logged + 1
        BY <1>5, <3>2
      <4> QED
        BY <1>1, <4>1
    <3> QED
      BY <1>6, <3>1, <3>2
  <2>2. ASSUME NEW c \in 1 .. Logged + 1 PROVE \E k \in 1 .. n + m : log'[k].cmd = c
    <3>1. CASE c \in 1 .. Logged
      <4>1. PICK k \in 1 .. n : log[k].cmd = c
        BY <3>1 DEF CommandsInOrder
      <4>2. k \in 1 .. n + m /\ log'[k].cmd = c
        BY <1>1, <1>4, <4>1
      <4> QED
        BY <4>2
    <3>2. CASE c = Logged + 1
      <4>1. n + 1 \in 1 .. n + m /\ log'[n + 1].cmd = c
        <5>1. 1 \in 1 .. m /\ n + 1 \in 1 .. n + m
          BY <1>1
        <5> QED
          BY <1>5, <3>2, <5>1
      <4> QED
        BY <4>1
    <3> QED
      BY <1>1, <3>1, <3>2, SMTT(30)
  <2>3. attempting' # "put"
    BY DEF QueuePackets
  <2>4. Logged + 1 \in Nat
    BY <1>1
  <2> QED
    BY <1>2, <1>4, <2>1, <2>2, <2>3, <2>4 DEF CommandsInOrder
<1>8. ChunksInLog'
  <2> SUFFICES ASSUME NEW k \in 1 .. n + m
        PROVE  /\ log'[k].num < log'[k].count
               /\ log'[k].cmd # 0 /\ log'[k].num > 0 =>
                     /\ k > 1
                     /\ log'[k - 1] = [cmd |-> log'[k].cmd, num |-> log'[k].num - 1,
                                       count |-> log'[k].count]
               /\ log'[k].cmd # 0 /\ log'[k].num + 1 < log'[k].count =>
                     /\ k < n + m
                     /\ log'[k + 1] = [cmd |-> log'[k].cmd, num |-> log'[k].num + 1,
                                       count |-> log'[k].count]
               /\ log'[k].cmd # 0 /\ log'[k].num = 0 =>
                     /\ \A j \in 1 .. k - 1 : log'[j].cmd < log'[k].cmd
                     /\ \A c \in 1 .. log'[k].cmd - 1 :
                           \E j \in 1 .. k - 1 : log'[j].cmd = c
    BY <1>4 DEF ChunksInLog
  <2>1. CASE k \in 1 .. n
    <3>1. log'[k] = log[k]
      BY <1>4, <2>1
    <3>2. \A j \in 1 .. k - 1 : j \in 1 .. n /\ log'[j] = log[j]
      BY <1>1, <1>4, <2>1
    <3>3. log[k].num < log[k].count
      BY <2>1 DEF ChunksInLog
    <3>4. log[k].cmd # 0 /\ log[k].num > 0 =>
              /\ k > 1
              /\ log'[k - 1] = [cmd |-> log[k].cmd, num |-> log[k].num - 1,
                                count |-> log[k].count]
      <4>1. k > 1 => k - 1 \in 1 .. k - 1
        BY <2>1
      <4> QED
        BY <2>1, <3>2, <4>1 DEF ChunksInLog
    <3>5. log[k].cmd # 0 /\ log[k].num + 1 < log[k].count =>
              /\ k < n + m
              /\ log'[k + 1] = [cmd |-> log[k].cmd, num |-> log[k].num + 1,
                                count |-> log[k].count]
      <4>1. k < n => k + 1 \in 1 .. n /\ k < n + m
        BY <1>1, <2>1
      <4> QED
        BY <1>4, <2>1, <4>1 DEF ChunksInLog
    <3>6. log[k].cmd # 0 /\ log[k].num = 0 =>
              /\ \A j \in 1 .. k - 1 : log'[j].cmd < log[k].cmd
              /\ \A c \in 1 .. log[k].cmd - 1 :
                    \E j \in 1 .. k - 1 : log'[j].cmd = c
      <4> SUFFICES ASSUME log[k].cmd # 0, log[k].num = 0
                   PROVE  /\ \A j \in 1 .. k - 1 : log'[j].cmd < log[k].cmd
                          /\ \A c \in 1 .. log[k].cmd - 1 :
                                \E j \in 1 .. k - 1 : log'[j].cmd = c
        OBVIOUS
      <4>1. /\ \A j \in 1 .. k - 1 : log[j].cmd < log[k].cmd
            /\ \A c \in 1 .. log[k].cmd - 1 : \E j \in 1 .. k - 1 : log[j].cmd = c
        BY <2>1 DEF ChunksInLog
      <4> QED
        BY <3>2, <4>1, SMTT(30)
    <3> QED
      BY <3>1, <3>3, <3>4, <3>5, <3>6
  <2>2. CASE \E j \in 1 .. m : k = n + j
    <3>1. PICK j \in 1 .. m : k = n + j
      BY <2>2
    <3>2. log'[k].cmd = Logged + 1 /\ log'[k].num = j - 1 /\ log'[k].count = m
      BY <1>5, <3>1
    <3>3. j - 1 < m
      BY <1>1
    <3>4. ASSUME log'[k].num > 0
          PROVE  /\ k > 1
                 /\ log'[k - 1] = [cmd |-> log'[k].cmd, num |-> log'[k].num - 1,
                                   count |-> log'[k].count]
      <4>1. j - 1 \in 1 .. m /\ k - 1 = n + (j - 1) /\ k > 1
        BY <1>1, <3>1, <3>2, <3>4, SMTT(30)
      <4>2. log'[k - 1] = [cmd |-> Logged + 1, num |-> j - 1 - 1, count |-> m]
        BY <1>4, <4>1
      <4> QED
        BY <3>2, <4>1, <4>2
    <3>5. ASSUME log'[k].num + 1 < log'[k].count
          PROVE  /\ k < n + m
                 /\ log'[k + 1] = [cmd |-> log'[k].cmd, num |-> log'[k].num + 1,
                                   count |-> log'[k].count]
      <4>0. j - 1 + 1 < m
        BY <3>2, <3>5
      <4>1. /\ j + 1 \in 1 .. m /\ k + 1 = n + (j + 1) /\ k < n + m
            /\ j + 1 - 1 = j - 1 + 1
        BY <1>1, <3>1, <4>0
      <4>2. log'[k + 1] = [cmd |-> Logged + 1, num |-> j + 1 - 1, count |-> m]
        BY <1>4, <4>1
      <4> QED
        BY <3>2, <4>1, <4>2
    <3>6. ASSUME log'[k].num = 0
          PROVE  /\ \A i \in 1 .. k - 1 : log'[i].cmd < log'[k].cmd
                 /\ \A c \in 1 .. log'[k].cmd - 1 : \E i \in 1 .. k - 1 : log'[i].cmd = c
      <4>1. j = 1 /\ k - 1 = n /\ Logged + 1 - 1 = Logged
        BY <1>1, <3>1, <3>2, <3>6
      <4>2. \A i \in 1 .. n : log[i].cmd < Logged + 1
        BY <1>1 DEF CommandsInOrder
      <4>3. \A c \in 1 .. Logged : \E i \in 1 .. n : log[i].cmd = c
        BY DEF CommandsInOrder
      <4>4. /\ \A i \in 1 .. n : log'[i].cmd < Logged + 1
            /\ \A c \in 1 .. Logged : \E i \in 1 .. n : log'[i].cmd = c
        BY <1>4, <4>2, <4>3
      <4>5. \A i \in 1 .. k - 1 : log'[i].cmd < log'[k].cmd
        BY <3>2, <4>1, <4>4
      <4>6. \A c \in 1 .. log'[k].cmd - 1 : \E i \in 1 .. k - 1 : log'[i].cmd = c
        <5>1. log'[k].cmd - 1 = Logged
          BY <1>1, <3>2
        <5> QED
          BY <4>1, <4>4, <5>1
      <4> QED
        BY <4>5, <4>6
    <3>7. log'[k].num < log'[k].count
      BY <3>2, <3>3
    <3> QED
      BY <3>4, <3>5, <3>6, <3>7
  <2> QED
    BY <1>6, <2>1, <2>2
<1> QED
  BY <1>7, <1>8

\* Processing the packet that is due extends the command the receiver has begun,
\* begins the next one, or is a ping; what it delivers is the next command.
LEMMA ProcessNext ==
    ASSUME ChannelInv, HistoryInv, FifoInv, log' = log, NEW p \in Packet, Sound(p),
           p.idx = Len(received), ProcessReliable(p)
    PROVE  /\ Reassembly'
           /\ \/ delivered' = delivered
              \/ /\ delivered' = Append(delivered, Len(delivered) + 1)
                 /\ Len(delivered) + 1 <= Logged
<1> DEFINE R == Len(received)
           d == Len(delivered)
           x == p.payload
<1>1. /\ R \in Nat /\ d \in Nat /\ delivered \in Seq(Nat) /\ Len(log) \in Nat
      /\ Len(received') = R + 1
      /\ \A k \in 1 .. Len(log) : /\ log[k] \in Payload /\ log[k].cmd \in Nat
                                  /\ log[k].num \in Nat /\ log[k].count \in Nat
  <2>1. TypeOK /\ Len(received') = R + 1
    BY ProcessDue DEF ChannelInv
  <2> QED
    BY <2>1, QueueTypes, SMTT(30) DEF TypeOK
<1>2. /\ R + 1 \in 1 .. Len(log) /\ x = log[R + 1] /\ \A k \in 1 .. R : k \in 1 .. Len(log)
      /\ x \in Payload /\ x.cmd \in Nat /\ x.num \in Nat /\ x.count \in Nat
      /\ x.num < x.count
  <2>1. R + 1 \in 1 .. Len(log) /\ x = log[R + 1]
    BY <1>1 DEF Sound, SoundIn
  <2> HIDE DEF x
  <2>2. x \in Payload /\ x.cmd \in Nat /\ x.num \in Nat /\ x.count \in Nat
    BY <1>1, <2>1
  <2>3. x.num < x.count
    BY <2>1 DEF FifoInv, ChunksInLog
  <2> QED
    BY <1>1, <2>1, <2>2, <2>3
<1>3. ProcessPayload(x)
  BY DEF ProcessReliable
<1> HIDE DEF x
<1>4. InProgress' <=> x.cmd # 0 /\ x.num + 1 < x.count
  BY <1>1, <1>2 DEF InProgress
\* A command that has been begun goes on.
<1>5. InProgress => /\ x = [cmd |-> log[R].cmd, num |-> log[R].num + 1,
                            count |-> log[R].count]
                    /\ x.cmd # 0 /\ x.num > 0
  <2> SUFFICES ASSUME InProgress
               PROVE  /\ x = [cmd |-> log[R].cmd, num |-> log[R].num + 1,
                              count |-> log[R].count]
                      /\ x.cmd # 0 /\ x.num > 0
    OBVIOUS
  <2>1. R \in 1 .. Len(log) /\ log[R].cmd # 0 /\ log[R].num + 1 < log[R].count
    BY <1>1, <1>2 DEF InProgress
  <2>2. x = [cmd |-> log[R].cmd, num |-> log[R].num + 1, count |-> log[R].count]
    BY <1>2, <2>1 DEF FifoInv, ChunksInLog
  <2>3. x.cmd = log[R].cmd /\ x.num = log[R].num + 1
    BY <2>2
  <2> QED
    BY <1>1, <2>1, <2>2, <2>3
<1>6. \A k \in 1 .. R : log[k].cmd <= d \/ (InProgress /\ log[k].cmd = d + 1)
  BY DEF FifoInv, Reassembly
<1>7. \A c \in 1 .. d : \E k \in 1 .. R : log[k].cmd = c
  BY DEF FifoInv, Reassembly
\* A ping changes nothing.
<1>8. CASE x.cmd = 0
  <2>1. ~InProgress /\ ~InProgress' /\ incoming_splits = {}
    BY <1>4, <1>5, <1>8 DEF FifoInv, Reassembly
  <2>2. delivered' = delivered /\ incoming_splits' = {}
    BY <1>3, <1>8, <2>1 DEF ProcessPayload
  <2>3. \A k \in 1 .. R + 1 : log[k].cmd <= d
    <3>1. \A k \in 1 .. R + 1 : k \in 1 .. R \/ k = R + 1
      BY <1>1
    <3> QED
      BY <1>1, <1>2, <1>6, <1>8, <2>1, <3>1
  <2>4. \A c \in 1 .. d : \E k \in 1 .. R + 1 : log[k].cmd = c
    <3>1. \A k \in 1 .. R : k \in 1 .. R + 1
      BY <1>1
    <3> QED
      BY <1>7, <3>1
  <2>5. \A k \in 1 .. d : delivered[k] = k
    BY DEF FifoInv, Reassembly
  <2> QED
    BY <1>1, <2>1, <2>2, <2>3, <2>4, <2>5 DEF Reassembly
<1>9. CASE x.cmd # 0
\* The chunks that are here, with this one, are those of the next command.
  <2>1. /\ x.cmd = d + 1 /\ ChunksWith(x) = Chunks(x) /\ incoming_splits \subseteq Chunks(x)
        /\ incoming_splits \cup {x} = Chunks(x)
        /\ IsFiniteSet(Chunks(x)) /\ Cardinality(Chunks(x)) = x.num + 1
    <3>1. CASE InProgress
      <4>1. /\ log[R].cmd = d + 1 /\ incoming_splits = Chunks(log[R])
            /\ IsFiniteSet(incoming_splits)
            /\ Cardinality(incoming_splits) = log[R].num + 1
        BY <3>1 DEF FifoInv, Reassembly
      <4>2. /\ x.cmd = log[R].cmd /\ x.num = log[R].num + 1 /\ x.count = log[R].count
            /\ log[R].num \in Nat
        <5>1. R \in 1 .. Len(log)
          BY <1>1, <1>2, <3>1 DEF InProgress
        <5> QED
          BY <1>1, <1>5, <3>1, <5>1
      <4>3. x = [cmd |-> x.cmd, num |-> x.num, count |-> x.count]
        BY <1>2 DEF Payload
      <4>4. Chunks(log[R]) \cup {x} = Chunks(x)
        <5>1. \A i : i \in 0 .. x.num <=> i \in 0 .. log[R].num \/ i = x.num
          BY <4>2
        <5> QED
          BY <4>2, <4>3, <5>1 DEF Chunks
      <4>5. x \notin Chunks(log[R])
        <5>1. \A i \in 0 .. log[R].num : i # x.num
          BY <4>2
        <5>2. \A y \in Chunks(log[R]) : y.num \in 0 .. log[R].num
          BY DEF Chunks
        <5> QED
          BY <5>1, <5>2
      <4>6. \A y \in Chunks(log[R]) : y.cmd = x.cmd
        BY <4>2 DEF Chunks
      <4>7. ChunksWith(x) = Chunks(x)
        BY <4>1, <4>4, <4>6 DEF ChunksWith
      <4>8. IsFiniteSet(Chunks(x)) /\ Cardinality(Chunks(x)) = log[R].num + 1 + 1
        BY <4>1, <4>4, <4>5, FS_AddElement
      <4> QED
        BY <4>1, <4>2, <4>4, <4>7, <4>8
    <3>2. CASE ~InProgress
      <4>1. incoming_splits = {} /\ \A k \in 1 .. R : log[k].cmd <= d
        BY <1>6, <3>2 DEF FifoInv, Reassembly
      <4>2. x.num = 0
        <5> SUFFICES ASSUME x.num # 0 PROVE FALSE
          OBVIOUS
        <5>1. R + 1 > 1 /\ log[R] = [cmd |-> x.cmd, num |-> x.num - 1, count |-> x.count]
          <6>1. PICK k \in 1 .. Len(log) : k = R + 1 /\ log[k] = x
            BY <1>2
          <6>2. x.num > 0
            BY <1>2
          <6>3. k > 1 /\ log[k - 1] = [cmd |-> x.cmd, num |-> x.num - 1, count |-> x.count]
            BY <1>9, <6>1, <6>2 DEF FifoInv, ChunksInLog
          <6>4. k - 1 = R
            BY <1>1, <6>1
          <6> QED
            BY <6>1, <6>3, <6>4
        <5>2. log[R].cmd = x.cmd /\ log[R].num = x.num - 1 /\ log[R].count = x.count
          BY <5>1
        <5> QED
          BY <1>1, <1>2, <1>9, <3>2, <5>1, <5>2 DEF InProgress
      <4>3. /\ \A j \in 1 .. R : log[j].cmd < x.cmd
            /\ \A c \in 1 .. x.cmd - 1 : \E j \in 1 .. R : log[j].cmd = c
        <5>1. PICK k \in 1 .. Len(log) : k = R + 1 /\ log[k] = x
          BY <1>2
        <5>2. /\ \A j \in 1 .. k - 1 : log[j].cmd < x.cmd
              /\ \A c \in 1 .. x.cmd - 1 : \E j \in 1 .. k - 1 : log[j].cmd = c
          BY <1>9, <4>2, <5>1 DEF FifoInv, ChunksInLog
        <5>3. k - 1 = R
          BY <1>1, <5>1
        <5> QED
          BY <5>2, <5>3
      <4>4. x.cmd = d + 1
        <5>1. d < x.cmd
          <6>1. CASE d = 0
            BY <1>2, <1>9, <6>1
          <6>2. CASE d # 0
            <7>1. PICK k \in 1 .. R : log[k].cmd = d
              BY <1>1, <1>7, <6>2
            <7> QED
              BY <4>3, <7>1
          <6> QED
            BY <6>1, <6>2
        <5>2. x.cmd - 1 <= d
          <6>1. CASE x.cmd = 1
            BY <1>1, <6>1
          <6>2. CASE x.cmd # 1
            <7>1. PICK c \in 1 .. x.cmd - 1 : c = x.cmd - 1
              BY <1>2, <1>9, <6>2
            <7>2. PICK k \in 1 .. R : log[k].cmd = c
              BY <4>3
            <7> QED
              BY <4>1, <7>1, <7>2
          <6> QED
            BY <6>1, <6>2
        <5> QED
          BY <1>1, <1>2, <5>1, <5>2
      <4>5. Chunks(x) = {x}
        <5>1. x = [cmd |-> x.cmd, num |-> 0, count |-> x.count]
          BY <1>2, <4>2 DEF Payload
        <5>2. 0 .. x.num = {0}
          BY <4>2
        <5>3. Chunks(x) = {[cmd |-> x.cmd, num |-> i, count |-> x.count] : i \in {0}}
          BY <5>2 DEF Chunks
        <5> QED
          BY <5>1, <5>3
      <4>6. ChunksWith(x) = {x}
        BY <4>1 DEF ChunksWith
      <4>7. IsFiniteSet({x}) /\ Cardinality({x}) = x.num + 1
        <5>1. IsFiniteSet({x}) /\ Cardinality({x}) = 1
          BY FS_Singleton
        <5> QED
          BY <4>2, <5>1
      <4> QED
        BY <4>1, <4>4, <4>5, <4>6, <4>7
    <3> QED
      BY <3>1, <3>2
  <2>2. \A k \in 1 .. R + 1 : log[k].cmd <= d + 1
    <3>1. \A k \in 1 .. R + 1 : k \in 1 .. R \/ k = R + 1
      BY <1>1
    <3>2. \A k \in 1 .. R : log[k].cmd <= d + 1
      BY <1>1, <1>2, <1>6, SMTT(30)
    <3>3. log[R + 1].cmd <= d + 1
      BY <1>1, <1>2, <2>1
    <3> QED
      BY <3>1, <3>2, <3>3
  <2>3. \A c \in 1 .. d + 1 : \E k \in 1 .. R + 1 : log[k].cmd = c
    <3>1. \A k \in 1 .. R : k \in 1 .. R + 1
      BY <1>1
    <3>2. R + 1 \in 1 .. R + 1 /\ log[R + 1].cmd = d + 1
      BY <1>1, <1>2, <2>1
    <3>3. \A c \in 1 .. d + 1 : c \in 1 .. d \/ c = d + 1
      BY <1>1
    <3> QED
      BY <1>7, <3>1, <3>2, <3>3
  <2>4. \A k \in 1 .. d : delivered[k] = k
    BY DEF FifoInv, Reassembly
  <2>5. CASE x.num + 1 = x.count
    <3>1. delivered' = Append(delivered, d + 1) /\ incoming_splits' = {}
      BY <1>3, <1>9, <2>1, <2>5 DEF ProcessPayload
    <3>2. /\ Len(delivered') = d + 1 /\ delivered'[d + 1] = d + 1
          /\ \A k \in 1 .. d : delivered'[k] = delivered[k]
      BY <1>1, <3>1
    <3>3. \A k \in 1 .. d + 1 : delivered'[k] = k
      <4>1. \A k \in 1 .. d + 1 : k \in 1 .. d \/ k = d + 1
        BY <1>1
      <4> QED
        BY <2>4, <3>2, <4>1
    <3>4. ~InProgress'
      BY <1>2, <1>4, <2>5
    <3>5. d + 1 <= Logged
      BY <1>2, <2>1 DEF FifoInv, CommandsInOrder
    <3>6. Reassembly'
      BY <1>1, <2>2, <2>3, <3>1, <3>2, <3>3, <3>4 DEF Reassembly
    <3> QED
      BY <3>1, <3>5, <3>6
  <2>6. CASE x.num + 1 # x.count
    <3>1. delivered' = delivered /\ incoming_splits' = Chunks(x)
      BY <1>3, <1>9, <2>1, <2>6 DEF ProcessPayload
    <3>2. InProgress'
      BY <1>2, <1>4, <1>9, <2>6
    <3>3. log'[Len(received')] = x
      BY <1>1, <1>2
    <3>4. \A k \in 1 .. R + 1 : log[k].cmd <= d \/ log[k].cmd = d + 1
      <4>1. \A k \in 1 .. R + 1 : k \in 1 .. R \/ k = R + 1
        BY <1>1
      <4> QED
        BY <1>2, <1>6, <2>1, <4>1
    <3>5. \A c \in 1 .. d : \E k \in 1 .. R + 1 : log[k].cmd = c
      BY <1>1, <2>3
    <3>6. Reassembly'
      BY <1>1, <2>1, <2>4, <3>1, <3>2, <3>3, <3>4, <3>5 DEF Reassembly, Chunks
    <3> QED
      BY <3>1, <3>6
  <2> QED
    BY <2>5, <2>6
<1> QED
  BY <1>8, <1>9

LEMMA FifoInit == Init => FifoInv
<1> SUFFICES ASSUME Init PROVE FifoInv
  OBVIOUS
<1>1. /\ Len(log) = 0 /\ Len(received) = 0 /\ Len(delivered) = 0 /\ submitted = 0
      /\ Len(queued_commands) = 0 /\ Len(m_command_queue) = 0 /\ attempting = "no"
      /\ incoming_splits = {}
  BY DEF Init
<1>2. ~InProgress /\ Logged = 0
  BY <1>1 DEF InProgress, Logged
<1> QED
  BY <1>1, <1>2 DEF FifoInv, ChunksInLog, CommandsInOrder, Reassembly

LEMMA FifoStep ==
    ASSUME ChannelInv, ChannelInv', HistoryInv, FifoInv, [Next]_vars
    PROVE  /\ FifoInv'
           /\ \/ UNCHANGED <<submitted, delivered>>
              \/ submitted' = submitted + 1 /\ submitted < NumCommands
                 /\ UNCHANGED delivered
              \/ /\ delivered' = Append(delivered, Len(delivered) + 1)
                 /\ Len(delivered) + 1 <= Logged /\ UNCHANGED submitted
<1> DEFINE Seen == \/ UNCHANGED <<submitted, delivered>>
                   \/ submitted' = submitted + 1 /\ submitted < NumCommands
                      /\ UNCHANGED delivered
                   \/ /\ delivered' = Append(delivered, Len(delivered) + 1)
                      /\ Len(delivered) + 1 <= Logged /\ UNCHANGED submitted
<1>0. /\ TypeOK /\ TypeOK' /\ AttemptOK /\ InOrderDelivery /\ ChunksInLog
      /\ CommandsInOrder /\ Reassembly
      /\ Len(log) \in Nat /\ Len(received) \in Nat /\ log \in Seq(Payload)
      /\ queued_commands \in Seq(Command) /\ m_command_queue \in Seq(Command)
  <2>1. TypeOK /\ TypeOK' /\ AttemptOK
    BY DEF ChannelInv
  <2>2. InOrderDelivery /\ ChunksInLog /\ CommandsInOrder /\ Reassembly
    BY DEF HistoryInv, FifoInv
  <2> QED
    BY <2>1, <2>2, QueueTypes, LengthTypes
\* Steps that leave the commands, the history and the receiver alone.
<1>1. ASSUME UNCHANGED <<submitted, queued_commands, m_command_queue, log, receiverVars>>,
             attempting' = "put" => queued_commands = << >>
      PROVE  FifoInv' /\ Seen
  <2>1. UNCHANGED <<received, delivered, incoming_splits>>
    BY <1>1 DEF receiverVars
  <2>2. Reassembly'
    BY <1>0, <1>1, <2>1, ReassemblyKept
  <2>3. ChunksInLog'
    BY <1>0, <1>1 DEF ChunksInLog
  <2>4. CommandsInOrder'
    BY <1>0, <1>1 DEF CommandsInOrder, Logged
  <2> QED
    BY <1>1, <2>1, <2>2, <2>3, <2>4 DEF FifoInv
<1>2. attempting = "put" => queued_commands = << >>
  BY <1>0 DEF CommandsInOrder
<1>3. CASE \/ \E i \in DOMAIN outgoing_reliables_sent : resendReliable(i)
           \/ UpdateTimers \/ EndCommands \/ EndSendPackets
           \/ AllocateChunk \/ SendQueuedReliable
           \/ (\E a \in acks : ReceiveAck(a))
           \/ Network \/ UNCHANGED vars
  <2>1. /\ UNCHANGED <<submitted, queued_commands, m_command_queue, log, receiverVars>>
        /\ attempting' = attempting
    BY <1>3 DEF resendReliable, UpdateTimers, EndCommands, EndSendPackets, AllocateChunk,
       SendQueuedReliable, ReceiveAck, Network, LosePacket, LoseAck, vars, senderVars,
       wireVars
  <2> QED
    BY <1>1, <1>2, <2>1
<1>4. CASE RunCommandQueues
  <2>1. /\ UNCHANGED <<submitted, queued_commands, m_command_queue, log, receiverVars>>
        /\ attempting' # "put"
    BY <1>4 DEF RunCommandQueues
  <2> QED
    BY <1>1, <2>1
<1>5. ASSUME NEW n \in ChunkCounts, Submit(n) PROVE FifoInv' /\ Seen
  <2>1. /\ UNCHANGED <<log, received, delivered, incoming_splits>>
        /\ submitted' = submitted + 1 /\ submitted < NumCommands
    BY <1>5 DEF Submit, receiverVars
  <2>2. Reassembly' /\ ChunksInLog'
    BY <1>0, <2>1, ReassemblyKept DEF ChunksInLog
  <2>3. CommandsInOrder'
    BY <1>0, <1>5, SubmitOrder
  <2> QED
    BY <2>1, <2>2, <2>3 DEF FifoInv
<1>6. CASE PutReliableSendCommand
  <2>1. /\ UNCHANGED <<submitted, log, receiverVars>> /\ attempting = "no"
        /\ m_command_queue # << >>
    BY <1>6 DEF PutReliableSendCommand
  <2>2. CASE attempting' = "put"
    <3>1. queued_commands = << >> /\ UNCHANGED <<queued_commands, m_command_queue>>
      BY <1>6, <2>1, <2>2 DEF PutReliableSendCommand
    <3> QED
      BY <1>1, <2>1, <3>1
  <2>3. CASE attempting' # "put"
    <3>1. /\ queued_commands' = Append(queued_commands, Head(m_command_queue))
          /\ m_command_queue' = Tail(m_command_queue)
      BY <1>6, <2>3 DEF PutReliableSendCommand
    <3>2. CommandsInOrder'
      BY <1>0, <2>1, <2>3, <3>1, MoveOrder
    <3>3. UNCHANGED <<received, delivered, incoming_splits>>
      BY <2>1 DEF receiverVars
    <3>4. Reassembly' /\ ChunksInLog'
      BY <1>0, <2>1, <3>3, ReassemblyKept DEF ChunksInLog
    <3> QED
      BY <2>1, <3>2, <3>3, <3>4 DEF FifoInv
  <2> QED
    BY <2>2, <2>3
<1>7. CASE PutBackSequenceNumbers
  <2>1. UNCHANGED <<submitted, log, receiverVars>> /\ attempting' = "no"
    BY <1>7 DEF PutBackSequenceNumbers
  <2>2. CASE attempting = "run"
    BY <1>1, <1>7, <2>1, <2>2 DEF PutBackSequenceNumbers
  <2>3. CASE attempting # "run"
    <3>1. /\ queued_commands' = Append(queued_commands, Head(m_command_queue))
          /\ m_command_queue' = Tail(m_command_queue) /\ m_command_queue # << >>
      BY <1>0, <1>7, <2>3 DEF PutBackSequenceNumbers, Current, AttemptOK, TypeOK
    <3>2. CommandsInOrder'
      BY <1>0, <2>1, <3>1, MoveOrder
    <3>3. UNCHANGED <<received, delivered, incoming_splits>>
      BY <2>1 DEF receiverVars
    <3>4. Reassembly' /\ ChunksInLog'
      BY <1>0, <2>1, <3>3, ReassemblyKept DEF ChunksInLog
    <3> QED
      BY <2>1, <3>2, <3>3, <3>4 DEF FifoInv
  <2> QED
    BY <2>2, <2>3
<1>8. CASE Ping
  <2>1. /\ UNCHANGED <<submitted, queued_commands, m_command_queue, attempting>>
        /\ UNCHANGED receiverVars /\ UNCHANGED <<received, delivered, incoming_splits>>
    BY <1>8 DEF Ping, receiverVars
  <2>2. CASE log' = log
    BY <1>1, <1>2, <2>1, <2>2
  <2>3. CASE log' = Append(log, PingPayload)
    <3>1. ChunksInLog' /\ CommandsInOrder'
      BY <1>0, <2>1, <2>3, PingLogged
    <3>2. \A k \in 1 .. Len(log) : log'[k] = log[k]
      BY <1>0, <2>3
    <3>3. Reassembly'
      BY <1>0, <2>1, <3>2, ReassemblyKept
    <3> QED
      BY <2>1, <3>1, <3>3 DEF FifoInv
  <2> QED
    BY <1>8, <2>2, <2>3 DEF Ping
<1>9. CASE QueuePackets
  <2>1. /\ UNCHANGED submitted /\ UNCHANGED <<received, delivered, incoming_splits>>
    BY <1>9 DEF QueuePackets, receiverVars
  <2>2. ChunksInLog' /\ CommandsInOrder'
    BY <1>0, <1>9, CommandLogged
  <2>3. \A k \in 1 .. Len(log) : log'[k] = log[k]
    <3> DEFINE payloads == [k \in 1 .. Len(toadd) |-> toadd[k].payload]
    <3>1. payloads \in Seq(Payload)
      <4>1. \A k \in 1 .. Len(toadd) : toadd[k].payload \in Payload
        BY <1>0, PacketFields DEF Packet
      <4>2. Len(toadd) \in Nat
        BY <1>0, LengthTypes
      <4> QED
        BY <4>1, <4>2
    <3>2. log' = log \o payloads
      BY <1>9 DEF QueuePackets
    <3> HIDE DEF payloads
    <3> QED
      BY <1>0, <3>1, <3>2
  <2>4. Reassembly'
    BY <1>0, <2>1, <2>3, ReassemblyKept
  <2> QED
    BY <2>1, <2>2, <2>4 DEF FifoInv
\* The receiver's steps.
<1>10. ASSUME UNCHANGED senderVars,
              \/ UNCHANGED <<received, delivered, incoming_splits>>
              \/ \E p \in Packet : Sound(p) /\ p.idx = Len(received) /\ ProcessReliable(p)
       PROVE  FifoInv' /\ Seen
  <2>1. UNCHANGED <<submitted, queued_commands, m_command_queue, log, attempting>>
    BY <1>10 DEF senderVars
  <2>2. ChunksInLog' /\ CommandsInOrder'
    <3>1. ChunksInLog'
      <4>1. ChunksInLog /\ log' = log
        BY <1>0, <2>1 DEF FifoInv
      <4> QED
        BY ONLY <4>1 DEF ChunksInLog
    <3>2. Logged' = Logged
      BY <2>1 DEF Logged
    <3>3. CommandsInOrder'
      BY <1>0, <2>1, <3>2, ZenonT(30) DEF CommandsInOrder
    <3> QED
      BY <3>1, <3>3
  <2>3. CASE UNCHANGED <<received, delivered, incoming_splits>>
    <3>1. Reassembly'
      BY <1>0, <2>1, <2>3, ReassemblyKept
    <3> QED
      BY <2>1, <2>2, <2>3, <3>1 DEF FifoInv
  <2>4. ASSUME NEW p \in Packet, Sound(p), p.idx = Len(received), ProcessReliable(p)
        PROVE  FifoInv' /\ Seen
    <3>1. /\ Reassembly'
          /\ \/ delivered' = delivered
             \/ /\ delivered' = Append(delivered, Len(delivered) + 1)
                /\ Len(delivered) + 1 <= Logged
      BY <2>1, <2>4, ProcessNext
    <3> QED
      BY <2>1, <2>2, <3>1 DEF FifoInv
  <2> QED
    BY <1>10, <2>3, <2>4
<1>11. ASSUME NEW p \in net, Receive(p) PROVE FifoInv' /\ Seen
  <2>1. InLifetime(p) /\ UNCHANGED senderVars
    BY <1>11 DEF Receive
  <2>2. p \in Packet /\ Sound(p) /\ (ReceiveNow(p) => p.idx = Len(received))
    BY <2>1, NumbersTellThePlace DEF ReceiveNow, ToBuffer
  <2>3. CASE ReceiveNow(p)
    <3>1. ProcessReliable(p)
      BY <2>3 DEF ReceiveNow
    <3> QED
      BY <1>10, <2>1, <2>2, <2>3, <3>1
  <2>4. CASE ReceiveAhead(p) \/ ReceiveOutOfWindow(p)
    BY <1>10, <2>1, <2>4 DEF ReceiveAhead, ReceiveOutOfWindow
  <2> QED
    BY <1>11, <2>3, <2>4 DEF Receive
<1>12. CASE checkIncomingBuffers
  <2>1. UNCHANGED senderVars
    BY <1>12 DEF checkIncomingBuffers
  <2>2. CASE FirstIsDue
    <3>1. /\ ProcessReliable(Head(incoming_reliables)) /\ incoming_reliables # << >>
          /\ incoming_reliables[1].seqnum = next_incoming_seqnum
      BY <1>12, <2>2 DEF checkIncomingBuffers, FirstIsDue, getFirstSeqnum
    <3>2. 1 \in 1 .. Len(incoming_reliables) /\ Head(incoming_reliables) = incoming_reliables[1]
      BY <3>1, BufferPlaces
    <3>3. /\ incoming_reliables[1] \in Packet /\ Sound(incoming_reliables[1])
          /\ incoming_reliables[1].idx = Len(received)
      BY <3>1, <3>2, BufferPlaces
    <3> QED
      BY <1>10, <2>1, <3>1, <3>2, <3>3
  <2>3. CASE ~FirstIsDue
    BY <1>10, <1>12, <2>1, <2>3 DEF checkIncomingBuffers
  <2> QED
    BY <2>2, <2>3
<1> QED
  BY <1>3, <1>4, <1>5, <1>6, <1>7, <1>8, <1>9, <1>11, <1>12
  DEF Next, Endpoints, SendThread, ReceiveThread

LEMMA FifoInvariant ==
    ASSUME NumbersSuffice
    PROVE  Spec => [](ChannelInv /\ HistoryInv /\ FifoInv)
<1>1. Init => FifoInv
  BY FifoInit
<1>2. ChannelInv /\ ChannelInv' /\ HistoryInv /\ FifoInv /\ [Next]_vars => FifoInv'
  BY FifoStep
<1> QED
  BY <1>1, <1>2, HistoryInvariant, PTL DEF Spec

\* The channel implements the first-in first-out delivery that Connection::Send
\* and Connection::Receive promise: whole commands, in order, once each, for every
\* size of the number space, the windows and the commands.
THEOREM ChannelIsFifo ==
    ASSUME NumbersSuffice PROVE Spec => ImplementsFifo
<1> DEFINE accepted == [k \in 1 .. submitted |-> k]
<1>1. Init => Delivery!Init
  <2> SUFFICES ASSUME Init PROVE Delivery!Init
    OBVIOUS
  <2>1. submitted = 0 /\ delivered = << >> /\ 1 .. submitted = {}
    BY DEF Init
  <2>2. accepted = << >>
    BY <2>1
  <2> QED
    BY <2>1, <2>2 DEF Delivery!Init
<1>2. /\ ChannelInv /\ HistoryInv /\ FifoInv /\ ChannelInv' /\ [Next]_vars
      => [Delivery!Next]_Delivery!vars
  <2> SUFFICES ASSUME ChannelInv, HistoryInv, FifoInv, ChannelInv', [Next]_vars
               PROVE  [Delivery!Next]_Delivery!vars
    OBVIOUS
  <2>1. /\ submitted \in Nat /\ Len(delivered) \in Nat /\ NumCommands \in Nat
        /\ Logged <= submitted
    <3>1. /\ submitted \in Nat /\ Len(queued_commands) \in Nat
          /\ Len(m_command_queue) \in Nat
      BY QueueTypes DEF ChannelInv
    <3>2. Logged <= submitted
      BY <3>1 DEF Logged
    <3> QED
      BY <3>1, <3>2, ChannelAssumption DEF ChannelInv, TypeOK
  <2>2. CASE UNCHANGED <<submitted, delivered>>
    BY <2>2 DEF Delivery!vars
  <2>3. CASE submitted' = submitted + 1 /\ submitted < NumCommands /\ UNCHANGED delivered
    <3>1. [k \in 1 .. submitted + 1 |-> k] = Append(accepted, submitted + 1)
      <4>1. accepted \in Seq(Nat) /\ Len(accepted) = submitted
        BY <2>1
      <4>2. [k \in 1 .. submitted + 1 |-> k] \in Seq(Nat)
        BY <2>1
      <4> QED
        BY <2>1, <4>1, <4>2
    <3>2. submitted + 1 \in 1 .. NumCommands
      BY <2>1, <2>3
    <3> QED
      BY <2>3, <3>1, <3>2 DEF Delivery!Next, Delivery!Accept
  <2>4. CASE /\ delivered' = Append(delivered, Len(delivered) + 1)
             /\ Len(delivered) + 1 <= Logged /\ UNCHANGED submitted
    <3>1. Len(delivered) + 1 \in 1 .. submitted /\ Len(accepted) = submitted
      BY <2>1, <2>4 DEF Logged
    <3>2. accepted[Len(delivered) + 1] = Len(delivered) + 1
      BY <3>1
    <3> QED
      BY <2>1, <2>4, <3>1, <3>2 DEF Delivery!Next, Delivery!Deliver
  <2> QED
    BY <2>2, <2>3, <2>4, FifoStep
<1> QED
  BY <1>1, <1>2, FifoInvariant, PTL DEF Spec, ImplementsFifo, Delivery!Spec
=============================================================================
