-------------------------- MODULE InventoriesProofs --------------------------
(***************************************************************************)
(* What the client shows of its inventory is what the server has, or will  *)
(* be corrected; a move takes no more than was asked for and than every    *)
(* callback allowed; and what mods are told adds up to what inventories    *)
(* hold: for any lists, items, callbacks and number of actions.            *)
(*                                                                         *)
(* For the first, only who marks which list, and what is sent, matters,    *)
(* and nothing is needed about stacks.  The second needs the amounts in    *)
(* every phase of a move, and that slots hold stacks all along.  The third *)
(* needs what each step adds to the sum over an inventory's slots; the     *)
(* first section has what it takes of finite sums.                         *)
(***************************************************************************)
EXTENDS Inventories, FiniteSetTheorems, SequenceTheorems, WellFoundedInduction, TLAPS

-----------------------------------------------------------------------------
(* Finite sums, in the order MapThenSumSet takes them.  What holds of all  *)
(* finite sets holds of a least set it would not hold of.                  *)

LEMMA LeastNatural ==
    ASSUME NEW S, S \subseteq Nat, S # {}
    PROVE  Min(S) \in S /\ \A k \in S : Min(S) <= k
<1>1. PICK R : IsWellFoundedOn(R, Nat) /\ \A k, m \in Nat : k < m => <<k, m>> \in R
  <2>1. \A k, m \in Nat : k < m => <<k, m>> \in OpToRel(<, Nat)
    BY DEF OpToRel
  <2> QED BY <2>1, NatLessThanWellFounded
<1>2. PICK m \in S : \A k \in S : ~(<<k, m>> \in R)
  <2>1. IsWellFoundedOn(R, Nat)
    BY <1>1
  <2>2. \E m \in S : \A k \in S : ~(<<k, m>> \in R)
    BY <2>1, WFMin
  <2> QED BY <2>2
<1>3. ASSUME NEW k \in S PROVE m <= k
  <2>1. k \in Nat /\ m \in Nat
    OBVIOUS
  <2>2. ~(k < m)
    BY <1>1, <1>2, <2>1
  <2> QED BY <2>1, <2>2
<1> QED BY <1>3 DEF Min

\* The element taken next, the function that sums, and the sum.
Chosen(s) == CHOOSE x \in s : TRUE

IsSum(h, g, S) ==
    h = [s \in SUBSET S |-> IF s = {} THEN 0 ELSE g[Chosen(s)] + h[s \ {Chosen(s)}]]

Total(g, S) == (CHOOSE h : IsSum(h, g, S))[S]

\* Of some subsets of a finite set, one has none of the others below it.
LEMMA LeastSubset ==
    ASSUME NEW S, IsFiniteSet(S), NEW T \in SUBSET (SUBSET S), T # {}
    PROVE  \E m \in T : \A k \in T : k \subseteq m => k = m
<1>1. T \subseteq FiniteSubsetsOf(S)
  BY FS_Subset DEF FiniteSubsetsOf
<1>2. PICK m \in T : \A k \in T : ~(<<k, m>> \in StrictSubsetOrdering(S))
  BY <1>1, WFMin, FS_StrictSubsetOrderingWellFounded
<1>3. ASSUME NEW k \in T, k \subseteq m, k # m
      PROVE  FALSE
  <2>1. <<k, m>> \in StrictSubsetOrdering(S)
    BY <1>3 DEF StrictSubsetOrdering
  <2> QED BY <1>2, <2>1
<1> QED BY <1>3

\* It is an element.
LEMMA ChosenIn == ASSUME NEW s, s # {} PROVE Chosen(s) \in s
BY DEF Chosen

\* Two sums agree where both are defined.
LEMMA SumUnique ==
    ASSUME NEW g, NEW S, IsFiniteSet(S), NEW T, NEW h, NEW k, IsSum(h, g, S), IsSum(k, g, T),
           NEW s, s \subseteq S, s \subseteq T
    PROVE  h[s] = k[s]
<1> DEFINE Bad == {t \in SUBSET S : t \subseteq T /\ h[t] # k[t]}
<1>1. ASSUME Bad # {}
      PROVE  FALSE
  <2>1. PICK m \in Bad : \A t \in Bad : t \subseteq m => t = m
    <3>1. Bad \in SUBSET (SUBSET S)
      OBVIOUS
    <3> HIDE DEF Bad
    <3> QED BY <1>1, <3>1, LeastSubset
  <2>2. m # {}
    <3>1. h[{}] = 0 /\ k[{}] = 0
      BY DEF IsSum
    <3> QED BY <2>1, <3>1
  <2> DEFINE c == Chosen(m)
  <2>3. c \in m
    BY <2>2, ChosenIn
  <2>4. h[m] = g[c] + h[m \ {c}] /\ k[m] = g[c] + k[m \ {c}]
    BY <2>1, <2>2 DEF IsSum
  <2>5. m \ {c} \notin Bad
    <3>1. m \ {c} \subseteq m /\ m \ {c} # m
      BY <2>3
    <3> HIDE DEF Bad, c
    <3> QED BY <2>1, <3>1
  <2>6. h[m \ {c}] = k[m \ {c}]
    BY <2>1, <2>5
  <2> QED BY <2>1, <2>4, <2>6
<1> QED BY <1>1

\* There is a sum.
LEMMA SumExists ==
    ASSUME NEW g, NEW S, IsFiniteSet(S)
    PROVE  \E h : IsSum(h, g, S)
<1> DEFINE Bad == {s \in SUBSET S : ~\E h : IsSum(h, g, s)}
<1>1. ASSUME Bad # {}
      PROVE  FALSE
  <2>1. PICK m \in Bad : \A t \in Bad : t \subseteq m => t = m
    <3>1. Bad \in SUBSET (SUBSET S)
      OBVIOUS
    <3> HIDE DEF Bad
    <3> QED BY <1>1, <3>1, LeastSubset
  <2> DEFINE sub(u) == CHOOSE h : IsSum(h, g, u)
             val(u) == sub(u)[u]
             h == [s \in SUBSET m |-> IF s = {} THEN 0 ELSE g[Chosen(s)] + val(s \ {Chosen(s)})]
  <2>2. ASSUME NEW u \in SUBSET m, u # m
        PROVE  IsSum(sub(u), g, u) /\ IsFiniteSet(u)
    <3>1. u \in SUBSET S /\ u \notin Bad
      <4>1. m \in SUBSET S
        BY <2>1
      <4> HIDE DEF Bad
      <4> QED BY <2>1, <2>2, <4>1
    <3>2. \E k : IsSum(k, g, u)
      BY <3>1
    <3> QED BY <3>1, <3>2, FS_Subset
  <2>3. ASSUME NEW u \in SUBSET m, u # m
        PROVE  h[u] = val(u)
    <3>1. IsSum(sub(u), g, u)
      BY <2>2, <2>3
    <3>2. h[u] = IF u = {} THEN 0 ELSE g[Chosen(u)] + val(u \ {Chosen(u)})
      OBVIOUS
    <3>3. val(u) = IF u = {} THEN 0 ELSE g[Chosen(u)] + sub(u)[u \ {Chosen(u)}]
      <4>1. u \in SUBSET u
        OBVIOUS
      <4> HIDE DEF sub
      <4> QED BY <3>1, <4>1 DEF IsSum
    <3>4. ASSUME u # {} PROVE sub(u)[u \ {Chosen(u)}] = val(u \ {Chosen(u)})
      <4>1. u \ {Chosen(u)} \in SUBSET m /\ u \ {Chosen(u)} # m
        BY <2>3, <3>4, ChosenIn
      <4>2. IsSum(sub(u \ {Chosen(u)}), g, u \ {Chosen(u)})
        BY <2>2, <4>1
      <4>3. IsFiniteSet(u)
        BY <2>2, <2>3
      <4> HIDE DEF sub
      <4> QED BY <3>1, <4>2, <4>3, SumUnique
    <3> QED BY <3>2, <3>3, <3>4
  <2>4. ASSUME NEW s \in SUBSET m, s # {}
        PROVE  val(s \ {Chosen(s)}) = h[s \ {Chosen(s)}]
    <3>1. s \ {Chosen(s)} \in SUBSET m /\ s \ {Chosen(s)} # m
      BY <2>4, ChosenIn
    <3> HIDE DEF val, h
    <3> QED BY <2>3, <3>1
  <2>5. h = [s \in SUBSET m |-> IF s = {} THEN 0 ELSE g[Chosen(s)] + h[s \ {Chosen(s)}]]
    <3>1. \A s \in SUBSET m : (IF s = {} THEN 0 ELSE g[Chosen(s)] + val(s \ {Chosen(s)}))
                              = (IF s = {} THEN 0 ELSE g[Chosen(s)] + h[s \ {Chosen(s)}])
      <4> HIDE DEF val, h
      <4> QED BY <2>4
    <3> HIDE DEF val
    <3> QED BY <3>1
  <2> HIDE DEF h
  <2>6. IsSum(h, g, m)
    BY <2>5 DEF IsSum
  <2> QED BY <2>1, <2>6
<1> QED BY <1>1

\* The sum is the same for all, and is taken one element at a time.
LEMMA TotalIs ==
    ASSUME NEW g, NEW S, IsFiniteSet(S)
    PROVE  /\ \A h : IsSum(h, g, S) => h[S] = Total(g, S)
           /\ S = {} => Total(g, S) = 0
           /\ S # {} => Total(g, S) = g[Chosen(S)] + Total(g, S \ {Chosen(S)})
<1> DEFINE k == CHOOSE h : IsSum(h, g, S)
<1>1. IsSum(k, g, S) /\ Total(g, S) = k[S]
  BY SumExists DEF Total
<1> HIDE DEF k
<1>2. \A h : IsSum(h, g, S) => h[S] = k[S]
  BY <1>1, SumUnique
<1>3. k[S] = IF S = {} THEN 0 ELSE g[Chosen(S)] + k[S \ {Chosen(S)}]
  <2>1. S \in SUBSET S
    OBVIOUS
  <2> QED BY <1>1, <2>1 DEF IsSum
<1>4. ASSUME S # {} PROVE k[S \ {Chosen(S)}] = Total(g, S \ {Chosen(S)})
  <2> DEFINE R == S \ {Chosen(S)}
             l == CHOOSE h : IsSum(h, g, R)
  <2>1. IsFiniteSet(R)
    BY FS_Subset
  <2>2. IsSum(l, g, R) /\ Total(g, R) = l[R]
    BY <2>1, SumExists DEF Total
  <2> HIDE DEF l, R
  <2>3. R \subseteq S
    BY DEF R
  <2>4. l[R] = k[R]
    BY <1>1, <2>1, <2>2, <2>3, SumUnique
  <2> QED BY <2>2, <2>4 DEF R
<1> QED BY <1>1, <1>2, <1>3, <1>4

\* A sum of integers is one, a sum of naturals is one.
LEMMA TotalType ==
    ASSUME NEW g, NEW S, IsFiniteSet(S)
    PROVE  /\ (\A x \in S : g[x] \in Int) => Total(g, S) \in Int
           /\ (\A x \in S : g[x] \in Nat) => Total(g, S) \in Nat
<1>1. ASSUME NEW N \in {Int, Nat}, \A x \in S : g[x] \in N
      PROVE  Total(g, S) \in N
  <2> DEFINE Bad == {s \in SUBSET S : Total(g, s) \notin N}
  <2>1. ASSUME Bad # {}
        PROVE  FALSE
    <3>1. PICK m \in Bad : \A t \in Bad : t \subseteq m => t = m
      <4>1. Bad \in SUBSET (SUBSET S)
        OBVIOUS
      <4> HIDE DEF Bad
      <4> QED BY <2>1, <4>1, LeastSubset
    <3>2. m \in SUBSET S /\ IsFiniteSet(m)
      BY <3>1, FS_Subset
    <3>3. m # {}
      <4>1. m = {} => Total(g, m) = 0
        BY <3>2, TotalIs
      <4>2. 0 \in N
        OBVIOUS
      <4> QED BY <3>1, <4>1, <4>2
    <3>4. Chosen(m) \in m /\ Total(g, m) = g[Chosen(m)] + Total(g, m \ {Chosen(m)})
      BY <3>2, <3>3, TotalIs, ChosenIn
    <3>5. Total(g, m \ {Chosen(m)}) \in N
      <4>1. m \ {Chosen(m)} \subseteq m /\ m \ {Chosen(m)} # m
        BY <3>4
      <4>2. m \ {Chosen(m)} \notin Bad
        <5> HIDE DEF Bad
        <5> QED BY <3>1, <4>1
      <4> QED BY <3>1, <4>1, <4>2
    <3>6. g[Chosen(m)] \in N
      BY <1>1, <3>1, <3>4
    <3>7. g[Chosen(m)] + Total(g, m \ {Chosen(m)}) \in N
      BY <3>5, <3>6
    <3> QED BY <3>1, <3>4, <3>7
  <2>2. S \in SUBSET S
    OBVIOUS
  <2> HIDE DEF Bad
  <2> QED BY <2>1, <2>2 DEF Bad
<1> QED BY <1>1

\* Only the values on the set matter.
LEMMA TotalSame ==
    ASSUME NEW f, NEW g, NEW S, IsFiniteSet(S), \A x \in S : f[x] = g[x]
    PROVE  Total(f, S) = Total(g, S)
<1> DEFINE Bad == {s \in SUBSET S : Total(f, s) # Total(g, s)}
<1>1. ASSUME Bad # {}
      PROVE  FALSE
  <2>1. PICK m \in Bad : \A t \in Bad : t \subseteq m => t = m
    <3>1. Bad \in SUBSET (SUBSET S)
      OBVIOUS
    <3> HIDE DEF Bad
    <3> QED BY <1>1, <3>1, LeastSubset
  <2>2. m \in SUBSET S /\ IsFiniteSet(m) /\ Total(f, m) # Total(g, m)
    BY <2>1, FS_Subset
  <2>3. m # {}
    BY <2>2, TotalIs
  <2>4. /\ Chosen(m) \in m
        /\ Total(f, m) = f[Chosen(m)] + Total(f, m \ {Chosen(m)})
        /\ Total(g, m) = g[Chosen(m)] + Total(g, m \ {Chosen(m)})
    BY <2>2, <2>3, TotalIs, ChosenIn
  <2>5. Total(f, m \ {Chosen(m)}) = Total(g, m \ {Chosen(m)})
    <3>1. m \ {Chosen(m)} \subseteq m /\ m \ {Chosen(m)} # m
      BY <2>4
    <3>2. m \ {Chosen(m)} \notin Bad
      <4> HIDE DEF Bad
      <4> QED BY <2>1, <3>1
    <3> QED BY <2>2, <3>1, <3>2
  <2> HIDE DEF Bad
  <2> QED BY <2>2, <2>4, <2>5
<1>2. S \in SUBSET S
  OBVIOUS
<1>3. S \notin Bad
  BY <1>1
<1> QED BY <1>2, <1>3

\* Any element can be taken out of a sum.
LEMMA TotalRemove ==
    ASSUME NEW g, NEW S, IsFiniteSet(S), \A y \in S : g[y] \in Int, NEW x \in S
    PROVE  Total(g, S) = g[x] + Total(g, S \ {x})
<1> DEFINE Bad == {s \in SUBSET S : \E y \in s : Total(g, s) # g[y] + Total(g, s \ {y})}
<1>1. ASSUME Bad # {}
      PROVE  FALSE
  <2>1. PICK m \in Bad : \A t \in Bad : t \subseteq m => t = m
    <3>1. Bad \in SUBSET (SUBSET S)
      OBVIOUS
    <3> HIDE DEF Bad
    <3> QED BY <1>1, <3>1, LeastSubset
  <2>2. m \in SUBSET S /\ IsFiniteSet(m)
    BY <2>1, FS_Subset
  <2>3. PICK y \in m : Total(g, m) # g[y] + Total(g, m \ {y})
    BY <2>1
  <2>4. PICK c : c = Chosen(m)
    OBVIOUS
  <2>5. c \in m /\ Total(g, m) = g[c] + Total(g, m \ {c})
    BY <2>2, <2>3, <2>4, TotalIs, ChosenIn
  <2>6. c # y
    BY <2>3, <2>5
  <2>7. (m \ {y}) \ {c} = (m \ {c}) \ {y}
    OBVIOUS
  <2>8. ASSUME NEW a \in m, NEW b \in m \ {a}
        PROVE  Total(g, m \ {a}) = g[b] + Total(g, (m \ {a}) \ {b})
    <3>1. m \ {a} \subseteq m /\ m \ {a} # m
      OBVIOUS
    <3>2. m \ {a} \notin Bad
      <4> HIDE DEF Bad
      <4> QED BY <2>1, <3>1
    <3> QED BY <2>2, <3>1, <3>2
  <2>9. /\ Total(g, m \ {c}) = g[y] + Total(g, (m \ {c}) \ {y})
        /\ Total(g, m \ {y}) = g[c] + Total(g, (m \ {c}) \ {y})
    <3>1. y \in m \ {c} /\ c \in m \ {y}
      BY <2>5, <2>6
    <3> QED BY <2>5, <2>7, <2>8, <3>1, SMTT(30)
  <2>10. g[c] \in Int /\ g[y] \in Int /\ Total(g, (m \ {c}) \ {y}) \in Int
    <3>1. (m \ {c}) \ {y} \in SUBSET S
      BY <2>2
    <3>2. IsFiniteSet((m \ {c}) \ {y}) /\ \A z \in (m \ {c}) \ {y} : g[z] \in Int
      BY <3>1, FS_Subset
    <3> QED BY <2>2, <2>5, <3>2, TotalType
  <2> HIDE DEF Bad
  <2> QED BY <2>3, <2>5, <2>9, <2>10
<1>2. S \in SUBSET S
  OBVIOUS
<1>3. S \notin Bad
  BY <1>1
<1> QED BY <1>2, <1>3

\* What one element changes.
LEMMA TotalChange ==
    ASSUME NEW f, NEW g, NEW S, IsFiniteSet(S), NEW x \in S,
           \A y \in S : f[y] \in Int /\ g[y] \in Int,
           \A y \in S \ {x} : f[y] = g[y]
    PROVE  Total(f, S) = Total(g, S) - g[x] + f[x]
<1>1. IsFiniteSet(S \ {x})
  BY FS_RemoveElement
<1>2. Total(f, S \ {x}) = Total(g, S \ {x})
  BY <1>1, TotalSame
<1>3. Total(g, S \ {x}) \in Int
  BY <1>1, TotalType
<1>4. Total(f, S) = f[x] + Total(f, S \ {x}) /\ Total(g, S) = g[x] + Total(g, S \ {x})
  BY TotalRemove
<1>5. f[x] \in Int /\ g[x] \in Int
  OBVIOUS
<1> QED BY <1>2, <1>3, <1>4, <1>5

-----------------------------------------------------------------------------
(* The client's picture of the inventory.                                  *)

PlayerSlots == SlotsOf(PlayerLists)

\* DifferencesGetCorrected for one slot.
Sent(s) == {i \in 1 .. Len(toClient) : s \in DOMAIN toClient[i]}
Underway(s) == \E i \in 1 .. Len(toServer) : s[1] \in ListsOf(toServer[i])
Latest(s) ==
    \/ Sent(s) = {} /\ player[s] = inv[s] /\ fromServer[s] = inv[s]
    \/ \E i \in Sent(s) : toClient[i][s] = inv[s] /\ \A j \in Sent(s) : j <= i
Corrected(s) == s[1] \in dirty \/ Underway(s) \/ Latest(s)

\* What is in the queues does not matter.
Queues ==
    /\ \E T : toServer \in Seq(T)
    /\ \E T : toClient \in Seq(T)

IInv == Queues /\ \A s \in PlayerSlots : Corrected(s)

LEMMA PlayersSlot == ASSUME NEW s \in PlayerSlots PROVE s \in Slots /\ s[1] \in PlayerLists
BY DEF PlayerSlots, SlotsOf

\* A step of the server that marks the lists it changes.
Marks ==
    /\ UNCHANGED <<toServer, toClient, player, fromServer>>
    /\ dirty \subseteq dirty'
    /\ \A s \in PlayerSlots : inv'[s] # inv[s] => s[1] \in dirty'

LEMMA MarksKeep == IInv /\ Marks => IInv'
<1> SUFFICES ASSUME IInv, Marks PROVE IInv'
  OBVIOUS
<1>1. Queues'
  BY DEF IInv, Queues, Marks
<1>2. ASSUME NEW s \in PlayerSlots PROVE Corrected(s)'
  <2>1. CASE inv'[s] # inv[s]
    BY <2>1 DEF Marks, Corrected
  <2>2. CASE inv'[s] = inv[s]
    <3>1. Corrected(s)
      BY DEF IInv
    <3> QED BY <3>1, <2>2 DEF Marks, Corrected, Underway, Latest, Sent
  <2> QED BY <2>1, <2>2
<1> QED BY <1>1, <1>2 DEF IInv, PlayerSlots

\* SetInv marks what it changes, whatever else a step does.
LEMMA SetInvMarks ==
    ASSUME NEW now, SetInv(now), UNCHANGED <<toServer, clientVars>>, UNCHANGED toClient
    PROVE  Marks
<1>1. ASSUME NEW s \in PlayerSlots, inv'[s] # inv[s] PROVE s[1] \in dirty'
  <2>1. s \in Slots /\ s[1] \in PlayerLists
    BY PlayersSlot
  <2>2. s \in Changed(inv, now)
    BY <1>1, <2>1 DEF SetInv, Changed
  <2>3. s[1] \in ListsIn(Changed(inv, now))
    BY <2>1, <2>2 DEF ListsIn
  <2> QED BY <2>3 DEF SetInv
<1> QED BY <1>1 DEF Marks, SetInv, clientVars

\* A prediction changes only lists that its action names.
LEMMA PredictionFrame ==
    ASSUME NEW a \in Actions, NEW s \in PlayerSlots, s[1] \notin ListsOf(a)
    PROVE  Predicted(a)[s] = player[s]
<1> DEFINE f == [t \in Slots |-> IF t[1] \in PlayerLists THEN player[t] ELSE Empty]
<1>1. s \in Slots /\ s[1] \in PlayerLists
  BY PlayersSlot
<1>2. f[s] = player[s]
  BY <1>1
<1>3. clientApply(f, a)[s] = f[s]
  <2> HIDE DEF f
  <2> USE DEF clientApply
  <2>0. f = [t \in Slots |-> f[t]]
    BY DEF f
  <2>1. CASE a \in Move
    <3>1. a.type = "Move" /\ s # a.from /\ s # a.to
      BY <2>1 DEF Move, ListsOf, ToList
    <3>2. moveItem(f, a.from, a.to, a.count, TRUE).stacks[s] = f[s]
      BY <3>1, <2>0, <1>1 DEF moveItem
    <3> QED BY <3>1, <3>2
  <2>2. CASE a \in MoveSomewhere
    <3>1. a.type = "MoveSomewhere" /\ s # a.from /\ s[1] # a.to_list
      BY <2>2 DEF MoveSomewhere, ListsOf, ToList
    <3>2. moveItemSomewhere(f, a.from, a.to_list, a.count)[s] = f[s]
      <4> DEFINE taken == Wanted(f[a.from], a.count)
                 rest == [f EXCEPT ![a.from] = Left(@, taken.count)]
                 put == AddedToList(rest, a.to_list, taken)
      <4>1. rest[s] = f[s]
        BY <3>1, <2>0, <1>1
      <4>2. put.stacks[s] = rest[s] /\ DOMAIN put.stacks = Slots
        <5> HIDE DEF rest, taken
        <5> QED BY <3>1, <1>1 DEF AddedToList
      <4>3. moveItemSomewhere(f, a.from, a.to_list, a.count) =
               IF put.leftover = Empty THEN put.stacks
               ELSE [put.stacks EXCEPT ![a.from] = Of(taken.name, put.leftover.count + @.count)]
        BY DEF moveItemSomewhere
      <4> HIDE DEF put, rest, taken
      <4> QED BY <4>1, <4>2, <4>3, <3>1, <1>1
    <3> QED BY <3>1, <3>2
  <2>3. CASE a \in Drop
    <3>1. a.type = "Drop" /\ s # a.from
      BY <2>3 DEF Drop, ListsOf
    <3>2. DropPredicted(f, a)[s] = f[s]
      BY <3>1, <2>0, <1>1 DEF DropPredicted
    <3> QED BY <3>1, <3>2
  <2>4. CASE a \in Craft
    BY <2>4 DEF Craft
  <2> QED BY <2>1, <2>2, <2>3, <2>4 DEF Actions
<1>4. Predicted(a) = PlayersPart(clientApply(f, a))
  BY DEF Predicted
<1> HIDE DEF f
<1>5. PlayersPart(clientApply(f, a))[s] = clientApply(f, a)[s]
  BY DEF PlayersPart, PlayerSlots
<1> QED BY <1>2, <1>3, <1>4, <1>5

LEMMA InitIInv == Init => IInv
<1> SUFFICES ASSUME Init PROVE IInv
  OBVIOUS
<1>1. Queues
  <2>1. <<>> \in Seq({})
    OBVIOUS
  <2> QED BY <2>1 DEF Init, Queues
<1>2. ASSUME NEW s \in PlayerSlots PROVE Corrected(s)
  <2>1. Sent(s) = {}
    BY DEF Init, Sent
  <2>2. player[s] = inv[s] /\ fromServer[s] = inv[s]
    BY DEF Init, PlayersPart, PlayerSlots
  <2> QED BY <2>1, <2>2 DEF Corrected, Latest
<1> QED BY <1>1, <1>2 DEF IInv

\* The client asks for an action and shows what it expects.
LEMMA ActionKeeps == ASSUME IInv, NEW a \in Actions, inventoryAction(a) PROVE IInv'
<1>1. PICK T : toServer \in Seq(T)
  BY DEF IInv, Queues
<1>2. toServer' = Append(toServer, a) /\ toServer \in Seq(T \cup {a})
  <2>1. toServer' = Append(toServer, a)
    BY DEF inventoryAction
  <2> QED BY <2>1, <1>1
<1>3. Queues'
  <2>1. toServer' \in Seq(T \cup {a})
    BY <1>2
  <2>2. toClient' = toClient
    BY DEF inventoryAction
  <2> QED BY <2>1, <2>2 DEF IInv, Queues
<1>4. Len(toServer') = Len(toServer) + 1 /\ toServer'[Len(toServer) + 1] = a /\ Len(toServer) \in Nat
      /\ \A i \in 1 .. Len(toServer) : toServer'[i] = toServer[i]
  BY <1>2
<1>5. ASSUME NEW s \in PlayerSlots PROVE Corrected(s)'
  <2>1. CASE s[1] \in ListsOf(a)
    <3>1. Len(toServer) + 1 \in 1 .. Len(toServer')
      BY <1>4
    <3> QED BY <3>1, <2>1, <1>4 DEF Corrected, Underway
  <2>2. CASE s[1] \notin ListsOf(a)
    <3>1. player'[s] = player[s]
      BY <2>2, PredictionFrame DEF inventoryAction
    <3>2. Underway(s) => Underway(s)'
      BY <1>4 DEF Underway
    <3>3. Latest(s) => Latest(s)'
      BY <3>1 DEF Latest, Sent, inventoryAction, serverVars
    <3>4. dirty' = dirty
      BY DEF inventoryAction, serverVars
    <3> QED BY <3>2, <3>3, <3>4 DEF IInv, Corrected
  <2> QED BY <2>1, <2>2
<1> QED BY <1>3, <1>5 DEF IInv, PlayerSlots

\* The client takes over an update.
LEMMA ReceiveKeeps == ASSUME IInv, ReceiveInventory PROVE IInv'
<1>1. PICK T : toClient \in Seq(T)
  BY DEF IInv, Queues
<1>2. toClient # <<>> /\ toClient' = Tail(toClient) /\ toClient' \in Seq(T)
  BY <1>1 DEF ReceiveInventory
<1>3. Queues'
  BY <1>2 DEF IInv, Queues, ReceiveInventory
<1>4. Len(toClient) \in Nat \ {0} /\ Len(toClient') = Len(toClient) - 1
      /\ \A i \in 1 .. Len(toClient') : toClient'[i] = toClient[i + 1]
  BY <1>1, <1>2
<1>5. ASSUME NEW s \in PlayerSlots PROVE Corrected(s)'
  <2>1. inv' = inv /\ dirty' = dirty /\ toServer' = toServer
    BY DEF ReceiveInventory, serverVars
  <2>2. player'[s] = (IF s \in DOMAIN toClient[1] THEN toClient[1][s] ELSE player[s])
        /\ fromServer' = player'
    BY <1>1 DEF ReceiveInventory, PlayerSlots
  <2>3. \A i \in 1 .. Len(toClient') : i \in Sent(s)' <=> i + 1 \in Sent(s)
    BY <1>4 DEF Sent
  <2>4. CASE Latest(s) /\ Sent(s)' = {}
    <3>1. Sent(s) \subseteq {1}
      <4> SUFFICES ASSUME NEW i \in Sent(s), i # 1 PROVE FALSE
        OBVIOUS
      <4>1. i \in 1 .. Len(toClient)
        BY DEF Sent
      <4>2. i - 1 \in 1 .. Len(toClient') /\ (i - 1) + 1 = i
        BY <4>1, <1>4
      <4>3. i - 1 \in Sent(s)'
        BY <4>2, <2>3
      <4> QED BY <4>3, <2>4
    <3>2. 1 \in Sent(s) <=> s \in DOMAIN toClient[1]
      BY <1>4 DEF Sent
    <3>3. player'[s] = inv[s]
      <4>1. CASE Sent(s) = {}
        BY <4>1, <3>2, <2>2, <2>4 DEF Latest
      <4>2. CASE Sent(s) # {}
        <5>1. toClient[1][s] = inv[s] /\ 1 \in Sent(s)
          BY <4>2, <3>1, <2>4 DEF Latest
        <5> QED BY <5>1, <3>2, <2>2
      <4> QED BY <4>1, <4>2
    <3> QED BY <3>3, <2>1, <2>2, <2>4 DEF Corrected, Latest
  <2>5. CASE Latest(s) /\ Sent(s)' # {}
    <3>1. PICK k \in Sent(s)' : TRUE
      BY <2>5
    <3>2. k + 1 \in Sent(s) /\ k \in 1 .. Len(toClient')
      BY <3>1, <2>3 DEF Sent
    <3>3. PICK i \in Sent(s) : toClient[i][s] = inv[s] /\ \A j \in Sent(s) : j <= i
      BY <3>2, <2>5 DEF Latest
    <3>4. i - 1 \in 1 .. Len(toClient') /\ (i - 1) + 1 = i
      BY <3>2, <3>3, <1>4 DEF Sent
    <3>5. i - 1 \in Sent(s)'
      BY <3>3, <3>4, <2>3 DEF Sent
    <3>6. toClient'[i - 1][s] = inv'[s]
      BY <3>3, <3>4, <2>1, <1>4
    <3>7. \A j \in Sent(s)' : j <= i - 1
      BY <3>3, <3>4, <2>3, <1>4, SMTT(30) DEF Sent
    <3> QED BY <3>5, <3>6, <3>7 DEF Corrected, Latest
  <2>6. CASE ~Latest(s)
    BY <2>6, <2>1 DEF IInv, Corrected, Underway
  <2> QED BY <2>4, <2>5, <2>6
<1> QED BY <1>3, <1>5 DEF IInv, PlayerSlots

\* The client goes back to what it was sent.
LEMMA RevertKeeps == IInv /\ RevertPrediction => IInv'
<1> SUFFICES ASSUME IInv, RevertPrediction PROVE IInv'
  OBVIOUS
<1>1. UNCHANGED <<inv, dirty, toServer, toClient, fromServer>> /\ player' = fromServer
  BY DEF RevertPrediction, serverVars
<1>2. ASSUME NEW s \in PlayerSlots PROVE Corrected(s)'
  BY <1>1 DEF IInv, Corrected, Underway, Latest, Sent
<1>3. Queues'
  BY <1>1 DEF IInv, Queues
<1> QED BY <1>2, <1>3 DEF IInv, PlayerSlots

\* The server takes an action: what the client may have predicted is marked.
LEMMA TakeKeeps == IInv /\ handleCommand_InventoryAction => IInv'
<1> SUFFICES ASSUME IInv, handleCommand_InventoryAction PROVE IInv'
  OBVIOUS
<1>1. PICK T : toServer \in Seq(T)
  BY DEF IInv, Queues
<1>2. toServer # <<>> /\ toServer' = Tail(toServer) /\ toServer' \in Seq(T)
  BY <1>1 DEF handleCommand_InventoryAction
<1>3. UNCHANGED <<inv, toClient, player, fromServer>> /\ dirty' = dirty \cup Marked(toServer[1])
  BY <1>1 DEF handleCommand_InventoryAction, clientVars
<1>4. Queues'
  BY <1>2, <1>3 DEF IInv, Queues
<1>5. ASSUME NEW s \in PlayerSlots PROVE Corrected(s)'
  <2>1. CASE Underway(s)
    <3>1. PICK i \in 1 .. Len(toServer) : s[1] \in ListsOf(toServer[i])
      BY <2>1 DEF Underway
    <3>2. CASE i = 1
      BY <3>1, <3>2, <1>3, PlayersSlot DEF Marked, Corrected
    <3>3. CASE i # 1
      <4>1. i - 1 \in 1 .. Len(toServer') /\ toServer'[i - 1] = toServer[i]
        BY <3>1, <3>3, <1>1, <1>2
      <4> QED BY <4>1, <3>1 DEF Corrected, Underway
    <3> QED BY <3>2, <3>3
  <2>2. CASE ~Underway(s)
    BY <2>2, <1>3 DEF IInv, Corrected, Latest, Sent
  <2> QED BY <2>1, <2>2
<1> QED BY <1>4, <1>5 DEF IInv, PlayerSlots

\* The server sends the marked lists, and takes the marks away.
LEMMA SendKeeps == IInv /\ SendInventory => IInv'
<1> SUFFICES ASSUME IInv, SendInventory PROVE IInv'
  OBVIOUS
<1> DEFINE update == [s \in SlotsOf(dirty) |-> inv[s]]
<1>1. PICK T : toClient \in Seq(T)
  BY DEF IInv, Queues
<1>2. toClient' = Append(toClient, update) /\ dirty' = {}
      /\ UNCHANGED <<inv, toServer, player, fromServer>>
  BY DEF SendInventory, clientVars
<1>3. DOMAIN update = SlotsOf(dirty) /\ \A s \in SlotsOf(dirty) : update[s] = inv[s]
  OBVIOUS
<1> HIDE DEF update
<1>4. toClient' \in Seq(T \cup {update})
  <2>1. toClient \in Seq(T \cup {update})
    BY <1>1
  <2> QED BY <2>1, <1>2
<1>5. Queues'
  BY <1>2, <1>4 DEF IInv, Queues
<1>6. Len(toClient') = Len(toClient) + 1 /\ toClient'[Len(toClient) + 1] = update /\ Len(toClient) \in Nat
      /\ \A i \in 1 .. Len(toClient) : toClient'[i] = toClient[i]
  BY <1>1, <1>2
<1>7. ASSUME NEW s \in PlayerSlots PROVE Corrected(s)'
  <2>1. s \in SlotsOf(dirty) <=> s[1] \in dirty
    BY PlayersSlot DEF SlotsOf
  <2>2. CASE s[1] \in dirty
    <3>1. Len(toClient') \in Sent(s)' /\ \A j \in Sent(s)' : j <= Len(toClient')
      BY <2>1, <2>2, <1>3, <1>6 DEF Sent
    <3>2. toClient'[Len(toClient')][s] = inv'[s]
      BY <2>1, <2>2, <1>2, <1>3, <1>6
    <3> QED BY <3>1, <3>2 DEF Corrected, Latest
  <2>3. CASE s[1] \notin dirty
    <3>1. Sent(s)' = Sent(s)
      BY <2>1, <2>3, <1>3, <1>6 DEF Sent
    <3>2. \A i \in Sent(s) : toClient'[i] = toClient[i]
      BY <1>6 DEF Sent
    <3> QED BY <3>1, <3>2, <2>3, <1>2 DEF IInv, Corrected, Underway, Latest
  <2> QED BY <2>2, <2>3
<1> QED BY <1>5, <1>7 DEF IInv, PlayerSlots

\* The steps of the server between taking an action and sending.
ServerStep ==
    \/ ModsChange \/ MoveToNextSlot
    \/ BeginMove \/ allowMove \/ allowMoveBack \/ allowPut \/ allowTake
    \/ allowBack("allowPutBack", "allowTakeBack") \/ allowBack("allowTakeBack", "move")
    \/ PerformMove \/ ReportMove
    \/ BeginDrop \/ allowDrop \/ onDrop
    \/ CraftOnce \/ CraftEnds \/ GiveReplacements

LEMMA DropMarks == allowDrop \/ onDrop => Marks
<1> SUFFICES ASSUME allowDrop \/ onDrop PROVE Marks
  OBVIOUS
<1>1. UNCHANGED <<toServer, toClient, player, fromServer>>
  BY DEF allowDrop, onDrop, Unlocked, clientVars
<1>2. dirty \subseteq dirty' /\ ListsIn(Changed(inv, inv')) \subseteq dirty'
  BY DEF allowDrop, onDrop
<1>3. ASSUME NEW s \in PlayerSlots, inv'[s] # inv[s] PROVE s[1] \in dirty'
  <2>1. s \in Changed(inv, inv') /\ s[1] \in PlayerLists
    BY <1>3, PlayersSlot DEF Changed
  <2> QED BY <2>1, <1>2 DEF ListsIn
<1> QED BY <1>1, <1>2, <1>3 DEF Marks

LEMMA ServerMarks == ServerStep => Marks
<1> SUFFICES ASSUME ServerStep PROVE Marks
  OBVIOUS
<1> DEFINE Still == UNCHANGED <<toServer, clientVars>> /\ UNCHANGED toClient
<1>1. CASE MoveToNextSlot \/ BeginMove \/ BeginDrop \/ CraftEnds
  <2>1. UNCHANGED serverVars /\ Still
    BY <1>1 DEF MoveToNextSlot, BeginMove, BeginDrop, CraftEnds, Unlocked
  <2> QED BY <2>1 DEF Marks, serverVars, clientVars
<1>2. CASE ModsChange \/ allowMove \/ allowMoveBack \/ allowPut \/ allowTake
           \/ allowBack("allowPutBack", "allowTakeBack") \/ allowBack("allowTakeBack", "move")
  <2>1. Still /\ \E now : SetInv(now)
    BY <1>2 DEF ModsChange, allowMove, allowMoveBack, allowPut, allowTake, allowBack, Asking, Unlocked
  <2> QED BY <2>1, SetInvMarks
<1>3. CASE PerformMove
  <2>1. Still
    BY <1>3 DEF PerformMove, Unlocked
  <2>2. CASE Allowed = 0
    BY <1>3, <2>1, <2>2 DEF PerformMove, Marks, clientVars
  <2>3. CASE Allowed # 0
    <3>1. \E now : SetInv(now)
      BY <1>3, <2>3 DEF PerformMove
    <3> QED BY <3>1, <2>1, SetInvMarks
  <2> QED BY <2>2, <2>3
<1>4. CASE ReportMove
  <2>1. Still /\ \E now : SetInv(now)
    BY <1>4 DEF ReportMove, Unlocked
  <2> QED BY <2>1, SetInvMarks
<1>5. CASE allowDrop \/ onDrop
  BY <1>5, DropMarks
<1>6. CASE CraftOnce \/ GiveReplacements
  <2>1. Still /\ \E now : SetInv(now)
    BY <1>6 DEF CraftOnce, GiveReplacements, Unlocked
  <2> QED BY <2>1, SetInvMarks
<1> QED BY <1>1, <1>2, <1>3, <1>4, <1>5, <1>6 DEF ServerStep

LEMMA StepKeepsIInv == IInv /\ [Next]_vars => IInv'
<1> SUFFICES ASSUME IInv, [Next]_vars PROVE IInv'
  OBVIOUS
<1>1. CASE ServerStep
  BY <1>1, ServerMarks, MarksKeep
<1>2. CASE \E a \in Actions : inventoryAction(a)
  BY <1>2, ActionKeeps
<1>3. CASE ReceiveInventory
  BY <1>3, ReceiveKeeps
<1>4. CASE RevertPrediction
  BY <1>4, RevertKeeps
<1>5. CASE handleCommand_InventoryAction
  BY <1>5, TakeKeeps
<1>6. CASE SendInventory
  BY <1>6, SendKeeps
<1>7. CASE UNCHANGED vars
  <2>1. Marks
    BY <1>7 DEF vars, serverVars, clientVars, Marks
  <2> QED BY <2>1, MarksKeep
<1> QED BY <1>1, <1>2, <1>3, <1>4, <1>5, <1>6, <1>7 DEF Next, ServerStep

\* Unless a list is marked, or an action that names it is on its way, the
\* latest update that carries it has the server's contents, and with none on
\* its way the client shows these.
THEOREM DifferencesAreCorrected == Spec => []DifferencesGetCorrected
<1>1. IInv => DifferencesGetCorrected
  BY DEF IInv, Corrected, Underway, Latest, Sent, DifferencesGetCorrected, PlayerSlots
<1> QED BY InitIInv, StepKeepsIInv, <1>1, PTL DEF Spec

-----------------------------------------------------------------------------
(* Slots hold stacks.                                                      *)

Stock == [Slots -> Stack]

LEMMA SlotsFinite == IsFiniteSet(Slots)
<1> DEFINE row(l) == {l} \X (1 .. Size[l])
           rows == {row(l) : l \in Lists}
<1>1. IsFiniteSet(rows)
  <2> DEFINE f == [l \in Lists |-> row(l)]
  <2>1. f \in Surjection(Lists, rows)
    BY DEF Surjection
  <2> HIDE DEF f, rows
  <2> QED BY <2>1, InventoriesAssumption, FS_Surjection
<1>2. ASSUME NEW l \in Lists PROVE IsFiniteSet(row(l))
  <2>1. IsFiniteSet({l})
    BY FS_Singleton
  <2>2. IsFiniteSet(1 .. Size[l])
    BY InventoriesAssumption, FS_Interval
  <2> QED BY <2>1, <2>2, FS_Product
<1>3. \A r \in rows : IsFiniteSet(r)
  BY <1>2
<1>4. Slots = UNION rows
  BY DEF Slots
<1> HIDE DEF rows
<1> QED BY <1>1, <1>3, <1>4, FS_UNION

\* The sum over the stack's room in some slots.
LEMMA RoomIs ==
    ASSUME NEW stacks, NEW stack, NEW S, IsFiniteSet(S)
    PROVE  Room(stacks, stack, S) = Total([t \in S |-> Fitting(stacks[t], stack)], S)
<1> DEFINE g == [t \in S |-> Fitting(stacks[t], stack)]
           Rec(h) == h = [s \in SUBSET S |-> IF s = {} THEN 0
                                             ELSE Fitting(stacks[Chosen(s)], stack) + h[s \ {Chosen(s)}]]
           k == CHOOSE h : Rec(h)
<1>1. Room(stacks, stack, S) = k[S]
  BY DEF Room, MapThenSumSet, MapThenFoldSet, Chosen
<1>2. ASSUME NEW h PROVE Rec(h) <=> IsSum(h, g, S)
  <2>1. \A s \in SUBSET S : s # {} => g[Chosen(s)] = Fitting(stacks[Chosen(s)], stack)
    BY ChosenIn
  <2>2. [s \in SUBSET S |-> IF s = {} THEN 0 ELSE Fitting(stacks[Chosen(s)], stack) + h[s \ {Chosen(s)}]]
        = [s \in SUBSET S |-> IF s = {} THEN 0 ELSE g[Chosen(s)] + h[s \ {Chosen(s)}]]
    <3> HIDE DEF g
    <3> QED BY <2>1
  <2> HIDE DEF g
  <2> QED BY <2>2 DEF IsSum
<1>3. \E h : Rec(h)
  <2> HIDE DEF Rec, g
  <2> QED BY <1>2, SumExists
<1>4. IsSum(k, g, S)
  <2>1. Rec(k)
    <3> HIDE DEF Rec
    <3> QED BY <1>3
  <2> HIDE DEF Rec, g, k
  <2> QED BY <1>2, <2>1
<1> HIDE DEF g, k
<1>5. k[S] = Total(g, S)
  BY <1>4, TotalIs
<1> QED BY <1>1, <1>5 DEF g

LEMMA StackIs ==
    ASSUME NEW st \in Stack
    PROVE  /\ st.count \in Nat /\ st.name \in Items \cup {NoItem}
           /\ st.count = 0 <=> st = Empty
           /\ st.name = NoItem <=> st = Empty
           /\ st = Empty \/ st.name \in Items
           /\ st = [name |-> st.name, count |-> st.count]
BY InventoriesAssumption DEF Stack, Empty

LEMMA OfIs ==
    ASSUME NEW name \in Items, NEW n \in Nat
    PROVE  /\ Of(name, n) \in Stack /\ Of(name, n).count = n
           /\ n # 0 => Of(name, n).name = name
           /\ n = 0 => Of(name, n) = Empty
BY DEF Of, Stack, Empty

\* The name of an empty stack only goes with a count of 0.
LEMMA OfPart ==
    ASSUME NEW st \in Stack, NEW n \in Nat, n <= st.count
    PROVE  /\ Of(st.name, n) \in Stack /\ Of(st.name, n).count = n
           /\ n # 0 => Of(st.name, n).name = st.name
<1>1. CASE st = Empty
  <2>1. n = 0
    BY <1>1, StackIs
  <2> QED BY <2>1 DEF Of, Stack, Empty
<1>2. CASE st # Empty
  BY <1>2, StackIs, OfIs
<1> QED BY <1>1, <1>2

LEMMA TakenIs ==
    ASSUME NEW st \in Stack, NEW n \in Nat
    PROVE  /\ Taken(st, n) \in Stack /\ Left(st, n) \in Stack
           /\ Taken(st, n).count = Limit(st.count, n) /\ Limit(st.count, n) \in Nat
           /\ Left(st, n).count = st.count - Limit(st.count, n)
           /\ Taken(st, n) # Empty => Taken(st, n).name = st.name
           /\ Left(st, n) # Empty => Left(st, n).name = st.name
<1>1. st.count \in Nat /\ Limit(st.count, n) \in Nat /\ Limit(st.count, n) <= st.count
  BY StackIs DEF Limit
<1>2. st.count - Limit(st.count, n) \in Nat /\ st.count - Limit(st.count, n) <= st.count
  BY <1>1
<1>3. \A s \in Stack : s # Empty => s.count # 0
  BY StackIs
<1> QED BY <1>1, <1>2, <1>3, OfPart DEF Taken, Left

LEMMA WantedIs ==
    ASSUME NEW st \in Stack, NEW n \in Nat
    PROVE  /\ Wanted(st, n) \in Stack /\ Wanted(st, n).count <= st.count
           /\ n # 0 => Wanted(st, n).count <= n
           /\ Wanted(st, n) # Empty => Wanted(st, n).name = st.name
           /\ Wanted(st, n) = Empty <=> st = Empty
<1>1. st.count \in Nat
  BY StackIs
<1>2. CASE n = 0
  BY <1>1, <1>2 DEF Wanted
<1>3. CASE n # 0
  <2>1. Limit(st.count, n) <= st.count /\ Limit(st.count, n) <= n
        /\ (Limit(st.count, n) = 0 <=> st.count = 0)
    BY <1>1, <1>3 DEF Limit
  <2>2. Wanted(st, n) = Taken(st, n)
    BY <1>3 DEF Wanted
  <2>3. PICK t \in Stack : t = Wanted(st, n) /\ t.count = Limit(st.count, n)
                          /\ (t # Empty => t.name = st.name)
    BY <2>2, TakenIs
  <2>4. t = Empty <=> t.count = 0
    BY StackIs
  <2>5. st = Empty <=> st.count = 0
    BY StackIs
  <2> QED BY <2>1, <2>3, <2>4, <2>5, <1>3
<1> QED BY <1>2, <1>3

LEMMA FittingIs ==
    ASSUME NEW slot \in Stack, NEW stack \in Stack
    PROVE  /\ Fitting(slot, stack) \in Nat /\ Fitting(slot, stack) <= stack.count
           /\ Fitting(slot, stack) # 0 => stack # Empty /\ (slot # Empty => slot.name = stack.name)
<1>1. slot.count \in Nat /\ stack.count \in Nat
  BY StackIs
<1>2. slot = Empty \/ freeSpace(slot) \in Nat
  <2>1. slot # Empty => StackMax[slot.name] \in Nat
    BY StackIs, InventoriesAssumption
  <2> QED BY <2>1, <1>1 DEF freeSpace
<1> QED BY <1>1, <1>2 DEF Fitting, Limit

\* Whether a slot has room does not depend on how many are to go in.
LEMMA NoRoomForPart ==
    ASSUME NEW slot \in Stack, NEW stack \in Stack, NEW part \in Stack,
           stack # Empty, Fitting(slot, stack) = 0, part # Empty => part.name = stack.name
    PROVE  Fitting(slot, part) = 0
<1>1. slot.count \in Nat /\ stack.count \in Nat \ {0} /\ part.count \in Nat
  BY StackIs
<1>2. slot # Empty
  BY <1>1 DEF Fitting
<1>3. freeSpace(slot) \in Nat
  <2>1. StackMax[slot.name] \in Nat
    BY <1>2, StackIs, InventoriesAssumption
  <2> QED BY <2>1, <1>1 DEF freeSpace
<1> QED BY <1>1, <1>2, <1>3 DEF Fitting, Limit

LEMMA AddedIs ==
    ASSUME NEW slot \in Stack, NEW stack \in Stack
    PROVE  /\ Added(slot, stack) \in Stack
           /\ Added(slot, stack).count = slot.count + Fitting(slot, stack)
           /\ Added(slot, stack) # Empty =>
                Added(slot, stack).name = IF slot = Empty THEN stack.name ELSE slot.name
<1>1. slot.count \in Nat /\ stack.count \in Nat /\ Fitting(slot, stack) \in Nat
  BY StackIs, FittingIs
<1>2. CASE slot = Empty
  BY <1>1, <1>2 DEF Added, Fitting, Empty
<1>3. CASE slot # Empty
  <2>1. slot.name \in Items /\ slot.count # 0
    BY <1>3, StackIs
  <2>2. slot.count + Fitting(slot, stack) \in Nat \ {0}
    BY <2>1, <1>1
  <2> QED BY <2>1, <2>2, <1>3, OfIs DEF Added
<1> QED BY <1>2, <1>3

\* The outcome r of a moveItem between two slots.
Moved(stacks, from, to, count, swap, r) ==
    /\ r.stacks \in Stock /\ r.moved \in Stack /\ r.did_swap \in BOOLEAN
    /\ r.did_swap <=> (swap /\ Fitting(stacks[to], Wanted(stacks[from], count)) = 0)
    /\ r.did_swap => /\ r.moved = stacks[from]
                     /\ r.stacks = [stacks EXCEPT ![from] = stacks[to], ![to] = stacks[from]]
    /\ ~r.did_swap =>
         /\ r.moved.count <= Wanted(stacks[from], count).count
         /\ r.moved.count = Fitting(stacks[to], Wanted(stacks[from], count))
         /\ r.moved # Empty => r.moved.name = stacks[from].name
                               /\ (stacks[to] # Empty => stacks[to].name = stacks[from].name)
         /\ r.stacks = [stacks EXCEPT ![from] = Left(@, r.moved.count), ![to] = Added(@, r.moved)]

LEMMA MoveItemIs ==
    ASSUME NEW stacks \in Stock, NEW from \in Slots, NEW to \in Slots, NEW count \in Nat,
           NEW swap \in BOOLEAN, from # to, stacks[from] # Empty
    PROVE  Moved(stacks, from, to, count, swap, moveItem(stacks, from, to, count, swap))
<1> PICK r : r = moveItem(stacks, from, to, count, swap)
  OBVIOUS
<1> SUFFICES Moved(stacks, from, to, count, swap, r)
  OBVIOUS
<1> USE DEF Moved
<1> DEFINE taken == Wanted(stacks[from], count)
           fits == Fitting(stacks[to], taken)
<1>1. stacks[from] \in Stack /\ stacks[to] \in Stack
  BY DEF Stock
<1>2. taken \in Stack /\ taken # Empty /\ taken.count <= stacks[from].count /\ taken.name = stacks[from].name
  BY <1>1, WantedIs
<1> HIDE DEF taken
<1>3. fits \in Nat /\ fits <= taken.count
      /\ (fits # 0 => (stacks[to] # Empty => stacks[to].name = taken.name))
  BY <1>1, <1>2, FittingIs
<1> HIDE DEF fits
<1>4. PICK moved \in Stack : moved = Of(taken.name, fits) /\ moved.count = fits
                             /\ (fits # 0 => moved.name = taken.name)
  BY <1>2, <1>3, OfPart
<1>5. CASE fits = 0 /\ swap
  <2>1. r = [stacks |-> [stacks EXCEPT ![from] = stacks[to], ![to] = stacks[from]],
             moved |-> stacks[from], did_swap |-> TRUE]
    BY <1>2, <1>5 DEF moveItem, taken, fits
  <2>2. [stacks EXCEPT ![from] = stacks[to], ![to] = stacks[from]] \in Stock
    BY <1>1 DEF Stock
  <2> QED BY <2>1, <2>2, <1>1, <1>5 DEF taken, fits
<1>6. CASE ~(fits = 0 /\ swap)
  <2>1. r = [stacks |-> [stacks EXCEPT ![from] = Left(@, fits), ![to] = Added(@, moved)],
             moved |-> moved, did_swap |-> FALSE]
    BY <1>2, <1>4, <1>6 DEF moveItem, taken, fits
  <2>2. [stacks EXCEPT ![from] = Left(@, fits), ![to] = Added(@, moved)] \in Stock
    <3>1. Left(stacks[from], fits) \in Stack /\ Added(stacks[to], moved) \in Stack
      BY <1>1, <1>3, <1>4, TakenIs, AddedIs
    <3> QED BY <3>1, <1>1 DEF Stock
  <2>3. moved = Empty <=> fits = 0
    BY <1>4, StackIs
  <2>4. /\ r.did_swap = FALSE /\ r.moved = moved
        /\ r.stacks = [stacks EXCEPT ![from] = Left(@, moved.count), ![to] = Added(@, moved)]
    BY <2>1, <1>4
  <2>5. moved.count <= taken.count /\ moved.count = fits
        /\ (moved # Empty => moved.name = stacks[from].name
                             /\ (stacks[to] # Empty => stacks[to].name = stacks[from].name))
    BY <2>3, <1>2, <1>3, <1>4
  <2> QED BY <2>2, <2>4, <2>5, <1>4, <1>6 DEF taken, fits
<1> QED BY <1>5, <1>6

\* What is moved from a slot to itself, or from an empty slot.
LEMMA MoveItemNot ==
    ASSUME NEW stacks \in Stock, NEW from \in Slots, NEW to \in Slots, NEW count \in Nat,
           NEW swap \in BOOLEAN, from = to \/ stacks[from] = Empty
    PROVE  moveItem(stacks, from, to, count, swap) = [stacks |-> stacks, moved |-> Empty, did_swap |-> FALSE]
<1>1. stacks[from] = Empty => Wanted(stacks[from], count) = Empty
  <2>1. stacks[from] \in Stack
    BY DEF Stock
  <2> QED BY <2>1, WantedIs
<1> QED BY <1>1 DEF moveItem

LEMMA WithInfiniteIs ==
    ASSUME inv \in Stock, act.from \in Slots, mv.to \in Slots,
           NEW r, r.stacks \in Stock, r.moved \in Stack
    PROVE  /\ WithInfinite(r) \in Stock
           /\ Infinite \notin {mv.src, mv.dst} => WithInfinite(r) = r.stacks
           /\ mv.dst = Infinite /\ r.did_swap /\ r.moved = inv[act.from] /\ act.from # mv.to =>
                WithInfinite(r)[act.from] = Empty
<1> DEFINE from_was == inv[act.from]
           to_was == inv[mv.to]
           free == {s \in SlotsOf({mv.to[1]}) : r.stacks[s] = Empty}
           first == CHOOSE s \in free : \A t \in free : s[2] <= t[2]
           placed == IF mv.src = Infinite /\ ~caused_by_move_somewhere
                        /\ from_was.name # to_was.name /\ free # {}
                     THEN [r.stacks EXCEPT ![first] = to_was] ELSE r.stacks
           source == IF mv.src = Infinite /\ (r.moved # Empty \/ r.did_swap)
                     THEN [placed EXCEPT ![act.from] = from_was] ELSE placed
<1>1. from_was \in Stack /\ to_was \in Stack /\ r.moved.count \in Nat
  BY StackIs DEF Stock
<1>2. Left(from_was, r.moved.count) \in Stack
  BY <1>1, TakenIs
<1> DEFINE result == IF mv.dst # Infinite THEN source
                     ELSE IF r.did_swap
                     THEN [source EXCEPT ![mv.to] = to_was, ![act.from] = Left(from_was, r.moved.count)]
                     ELSE [source EXCEPT ![mv.to] = to_was]
<1>3. WithInfinite(r) = result
  BY DEF WithInfinite
<1> HIDE DEF free, first, from_was, to_was
<1>4. placed \in Stock
  BY <1>1 DEF Stock
<1>5. placed = r.stacks \/ mv.src = Infinite
  OBVIOUS
<1> HIDE DEF placed
<1>6. source \in Stock
  BY <1>1, <1>4 DEF Stock
<1>7. source = r.stacks \/ mv.src = Infinite
  BY <1>5
<1> HIDE DEF source
<1>8. result \in Stock
  BY <1>1, <1>2, <1>6 DEF Stock
<1>9. mv.dst = Infinite /\ r.did_swap /\ act.from # mv.to => result[act.from] = Left(from_was, r.moved.count)
  BY <1>6 DEF Stock
<1>10. Left(from_was, from_was.count) = Empty
  <2>1. from_was.count \in Nat
    BY <1>1, StackIs
  <2>2. from_was.count - Limit(from_was.count, from_was.count) = 0
    BY <2>1 DEF Limit
  <2> QED BY <2>2 DEF Left, Of
<1> QED BY <1>3, <1>7, <1>8, <1>9, <1>10 DEF from_was

\* What addItem on a list puts where: slots keep holding stacks.
LEMMA AddedToListStock ==
    ASSUME NEW stacks \in Stock, NEW list \in Lists, NEW stack \in Stack
    PROVE  /\ AddedToList(stacks, list, stack).stacks \in Stock
           /\ AddedToList(stacks, list, stack).leftover \in Stack
<1> DEFINE used == {s \in SlotsOf({list}) : stacks[s] # Empty}
           before(s) == {t \in SlotsOf({list}) :
                           \/ t \in used /\ s \notin used
                           \/ (t \in used <=> s \in used) /\ t[2] < s[2]}
           left(s) == IF Room(stacks, stack, before(s)) > stack.count THEN 0
                      ELSE stack.count - Room(stacks, stack, before(s))
           given(s) == Limit(Fitting(stacks[s], stack), left(s))
<1>1. ASSUME NEW S \in SUBSET Slots PROVE Room(stacks, stack, S) \in Nat
  <2>1. IsFiniteSet(S)
    BY SlotsFinite, FS_Subset
  <2>2. PICK g : g = [u \in S |-> Fitting(stacks[u], stack)]
    OBVIOUS
  <2>3. \A t \in S : g[t] \in Nat
    BY <2>2, FittingIs DEF Stock
  <2>4. Room(stacks, stack, S) = Total(g, S)
    BY <2>1, <2>2, RoomIs
  <2> QED BY <2>1, <2>3, <2>4, TotalType
<1>2. stack.count \in Nat
  BY StackIs
<1>3. ASSUME NEW s \in Slots
      PROVE  Added(stacks[s], Of(stack.name, given(s))) \in Stack
  <2>1. before(s) \in SUBSET Slots
    BY DEF SlotsOf
  <2> HIDE DEF before
  <2>2. left(s) \in Nat
    BY <2>1, <1>1, <1>2
  <2>3. stacks[s] \in Stack /\ Fitting(stacks[s], stack) \in Nat /\ Fitting(stacks[s], stack) <= stack.count
    BY FittingIs DEF Stock
  <2>4. given(s) \in Nat /\ given(s) <= stack.count
    <3> HIDE DEF left
    <3> QED BY <2>2, <2>3, <1>2 DEF Limit
  <2> HIDE DEF given
  <2> QED BY <2>3, <2>4, OfPart, AddedIs
<1> DEFINE new == [s \in Slots |-> IF s[1] = list THEN Added(stacks[s], Of(stack.name, given(s))) ELSE stacks[s]]
           rest == Left(stack, Room(stacks, stack, SlotsOf({list})))
<1>4. AddedToList(stacks, list, stack) = [stacks |-> new, leftover |-> rest]
  BY DEF AddedToList
<1>5. rest \in Stack
  <2>1. SlotsOf({list}) \in SUBSET Slots
    BY DEF SlotsOf
  <2> QED BY <2>1, <1>1, TakenIs
<1>6. new \in Stock
  <2> HIDE DEF given
  <2> QED BY <1>3 DEF Stock
<1> QED BY <1>4, <1>5, <1>6

-----------------------------------------------------------------------------
(* How much a move takes.                                                  *)

MvType ==
    [count : Nat, to : Slots, filling : BOOLEAN, next : Nat \ {0}, move_count : Nat,
     src : Nat \cup {Infinite}, dst : Nat \cup {Infinite}, swap : BOOLEAN, back : SUBSET Answers, did_swap : BOOLEAN,
     src_item : Stack, swap_item : Stack, changes : Nat, total : Nat]

FirstAsked == {"allowMove", "allowPut", "allowTake"}
SwapAsked == {"allowMoveBack", "allowPutBack", "allowTakeBack"}
Asked == FirstAsked \cup SwapAsked \cup {"move"}
Across == {"allowPut", "allowTake", "allowPutBack", "allowTakeBack"}
Dropping == {"drop", "allowDrop", "onDrop"}

Requests == {a \in Actions : SameList(a) => "same list" \in Races}
Moves == {a \in Requests : a.type \in {"Move", "MoveSomewhere"}}

\* What each phase works on.
Stocked ==
    /\ inv \in Stock /\ mv \in MvType /\ changes \in Nat
    /\ toServer \in Seq(Requests)
    /\ pc \in Asked \cup {"apply", "report"} => act \in Moves
    /\ pc = "somewhere" => act \in Moves /\ act.type = "MoveSomewhere"
    /\ pc \in Dropping => act \in Drop

Phases ==
    /\ pc \in Asked \cup {"apply", "report"} /\ act.type = "MoveSomewhere" => mv.to[1] = act.to_list
    /\ pc \in Asked => act.from # mv.to /\ mv.changes <= changes
    /\ pc \in {"allowMove", "allowMoveBack"} => WithinOne
    /\ pc \in Across => ~WithinOne
    /\ pc \in SwapAsked => mv.swap

\* All parts of a "move somewhere" together, what is still asked for
\* included, are no more than its count.  Only with nothing left in the slot
\* may the count be anything; it stays so, as no callback runs any more.
Amounts ==
    ~SameList(act) =>
        /\ pc = "apply" /\ act.count > 0 => mv.count > 0
        /\ pc \in {"somewhere", "apply"} /\ act.count > 0 =>
              mv.total + mv.count <= act.count \/ inv[act.from] = Empty
        /\ pc \in Asked /\ act.count > 0 => mv.count > 0 /\ mv.total + mv.count <= act.count
        /\ pc \in FirstAsked /\ ~mv.swap /\ mv.count > 0 => mv.move_count <= mv.count
        /\ pc = "move" /\ ~mv.swap /\ mv.count > 0 => mv.move_count <= mv.count \/ mv.src = 0
        /\ pc = "report" /\ act.type = "MoveSomewhere" =>
              mv.move_count <= mv.count /\ mv.total + (mv.count - mv.move_count) <= act.count

\* A swap is of whole stacks that have no room for each other, as long as no
\* callback has changed anything.
Unchanged == mv.changes = changes
SwapStands ==
    pc \in Asked /\ mv.swap =>
        /\ ~caused_by_move_somewhere
        /\ Unchanged => /\ inv[act.from] # Empty /\ mv.move_count = inv[act.from].count
                        /\ Fitting(inv[mv.to], inv[act.from]) = 0

\* It gets as far as every callback asked has allowed it.
SwapAllowed ==
    pc \in SwapAsked \cup {"move"} /\ mv.swap =>
        /\ Unchanged => mv.swap_item = inv[mv.to]
        /\ Allows(mv.src, mv.move_count)
        /\ ~WithinOne => Allows(mv.dst, mv.move_count)
        /\ pc = "move" => mv.back # {} /\ \A n \in mv.back : Allows(n, mv.swap_item.count)

\* WithinLimits, except for a "move somewhere" within one list.
Within == ~SameList(act) => WithinLimits

LimitsInv == Stocked /\ Phases /\ Amounts /\ SwapStands /\ SwapAllowed /\ Within

LEMMA MovesAre ==
    ASSUME NEW a \in Moves
    PROVE  /\ a.from \in Slots /\ a.count \in Nat
           /\ a.type = "Move" => a \in Move /\ a.to \in Slots
           /\ a.type = "MoveSomewhere" => a.to_list \in Lists /\ a.count > 0
           /\ a.type = "MoveSomewhere" /\ ~SameList(a) => a.from[1] # a.to_list
           /\ a.type = "Move" \/ a.type = "MoveSomewhere"
<1>1. a \in Move \cup MoveSomewhere
  BY DEF Moves, Requests, Actions, Drop, Craft
<1>2. Counts \subseteq Nat
  BY InventoriesAssumption
<1>4. CASE a \in Move
  BY <1>2, <1>4 DEF Move
<1>5. CASE a \in MoveSomewhere
  <2>1. a.type = "MoveSomewhere" /\ a.from \in Slots /\ a.to_list \in Lists /\ a.count \in Counts \ {0}
    BY <1>5 DEF MoveSomewhere
  <2>2. ~SameList(a) => a.from[1] # a.to_list
    BY <2>1 DEF SameList, ToList
  <2>3. a.count \in Nat \ {0}
    BY <2>1, <1>2
  <2> QED BY <2>1, <2>2, <2>3
<1> QED BY <1>1, <1>4, <1>5

LEMMA NoMoveIs == NoMove \in MvType
<1>1. <<"main", 1>> \in Slots
  BY InventoriesAssumption DEF Slots, PlayerLists
<1>2. Empty \in Stack
  BY DEF Stack
<1> QED BY <1>1, <1>2 DEF NoMove, MvType

\* Mods leave stacks in the slots.
LEMMA CallbackIs ==
    ASSUME Stocked, NEW now, Callback(now)
    PROVE  /\ now \in Stock /\ changes' \in Nat /\ changes <= changes'
           /\ changes' = changes => now = inv
<1>1. now = inv \/ \E s \in Slots, st \in ModStacks : now = [inv EXCEPT ![s] = st]
  BY DEF Callback, ModsLeave
<1>2. now \in Stock
  BY <1>1, StacksAssumption DEF Stocked, Stock
<1>3. changes \in Nat /\ (now = inv => changes' = changes) /\ (now # inv => changes' = changes + 1)
  BY DEF Callback, Stocked
<1> QED BY <1>2, <1>3

\* Outside the phases of a move only the types matter.
LEMMA ElsewhereIs ==
    ASSUME Stocked, pc \notin Asked \cup {"apply", "somewhere", "report"}
    PROVE  LimitsInv
BY DEF LimitsInv, Phases, Amounts, SwapStands, SwapAllowed, Within, WithinLimits, FirstAsked, SwapAsked,
       Asked, Across

LEMMA InitLimits == Init => LimitsInv
<1> SUFFICES ASSUME Init PROVE LimitsInv
  OBVIOUS
<1>1. inv \in Stock
  BY StacksAssumption DEF Init, Stock
<1>2. <<>> \in Seq(Requests)
  OBVIOUS
<1>3. pc = "idle" /\ mv = NoMove /\ changes = 0 /\ toServer = <<>>
  BY DEF Init
<1>4. Stocked
  BY <1>1, <1>2, <1>3, NoMoveIs DEF Stocked, Asked, FirstAsked, SwapAsked, Dropping
<1> QED BY <1>3, <1>4, ElsewhereIs DEF Asked, FirstAsked, SwapAsked

\* Steps with no action in hand.
LEMMA IdleKeeps ==
    ASSUME LimitsInv, pc = "idle", pc' = pc, mv' = mv,
           toServer' \in Seq(Requests), inv' = inv \/ \E now : inv' = now /\ Callback(now),
           changes' = changes \/ \E now : Callback(now)
    PROVE  LimitsInv'
<1>1. Stocked
  BY DEF LimitsInv
<1>2. inv' \in Stock /\ changes' \in Nat
  BY <1>1, CallbackIs DEF Stocked
<1>3. Stocked'
  BY <1>1, <1>2 DEF Stocked, Asked, FirstAsked, SwapAsked, Dropping
<1>4. pc' \notin Asked \cup {"apply", "somewhere", "report"}
  BY DEF Asked, FirstAsked, SwapAsked
<1> QED BY <1>3, <1>4 DEF LimitsInv, Phases, Amounts, SwapStands, SwapAllowed, Within, WithinLimits, FirstAsked,
                         SwapAsked, Asked, Across

LEMMA ActionLimits ==
    ASSUME LimitsInv, NEW a \in Actions, inventoryAction(a)
    PROVE  LimitsInv'
<1>1. toServer' = Append(toServer, a) /\ a \in Requests /\ toServer \in Seq(Requests)
  BY DEF inventoryAction, Requests, LimitsInv, Stocked
<1>2. toServer' \in Seq(Requests)
  <2>1. Append(toServer, a) \in Seq(Requests)
    BY <1>1, AppendProperties
  <2> QED BY <1>1, <2>1
<1>3. UNCHANGED <<pc, mv, inv, changes>> /\ pc = "idle"
  BY DEF inventoryAction, serverVars
<1> QED BY <1>2, <1>3, IdleKeeps

LEMMA OtherIdleLimits ==
    ASSUME LimitsInv, ReceiveInventory \/ RevertPrediction \/ ModsChange \/ SendInventory
    PROVE  LimitsInv'
<1>1. toServer' \in Seq(Requests)
  BY DEF ReceiveInventory, RevertPrediction, ModsChange, SendInventory, LimitsInv, Stocked
<1>2. UNCHANGED <<pc, mv>> /\ pc = "idle"
  BY DEF ReceiveInventory, RevertPrediction, ModsChange, SendInventory
<1>3. (inv' = inv /\ changes' = changes) \/ \E now : inv' = now /\ Callback(now)
  BY DEF ReceiveInventory, RevertPrediction, ModsChange, SendInventory, serverVars, Asking, SetInv
<1> QED BY <1>1, <1>2, <1>3, IdleKeeps

\* The server takes an action: all of its count is asked for.
LEMMA TakeLimits ==
    ASSUME LimitsInv, handleCommand_InventoryAction
    PROVE  LimitsInv'
<1>1. toServer \in Seq(Requests) /\ toServer # <<>> /\ toServer' = Tail(toServer) /\ inv' = inv
      /\ changes' = changes /\ pc = "idle"
  BY DEF handleCommand_InventoryAction, LimitsInv, Stocked
<1>2. toServer' \in Seq(Requests)
  BY <1>1
<1>3. CASE UNCHANGED <<pc, act, mv>>
  BY <1>1, <1>2, <1>3, IdleKeeps
<1>4. CASE ~UNCHANGED <<pc, act, mv>>
  <2>1. PICK a \in Requests : a = Head(toServer)
    BY <1>1
  <2>2. /\ pc' = Entry(a) /\ act' = a
        /\ mv' = [NoMove EXCEPT !.count = a.count, !.to = IF a.type = "Move" THEN a.to ELSE @]
    BY <1>4, <2>1 DEF handleCommand_InventoryAction
  <2>3. a \in Move \cup MoveSomewhere \cup Drop \cup Craft /\ a.count \in Nat
        /\ (a.type = "Move" => a.to \in Slots)
    <3>1. Counts \subseteq Nat
      BY InventoriesAssumption
    <3>2. a \in Move \cup MoveSomewhere \cup Drop \cup Craft
      BY DEF Requests, Actions
    <3> QED BY <3>1, <3>2 DEF Move, MoveSomewhere, Drop, Craft
  <2>4. mv' \in MvType /\ mv'.count = a.count /\ mv'.total = 0
        /\ (a.type = "Move" => mv'.to = a.to)
    BY <2>2, <2>3, NoMoveIs, ZenonT(30) DEF MvType, NoMove
  <2>5. CASE a \in Move \cup MoveSomewhere
    <3>1. a \in Moves
      BY <2>5 DEF Moves, Move, MoveSomewhere
    <3>2. (pc' = "apply" /\ a.type = "Move") \/ (pc' = "somewhere" /\ a.type = "MoveSomewhere")
      BY <2>2, <2>5 DEF Entry, Move, MoveSomewhere
    <3>3. Stocked'
      BY <3>1, <3>2, <2>2, <2>4, <1>1, <1>2 DEF Stocked, LimitsInv, Asked, FirstAsked, SwapAsked, Dropping
    <3>4. Phases' /\ SwapStands' /\ SwapAllowed' /\ Within'
      BY <3>2, <2>2 DEF Phases, SwapStands, SwapAllowed, Within, WithinLimits, Asked, FirstAsked, SwapAsked, Across
    <3>5. Amounts'
      BY <3>2, <2>2, <2>3, <2>4 DEF Amounts, Asked, FirstAsked, SwapAsked
    <3> QED BY <3>3, <3>4, <3>5 DEF LimitsInv
  <2>6. CASE a \in Drop \cup Craft
    <3>1. (pc' = "drop" /\ a \in Drop) \/ pc' = "craft"
      BY <2>2, <2>6 DEF Entry, Drop, Craft
    <3>2. Stocked'
      BY <3>1, <2>2, <2>4, <1>1, <1>2 DEF Stocked, LimitsInv, Asked, FirstAsked, SwapAsked, Dropping
    <3>3. pc' \notin Asked \cup {"apply", "somewhere", "report"}
      BY <3>1 DEF Asked, FirstAsked, SwapAsked
    <3> QED BY <3>2, <3>3 DEF LimitsInv, Phases, Amounts, SwapStands, SwapAllowed, Within, WithinLimits, FirstAsked,
                             SwapAsked, Asked, Across
  <2> QED BY <2>3, <2>5, <2>6
<1> QED BY <1>3, <1>4

\* A step that ends the action.
LEMMA EndLimits ==
    ASSUME Stocked, pc' = "idle", mv' = NoMove, inv' \in Stock, toServer' = toServer, changes' \in Nat
    PROVE  LimitsInv'
<1>1. Stocked'
  BY NoMoveIs DEF Stocked, Asked, FirstAsked, SwapAsked, Dropping
<1>2. pc' \notin Asked \cup {"apply", "somewhere", "report"}
  BY DEF Asked, FirstAsked, SwapAsked
<1> QED BY <1>1, <1>2 DEF LimitsInv, Phases, Amounts, SwapStands, SwapAllowed, Within, WithinLimits, FirstAsked,
                         SwapAsked, Asked, Across

\* The next slot for "move somewhere".
LEMMA NextSlotLimits ==
    ASSUME LimitsInv, MoveToNextSlot
    PROVE  LimitsInv'
<1>1. pc = "somewhere" /\ UNCHANGED <<inv, changes, toServer>>
  BY DEF MoveToNextSlot, serverVars
<1>2. Stocked /\ act \in Moves /\ act.type = "MoveSomewhere" /\ mv \in MvType
  BY <1>1 DEF LimitsInv, Stocked
<1>3. act.to_list \in Lists /\ act.count \in Nat
  BY <1>2, MovesAre
<1> DEFINE rest == {i \in mv.next .. Size[act.to_list] : mv.filling <=> inv[<<act.to_list, i>>] # Empty}
<1>4. CASE mv.count > 0 /\ rest # {}
  <2>1. PICK i : i = Min(rest) /\ pc' = "apply" /\ act' = act
                 /\ mv' = [mv EXCEPT !.to = <<act.to_list, i>>, !.next = i + 1]
    BY <1>4 DEF MoveToNextSlot
  <2>2. i \in Nat /\ <<act.to_list, i>> \in Slots
    <3>1. rest \subseteq Nat
      BY <1>2 DEF MvType
    <3>2. i \in rest
      <4> HIDE DEF rest
      <4> QED BY <1>4, <2>1, <3>1, LeastNatural
    <3>3. i \in Nat /\ i \in mv.next .. Size[act.to_list] /\ mv.next \in Nat
      BY <3>1, <3>2, <1>2 DEF MvType
    <3>4. act.to_list \in Lists /\ Size[act.to_list] \in Nat
      BY <1>3, InventoriesAssumption
    <3>5. i \in 1 .. Size[act.to_list]
      BY <3>3, <3>4, <1>2 DEF MvType
    <3> QED BY <3>3, <3>5, <1>3 DEF Slots
  <2>3. mv' \in MvType /\ mv'.count = mv.count /\ mv'.total = mv.total /\ mv'.to = <<act.to_list, i>>
    <3>1. i + 1 \in Nat \ {0}
      BY <2>2
    <3> QED BY <3>1, <2>1, <2>2, <1>2 DEF MvType
  <2>4. Stocked'
    BY <2>1, <2>3, <1>1, <1>2 DEF Stocked, Asked, FirstAsked, SwapAsked, Dropping
  <2>5. Phases' /\ SwapStands' /\ SwapAllowed' /\ Within'
    BY <2>1, <2>3 DEF Phases, SwapStands, SwapAllowed, Within, WithinLimits, Asked, FirstAsked, SwapAsked, Across
  <2>6. Amounts'
    BY <2>1, <2>3, <1>1, <1>4 DEF LimitsInv, Amounts, Asked, FirstAsked, SwapAsked
  <2> QED BY <2>4, <2>5, <2>6 DEF LimitsInv
<1>5. CASE ~(mv.count > 0 /\ rest # {}) /\ mv.count > 0 /\ mv.filling
  <2>1. pc' = pc /\ act' = act /\ mv' = [mv EXCEPT !.filling = FALSE, !.next = 1]
    BY <1>5 DEF MoveToNextSlot
  <2>2. mv' \in MvType /\ mv'.count = mv.count /\ mv'.total = mv.total
    <3>1. 1 \in Nat \ {0}
      OBVIOUS
    <3> QED BY <3>1, <2>1, <1>2 DEF MvType
  <2>3. Stocked'
    BY <2>1, <2>2, <1>1, <1>2 DEF Stocked, Asked, FirstAsked, SwapAsked, Dropping
  <2>4. Phases' /\ SwapStands' /\ SwapAllowed' /\ Within'
    BY <2>1, <2>2, <1>1 DEF Phases, SwapStands, SwapAllowed, Within, WithinLimits, Asked, FirstAsked, SwapAsked, Across
  <2>5. Amounts'
    BY <2>1, <2>2, <1>1 DEF LimitsInv, Amounts, Asked, FirstAsked, SwapAsked
  <2> QED BY <2>3, <2>4, <2>5 DEF LimitsInv
<1>6. CASE ~(mv.count > 0 /\ rest # {}) /\ ~(mv.count > 0 /\ mv.filling)
  <2>1. pc' = "idle" /\ mv' = NoMove
    BY <1>6 DEF MoveToNextSlot
  <2>2. inv' \in Stock /\ changes' \in Nat /\ toServer' = toServer
    BY <1>1, <1>2 DEF Stocked
  <2> QED BY <2>1, <2>2, <1>2, EndLimits
<1> QED BY <1>4, <1>5, <1>6

\* Back to "move somewhere", or done.
LEMMA ReturnLimits ==
    ASSUME Stocked, act \in Moves, NEW m \in MvType, Return(m),
           inv' \in Stock, changes' \in Nat, toServer' = toServer,
           act.type = "MoveSomewhere" /\ ~SameList(act) =>
             \/ m.move_count <= m.count /\ m.total + (m.count - m.move_count) <= act.count
             \/ inv'[act.from] = Empty
    PROVE  LimitsInv'
<1>1. CASE act.type = "MoveSomewhere"
  <2>1. /\ pc' = "somewhere" /\ act' = act
        /\ mv' = [NoMove EXCEPT !.count = (m.count - m.move_count) % 65536,
                                !.filling = m.filling, !.next = m.next,
                                !.move_count = m.move_count, !.total = m.total]
    BY <1>1 DEF Return
  <2>2. PICK c \in Nat : c = (m.count - m.move_count) % 65536
                         /\ (m.move_count <= m.count => c <= m.count - m.move_count)
    <3>1. m.count \in Nat /\ m.move_count \in Nat
      BY DEF MvType
    <3>2. (m.count - m.move_count) % 65536 \in Nat
      BY <3>1
    <3> QED BY <3>1, <3>2
  <2>3. mv' \in MvType /\ mv'.count = c /\ mv'.total = m.total
    <3>1. PICK f \in BOOLEAN, n \in Nat \ {0}, k \in Nat, t \in Nat :
            m.filling = f /\ m.next = n /\ m.move_count = k /\ m.total = t
      BY DEF MvType
    <3>2. mv' = [NoMove EXCEPT !.count = c, !.filling = f, !.next = n, !.move_count = k, !.total = t]
      BY <2>1, <2>2, <3>1
    <3>3. PICK r \in MvType : r = NoMove
      BY NoMoveIs
    <3>4. mv' = [r EXCEPT !.count = c, !.filling = f, !.next = n, !.move_count = k, !.total = t]
      BY <3>2, <3>3
    <3>5. mv' \in MvType
      BY <3>4 DEF MvType
    <3>6. mv'.count = c /\ mv'.total = t
      BY <3>4 DEF MvType
    <3> QED BY <3>1, <3>5, <3>6
  <2>4. Stocked'
    BY <2>1, <2>3, <1>1 DEF Stocked, Asked, FirstAsked, SwapAsked, Dropping
  <2>5. Phases' /\ SwapStands' /\ SwapAllowed' /\ Within'
    BY <2>1 DEF Phases, SwapStands, SwapAllowed, Within, WithinLimits, Asked, FirstAsked, SwapAsked, Across
  <2>6. Amounts'
    <3>1. act.count \in Nat /\ m.count \in Nat /\ m.move_count \in Nat /\ m.total \in Nat
      BY MovesAre DEF MvType
    <3>2. ~SameList(act) => m.total + c <= act.count \/ inv'[act.from] = Empty
      BY <1>1, <2>2, <3>1
    <3> QED BY <2>1, <2>3, <3>2 DEF Amounts, Asked, FirstAsked, SwapAsked
  <2> QED BY <2>4, <2>5, <2>6 DEF LimitsInv
<1>2. CASE act.type # "MoveSomewhere"
  <2>1. pc' = "idle" /\ mv' = NoMove
    BY <1>2 DEF Return
  <2> QED BY <2>1, EndLimits
<1> QED BY <1>1, <1>2

LEMMA BeginMoveLimits ==
    ASSUME LimitsInv, BeginMove
    PROVE  LimitsInv'
<1>1. pc = "apply" /\ UNCHANGED <<inv, changes, toServer>>
  BY DEF BeginMove, serverVars, Unlocked
<1>2. Stocked /\ act \in Moves /\ mv \in MvType /\ inv \in Stock
  BY <1>1 DEF LimitsInv, Stocked
<1>3. act.from \in Slots /\ act.count \in Nat /\ mv.to \in Slots /\ mv.count \in Nat /\ mv.total \in Nat
      /\ inv[act.from] \in Stack /\ inv[mv.to] \in Stack /\ changes \in Nat
  BY <1>2, MovesAre DEF MvType, Stock, Stocked
<1>4. act.type = "MoveSomewhere" => act.count > 0 /\ (~SameList(act) => act.from # mv.to)
  BY <1>1, <1>2, MovesAre DEF LimitsInv, Phases
<1>5. PICK src_item \in Stack :
        /\ src_item = (IF mv.count > 0 THEN Taken(inv[act.from], mv.count) ELSE inv[act.from])
        /\ src_item = Empty <=> inv[act.from] = Empty
        /\ src_item # Empty => src_item.name = inv[act.from].name
        /\ mv.count > 0 => src_item.count <= mv.count
  <2>1. Wanted(inv[act.from], mv.count) = (IF mv.count > 0 THEN Taken(inv[act.from], mv.count) ELSE inv[act.from])
    BY <1>3 DEF Wanted
  <2>2. mv.count > 0 => mv.count # 0
    BY <1>3
  <2> QED BY <1>3, <2>1, <2>2, WantedIs
<1>6. PICK fits \in Nat : fits = Fitting(inv[mv.to], src_item) /\ fits <= src_item.count
  BY <1>3, FittingIs
<1>7. PICK swap \in BOOLEAN : swap <=> (fits = 0 /\ ~caused_by_move_somewhere)
  OBVIOUS
<1>8. IF act.from = mv.to \/ src_item = Empty
      THEN Return(mv)
      ELSE IF fits = 0 /\ caused_by_move_somewhere
      THEN Return([mv EXCEPT !.move_count = 0])
      ELSE /\ pc' = IF WithinOne THEN "allowMove" ELSE "allowPut"
           /\ mv' = [mv EXCEPT !.move_count = IF swap THEN inv[act.from].count ELSE fits,
                               !.swap = swap, !.back = {}, !.changes = changes]
           /\ UNCHANGED act
  BY <1>5, <1>6, <1>7, Zenon DEF BeginMove
<1>9. CASE act.from = mv.to \/ src_item = Empty
  <2>1. Return(mv)
    BY <1>8, <1>9
  <2>2. act.type = "MoveSomewhere" /\ ~SameList(act) => inv'[act.from] = Empty
    BY <1>1, <1>4, <1>5, <1>9
  <2> QED BY <2>1, <2>2, <1>1, <1>2, <1>3, ReturnLimits
<1>10. CASE ~(act.from = mv.to \/ src_item = Empty) /\ (fits = 0 /\ caused_by_move_somewhere)
  <2>1. PICK m : m = [mv EXCEPT !.move_count = 0]
    OBVIOUS
  <2>2. m \in MvType /\ m.move_count = 0 /\ m.count = mv.count /\ m.total = mv.total
    BY <2>1, <1>2 DEF MvType
  <2>3. ~SameList(act) => mv.total + mv.count <= act.count \/ inv[act.from] = Empty
    BY <1>1, <1>4, <1>10 DEF LimitsInv, Amounts, caused_by_move_somewhere
  <2>4. m.move_count <= m.count /\ m.total + (m.count - m.move_count) = mv.total + mv.count
    BY <2>2, <1>3
  <2>5. Return(m)
    BY <1>8, <1>10, <2>1
  <2> QED BY <2>2, <2>3, <2>4, <2>5, <1>1, <1>2, <1>3, ReturnLimits
<1>11. CASE ~(act.from = mv.to \/ src_item = Empty) /\ ~(fits = 0 /\ caused_by_move_somewhere)
  <2>1. /\ pc' = (IF WithinOne THEN "allowMove" ELSE "allowPut") /\ act' = act
        /\ mv' = [mv EXCEPT !.move_count = IF swap THEN inv[act.from].count ELSE fits,
                            !.swap = swap, !.back = {}, !.changes = changes]
    BY <1>8, <1>11
  <2>2. PICK n \in Nat : n = IF swap THEN inv[act.from].count ELSE fits
    BY <1>3, <1>6, StackIs
  <2>3. /\ mv' \in MvType /\ mv'.count = mv.count /\ mv'.total = mv.total /\ mv'.to = mv.to
        /\ mv'.move_count = n /\ mv'.swap = swap /\ mv'.changes = changes
    <3>1. mv' = [mv EXCEPT !.move_count = n, !.swap = swap, !.back = {}, !.changes = changes]
      BY <2>1, <2>2
    <3>2. {} \in SUBSET Answers
      OBVIOUS
    <3> QED BY <3>1, <3>2, <1>2, <1>3 DEF MvType
  <2>4. Stocked'
    BY <2>1, <2>3, <1>1, <1>2 DEF Stocked, Asked, FirstAsked, SwapAsked, Dropping
  <2>5. WithinOne' <=> WithinOne
    BY <2>1, <2>3 DEF WithinOne
  <2>6. Phases'
    <3>1. mv'.changes <= changes'
      BY <2>3, <1>1, <1>3
    <3>2. pc' \in {"allowMove", "allowPut"} /\ (pc' = "allowMove" <=> WithinOne')
      BY <2>1, <2>5
    <3>3. act'.from # mv'.to /\ (act'.type = "MoveSomewhere" => mv'.to[1] = act'.to_list)
      BY <2>1, <2>3, <1>1, <1>11 DEF LimitsInv, Phases
    <3> QED BY <3>1, <3>2, <3>3 DEF Phases, Asked, FirstAsked, SwapAsked, Across
  <2>7. Amounts'
    <3>1. ~SameList(act) /\ act.count > 0 => mv.count > 0 /\ mv.total + mv.count <= act.count
      BY <1>1, <1>5, <1>11 DEF LimitsInv, Amounts
    <3>2. ~swap /\ mv.count > 0 => n <= mv.count
      <4>1. src_item.count \in Nat
        BY StackIs
      <4> QED BY <4>1, <2>2, <1>3, <1>5, <1>6
    <3>3. pc' \in {"allowMove", "allowPut"}
      BY <2>1
    <3> QED BY <3>1, <3>2, <3>3, <2>1, <2>3 DEF Amounts, Asked, FirstAsked, SwapAsked
  <2>8. SwapStands'
    <3>1. swap => Fitting(inv[mv.to], inv[act.from]) = 0
      BY <1>3, <1>5, <1>6, <1>7, <1>11, NoRoomForPart
    <3> QED BY <3>1, <2>1, <2>2, <2>3, <1>1, <1>5, <1>7, <1>11 DEF SwapStands, caused_by_move_somewhere
  <2>9. SwapAllowed' /\ Within'
    BY <2>1 DEF SwapAllowed, SwapAsked, Within, WithinLimits
  <2> QED BY <2>4, <2>6, <2>7, <2>8, <2>9 DEF LimitsInv
<1> QED BY <1>9, <1>10, <1>11

\* What any callback that is asked leaves alone.
AskFrame(now) ==
    /\ pc \in Asked /\ pc' \in Asked
    /\ Asking(now) /\ UNCHANGED <<act, toServer>>
    /\ mv' \in MvType
    /\ mv'.count = mv.count /\ mv'.to = mv.to /\ mv'.move_count = mv.move_count
    /\ mv'.total = mv.total /\ mv'.changes = mv.changes
    /\ mv'.swap => mv.swap
    /\ ~mv'.swap => (pc \in FirstAsked /\ ~mv.swap) \/ (pc' = "move" /\ mv'.src = 0)
    /\ pc' \in SwapAsked => mv'.swap
    /\ pc' \in FirstAsked => pc \in FirstAsked /\ mv'.swap = mv.swap
    /\ pc' \in {"allowMove", "allowMoveBack"} => pc \in {"allowMove", "allowMoveBack"}
    /\ pc' \in Across => pc \in Across

LEMMA AskedKeeps ==
    ASSUME LimitsInv, NEW now, AskFrame(now)
    PROVE  /\ Stocked' /\ Phases' /\ Amounts' /\ SwapStands' /\ Within'
           /\ WithinOne' = WithinOne /\ act \in Moves /\ now \in Stock /\ mv \in MvType
           /\ inv' = now
           /\ Unchanged' => Unchanged /\ inv' = inv
<1>1. Stocked /\ act \in Moves /\ mv \in MvType /\ inv \in Stock /\ changes \in Nat
  BY DEF AskFrame, LimitsInv, Stocked
<1>2. now \in Stock /\ changes' \in Nat /\ changes <= changes' /\ (changes' = changes => now = inv)
  BY <1>1, CallbackIs DEF AskFrame, Asking
<1>3. inv' = now /\ act' = act /\ toServer' = toServer
  BY DEF AskFrame, Asking, SetInv
<1>4. act.from \in Slots /\ act.count \in Nat
      /\ mv.count \in Nat /\ mv.total \in Nat /\ mv.move_count \in Nat /\ mv.changes \in Nat
  BY <1>1, MovesAre DEF MvType
<1>5. WithinOne' = WithinOne
  BY <1>3 DEF WithinOne, AskFrame
<1>6. mv.changes <= changes
  BY DEF LimitsInv, Phases, AskFrame
<1>7. Unchanged' => Unchanged /\ inv' = inv
  BY <1>2, <1>3, <1>4, <1>6, <1>1 DEF Unchanged, AskFrame
<1>8. Stocked'
  <2>1. pc' \notin Dropping /\ pc' # "somewhere" /\ mv' \in MvType
    BY DEF AskFrame, Dropping, Asked, FirstAsked, SwapAsked
  <2> QED BY <2>1, <1>1, <1>2, <1>3 DEF Stocked
<1>9. Phases'
  <2>1. act'.from # mv'.to /\ (act'.type = "MoveSomewhere" => mv'.to[1] = act'.to_list)
    BY <1>3 DEF LimitsInv, Phases, AskFrame
  <2>2. mv'.changes <= changes'
    BY <1>1, <1>2, <1>4, <1>6 DEF AskFrame
  <2>3. (pc' \in {"allowMove", "allowMoveBack"} => WithinOne') /\ (pc' \in Across => ~WithinOne')
    BY <1>5 DEF LimitsInv, Phases, AskFrame
  <2> QED BY <2>1, <2>2, <2>3 DEF Phases, AskFrame
<1>10. Amounts'
  <2>1. pc' \notin {"apply", "somewhere", "report"}
    BY DEF AskFrame, Asked, FirstAsked, SwapAsked
  <2>2. ~SameList(act) /\ act'.count > 0 => mv'.count > 0 /\ mv'.total + mv'.count <= act'.count
    BY <1>3 DEF LimitsInv, Amounts, AskFrame
  <2>3. ~SameList(act) /\ ~mv'.swap /\ mv'.count > 0 => mv'.move_count <= mv'.count \/ (pc' = "move" /\ mv'.src = 0)
    BY DEF LimitsInv, Amounts, AskFrame
  <2>4. pc' \in FirstAsked => pc' # "move"
    BY DEF FirstAsked
  <2> QED BY <2>1, <2>2, <2>3, <2>4, <1>3 DEF Amounts
<1>11. SwapStands'
  <2> SUFFICES ASSUME mv'.swap
               PROVE  /\ ~caused_by_move_somewhere'
                      /\ Unchanged' => /\ inv'[act'.from] # Empty /\ mv'.move_count = inv'[act'.from].count
                                       /\ Fitting(inv'[mv'.to], inv'[act'.from]) = 0
    BY DEF SwapStands
  <2>1. pc \in Asked /\ mv.swap
    BY DEF AskFrame
  <2>2. ~caused_by_move_somewhere'
    BY <2>1, <1>3 DEF LimitsInv, SwapStands, caused_by_move_somewhere
  <2>3. Unchanged' => /\ inv[act.from] # Empty /\ mv.move_count = inv[act.from].count
                      /\ Fitting(inv[mv.to], inv[act.from]) = 0
    BY <2>1, <1>7 DEF LimitsInv, SwapStands
  <2> QED BY <2>2, <2>3, <1>3, <1>7 DEF AskFrame
<1>12. Within'
  <2>1. pc' # "report"
    BY DEF AskFrame, Asked, FirstAsked, SwapAsked
  <2> QED BY <2>1 DEF Within, WithinLimits
<1> QED BY <1>1, <1>2, <1>3, <1>5, <1>7, <1>8, <1>9, <1>10, <1>11, <1>12

LEMMA AnswersAre == \A n \in Answers : n \in Nat \cup {Infinite}
BY InventoriesAssumption DEF Infinite

LEMMA DeniedIs ==
    ASSUME mv \in MvType
    PROVE  /\ Denied \in MvType /\ Denied.count = mv.count /\ Denied.to = mv.to
           /\ Denied.move_count = mv.move_count /\ Denied.total = mv.total /\ Denied.changes = mv.changes
           /\ Denied.swap = FALSE /\ Denied.src = 0
BY DEF Denied, MvType

\* A step that takes the swap away.
LEMMA DeniedKeeps ==
    ASSUME LimitsInv, NEW now, AskFrame(now), ~mv'.swap
    PROVE  LimitsInv'
<1>1. SwapAllowed'
  BY DEF SwapAllowed
<1> QED BY <1>1, AskedKeeps DEF LimitsInv

LEMMA AllowMoveLimits ==
    ASSUME LimitsInv, allowMove
    PROVE  LimitsInv'
<1>1. pc = "allowMove" /\ act' = act /\ toServer' = toServer /\ mv \in MvType /\ WithinOne
  BY DEF allowMove, Unlocked, LimitsInv, Stocked, Phases
<1>2. PICK now \in ModsLeave, n \in Answers :
        /\ Asking(now)
        /\ IF mv.swap /\ Allows(n, mv.move_count)
           THEN pc' = "allowMoveBack" /\ mv' = [mv EXCEPT !.src = n, !.swap_item = now[mv.to]]
           ELSE pc' = "move" /\ mv' = IF mv.swap THEN Denied ELSE [mv EXCEPT !.src = n, !.dst = n]
  BY DEF allowMove
<1>3. n \in Nat \cup {Infinite}
  BY AnswersAre
<1>4. CASE mv.swap /\ Allows(n, mv.move_count)
  <2>1. pc' = "allowMoveBack" /\ mv' = [mv EXCEPT !.src = n, !.swap_item = now[mv.to]]
    BY <1>2, <1>4
  <2>2. now \in Stock
    BY <1>2, CallbackIs DEF Asking, LimitsInv
  <2>3. now[mv.to] \in Stack
    BY <2>2, <1>1 DEF Stock, MvType
  <2>4. /\ mv' \in MvType /\ mv'.count = mv.count /\ mv'.to = mv.to /\ mv'.move_count = mv.move_count
        /\ mv'.total = mv.total /\ mv'.changes = mv.changes /\ mv'.swap = mv.swap
        /\ mv'.src = n /\ mv'.swap_item = now[mv.to]
    BY <2>1, <2>3, <1>1, <1>3 DEF MvType
  <2>5. AskFrame(now)
    BY <2>1, <2>4, <1>1, <1>2, <1>4 DEF AskFrame, Asked, FirstAsked, SwapAsked, Across
  <2>6. inv' = now /\ WithinOne'
    BY <2>5, <1>1, AskedKeeps
  <2>7. SwapAllowed'
    BY <2>1, <2>4, <2>6, <1>4 DEF SwapAllowed
  <2> QED BY <2>5, <2>7, AskedKeeps DEF LimitsInv
<1>5. CASE ~(mv.swap /\ Allows(n, mv.move_count))
  <2>1. pc' = "move" /\ mv' = IF mv.swap THEN Denied ELSE [mv EXCEPT !.src = n, !.dst = n]
    BY <1>2, <1>5
  <2>2. /\ mv' \in MvType /\ mv'.count = mv.count /\ mv'.to = mv.to /\ mv'.move_count = mv.move_count
        /\ mv'.total = mv.total /\ mv'.changes = mv.changes /\ mv'.swap = FALSE
        /\ mv.swap => mv'.src = 0
    <3>1. CASE mv.swap
      BY <3>1, <2>1, <1>1, DeniedIs
    <3>2. CASE ~mv.swap
      <4>1. mv' = [mv EXCEPT !.src = n, !.dst = n]
        BY <2>1, <3>2
      <4> QED BY <4>1, <3>2, <1>1, <1>3 DEF MvType
    <3> QED BY <3>1, <3>2
  <2>3. AskFrame(now)
    BY <2>1, <2>2, <1>1, <1>2 DEF AskFrame, Asked, FirstAsked, SwapAsked, Across
  <2> QED BY <2>2, <2>3, DeniedKeeps
<1> QED BY <1>4, <1>5

LEMMA AllowMoveBackLimits ==
    ASSUME LimitsInv, allowMoveBack
    PROVE  LimitsInv'
<1>1. pc = "allowMoveBack" /\ act' = act /\ toServer' = toServer /\ mv \in MvType /\ WithinOne
      /\ mv.swap /\ pc' = "move"
  BY DEF allowMoveBack, Unlocked, LimitsInv, Stocked, Phases, SwapAsked
<1>2. PICK now \in ModsLeave, n \in Answers :
        /\ Asking(now)
        /\ mv' = IF Allows(n, mv.swap_item.count) THEN [mv EXCEPT !.dst = n, !.back = {n}] ELSE Denied
  BY DEF allowMoveBack
<1>3. n \in Nat \cup {Infinite} /\ {n} \in SUBSET Answers
  BY AnswersAre
<1>4. CASE Allows(n, mv.swap_item.count)
  <2>1. mv' = [mv EXCEPT !.dst = n, !.back = {n}]
    BY <1>2, <1>4
  <2>2. /\ mv' \in MvType /\ mv'.count = mv.count /\ mv'.to = mv.to /\ mv'.move_count = mv.move_count
        /\ mv'.total = mv.total /\ mv'.changes = mv.changes /\ mv'.swap = mv.swap
        /\ mv'.src = mv.src /\ mv'.swap_item = mv.swap_item /\ mv'.back = {n}
    BY <2>1, <1>1, <1>3 DEF MvType
  <2>3. AskFrame(now)
    BY <2>2, <1>1, <1>2 DEF AskFrame, Asked, FirstAsked, SwapAsked, Across
  <2>4. (Unchanged' => Unchanged /\ inv' = inv) /\ WithinOne'
    BY <2>3, <1>1, AskedKeeps
  <2>5. SwapAllowed'
    BY <2>2, <2>4, <1>1, <1>4 DEF SwapAllowed, LimitsInv, SwapAsked
  <2> QED BY <2>3, <2>5, AskedKeeps DEF LimitsInv
<1>5. CASE ~Allows(n, mv.swap_item.count)
  <2>1. mv' = Denied
    BY <1>2, <1>5
  <2>2. AskFrame(now)
    BY <2>1, <1>1, <1>2, DeniedIs DEF AskFrame, Asked, FirstAsked, SwapAsked, Across
  <2> QED BY <2>1, <2>2, <1>1, DeniedIs, DeniedKeeps
<1> QED BY <1>4, <1>5

LEMMA AllowPutLimits ==
    ASSUME LimitsInv, allowPut
    PROVE  LimitsInv'
<1>1. pc = "allowPut" /\ act' = act /\ toServer' = toServer /\ mv \in MvType /\ pc' = "allowTake"
  BY DEF allowPut, Unlocked, LimitsInv, Stocked
<1>2. PICK now \in ModsLeave, n \in Answers : Asking(now) /\ mv' = [mv EXCEPT !.dst = n]
  BY DEF allowPut
<1>3. n \in Nat \cup {Infinite}
  BY AnswersAre
<1>4. /\ mv' \in MvType /\ mv'.count = mv.count /\ mv'.to = mv.to /\ mv'.move_count = mv.move_count
      /\ mv'.total = mv.total /\ mv'.changes = mv.changes /\ mv'.swap = mv.swap
  BY <1>1, <1>2, <1>3 DEF MvType
<1>5. AskFrame(now)
  BY <1>1, <1>2, <1>4 DEF AskFrame, Asked, FirstAsked, SwapAsked, Across
<1>6. SwapAllowed'
  BY <1>1 DEF SwapAllowed, SwapAsked
<1> QED BY <1>5, <1>6, AskedKeeps DEF LimitsInv

LEMMA AllowTakeLimits ==
    ASSUME LimitsInv, allowTake
    PROVE  LimitsInv'
<1>1. pc = "allowTake" /\ act' = act /\ toServer' = toServer /\ mv \in MvType
  BY DEF allowTake, Unlocked, LimitsInv, Stocked
<1>2. PICK now \in ModsLeave, n \in Answers :
        /\ Asking(now)
        /\ IF mv.swap /\ Allows(n, mv.move_count) /\ Allows(mv.dst, mv.move_count)
           THEN pc' = "allowPutBack" /\ mv' = [mv EXCEPT !.src = n, !.swap_item = now[mv.to]]
           ELSE pc' = "move" /\ mv' = IF mv.swap THEN Denied ELSE [mv EXCEPT !.src = n]
  BY DEF allowTake
<1>3. n \in Nat \cup {Infinite}
  BY AnswersAre
<1>4. CASE mv.swap /\ Allows(n, mv.move_count) /\ Allows(mv.dst, mv.move_count)
  <2>1. pc' = "allowPutBack" /\ mv' = [mv EXCEPT !.src = n, !.swap_item = now[mv.to]]
    BY <1>2, <1>4
  <2>2. now \in Stock
    BY <1>2, CallbackIs DEF Asking, LimitsInv
  <2>3. now[mv.to] \in Stack
    BY <2>2, <1>1 DEF Stock, MvType
  <2>4. /\ mv' \in MvType /\ mv'.count = mv.count /\ mv'.to = mv.to /\ mv'.move_count = mv.move_count
        /\ mv'.total = mv.total /\ mv'.changes = mv.changes /\ mv'.swap = mv.swap
        /\ mv'.src = n /\ mv'.dst = mv.dst /\ mv'.swap_item = now[mv.to]
    BY <2>1, <2>3, <1>1, <1>3 DEF MvType
  <2>5. AskFrame(now)
    BY <2>1, <2>4, <1>1, <1>2, <1>4 DEF AskFrame, Asked, FirstAsked, SwapAsked, Across
  <2>6. inv' = now
    BY <2>5, AskedKeeps
  <2>7. SwapAllowed'
    BY <2>1, <2>4, <2>6, <1>4 DEF SwapAllowed
  <2> QED BY <2>5, <2>7, AskedKeeps DEF LimitsInv
<1>5. CASE ~(mv.swap /\ Allows(n, mv.move_count) /\ Allows(mv.dst, mv.move_count))
  <2>1. pc' = "move" /\ mv' = IF mv.swap THEN Denied ELSE [mv EXCEPT !.src = n]
    BY <1>2, <1>5
  <2>2. /\ mv' \in MvType /\ mv'.count = mv.count /\ mv'.to = mv.to /\ mv'.move_count = mv.move_count
        /\ mv'.total = mv.total /\ mv'.changes = mv.changes /\ mv'.swap = FALSE
        /\ mv.swap => mv'.src = 0
    <3>1. CASE mv.swap
      BY <3>1, <2>1, <1>1, DeniedIs
    <3>2. CASE ~mv.swap
      <4>1. mv' = [mv EXCEPT !.src = n]
        BY <2>1, <3>2
      <4> QED BY <4>1, <3>2, <1>1, <1>3 DEF MvType
    <3> QED BY <3>1, <3>2
  <2>3. AskFrame(now)
    BY <2>1, <2>2, <1>1, <1>2 DEF AskFrame, Asked, FirstAsked, SwapAsked, Across
  <2> QED BY <2>2, <2>3, DeniedKeeps
<1> QED BY <1>4, <1>5

LEMMA AllowBackLimits ==
    ASSUME LimitsInv, allowBack("allowPutBack", "allowTakeBack") \/ allowBack("allowTakeBack", "move")
    PROVE  LimitsInv'
<1>1. PICK here, next :
        /\ (here = "allowPutBack" /\ next = "allowTakeBack") \/ (here = "allowTakeBack" /\ next = "move")
        /\ allowBack(here, next)
  OBVIOUS
<1>2. pc = here /\ pc' = next /\ act' = act /\ toServer' = toServer /\ mv \in MvType /\ mv.swap
      /\ ~WithinOne
  BY <1>1 DEF allowBack, Unlocked, LimitsInv, Stocked, Phases, SwapAsked, Across
<1>3. PICK now \in ModsLeave, n \in Answers :
        /\ Asking(now)
        /\ mv' = IF next = "move" /\ \E m \in mv.back \cup {n} : ~Allows(m, mv.swap_item.count)
                 THEN Denied ELSE [mv EXCEPT !.back = @ \cup {n}]
  BY <1>1 DEF allowBack
<1>4. CASE next = "move" /\ \E m \in mv.back \cup {n} : ~Allows(m, mv.swap_item.count)
  <2>1. mv' = Denied
    BY <1>3, <1>4
  <2>2. AskFrame(now)
    BY <2>1, <1>1, <1>2, <1>3, <1>4, DeniedIs DEF AskFrame, Asked, FirstAsked, SwapAsked, Across
  <2> QED BY <2>1, <2>2, <1>2, DeniedIs, DeniedKeeps
<1>5. CASE ~(next = "move" /\ \E m \in mv.back \cup {n} : ~Allows(m, mv.swap_item.count))
  <2>1. PICK back \in SUBSET Answers : back = mv.back \cup {n}
    BY <1>2 DEF MvType
  <2>2. mv' = [mv EXCEPT !.back = back]
    BY <2>1, <1>3, <1>5
  <2>3. /\ mv' \in MvType /\ mv'.count = mv.count /\ mv'.to = mv.to /\ mv'.move_count = mv.move_count
        /\ mv'.total = mv.total /\ mv'.changes = mv.changes /\ mv'.swap = mv.swap
        /\ mv'.src = mv.src /\ mv'.dst = mv.dst /\ mv'.swap_item = mv.swap_item /\ mv'.back = back
    BY <2>2, <1>2 DEF MvType
  <2>4. AskFrame(now)
    BY <2>3, <1>1, <1>2, <1>3 DEF AskFrame, Asked, FirstAsked, SwapAsked, Across
  <2>5. Unchanged' => Unchanged /\ inv' = inv
    BY <2>4, AskedKeeps
  <2>6. SwapAllowed'
    <3>1. pc \in SwapAsked \cup {"move"} /\ mv.swap
      BY <1>1, <1>2 DEF SwapAsked
    <3>2. pc' = "move" => back # {} /\ \A m \in back : Allows(m, mv.swap_item.count)
      BY <2>1, <1>2, <1>5
    <3> QED BY <3>1, <3>2, <2>3, <2>5, <1>2 DEF SwapAllowed, LimitsInv
  <2> QED BY <2>4, <2>6, AskedKeeps DEF LimitsInv
<1> QED BY <1>4, <1>5

\* The amount that is moved is below every limit.
LEMMA AllowedIs ==
    ASSUME mv \in MvType, inv[act.from] \in Stack
    PROVE  /\ Allowed \in Nat /\ Allowed <= mv.move_count /\ Allowed <= inv[act.from].count
           /\ mv.src # Infinite => Allowed <= mv.src
           /\ mv.dst # Infinite => Allowed <= mv.dst
<1> DEFINE limits == {mv.move_count} \cup ({mv.src, mv.dst} \ {Infinite})
<1>1. limits \subseteq Nat /\ limits # {} /\ mv.move_count \in limits
      /\ (mv.src # Infinite => mv.src \in limits) /\ (mv.dst # Infinite => mv.dst \in limits)
  BY DEF MvType
<1>2. PICK n \in Nat : n = Min(limits) /\ \A k \in limits : n <= k
  <2> HIDE DEF limits
  <2> QED BY <1>1, LeastNatural
<1>3. Allowed = Limit(n, inv[act.from].count)
  BY <1>2 DEF Allowed
<1>4. inv[act.from].count \in Nat
  BY StackIs
<1>5. Allowed \in Nat /\ Allowed <= n /\ Allowed <= inv[act.from].count
  BY <1>3, <1>4 DEF Limit
<1>6. \A k \in limits : Allowed <= k
  <2> HIDE DEF limits
  <2> QED BY <1>1, <1>2, <1>5
<1> QED BY <1>1, <1>5, <1>6

LEMMA PerformMoveLimits ==
    ASSUME LimitsInv, PerformMove
    PROVE  LimitsInv'
<1>1. pc = "move" /\ changes' = changes /\ toServer' = toServer
  BY DEF PerformMove, Unlocked
<1>2. Stocked /\ act \in Moves /\ mv \in MvType /\ inv \in Stock /\ changes \in Nat
      /\ act.from # mv.to /\ pc \in Asked
  BY <1>1 DEF LimitsInv, Stocked, Phases, Asked
<1>3. /\ act.from \in Slots /\ act.count \in Nat /\ mv.to \in Slots /\ mv.count \in Nat /\ mv.total \in Nat
      /\ mv.move_count \in Nat /\ inv[act.from] \in Stack /\ inv[mv.to] \in Stack
      /\ act.type = "MoveSomewhere" => act.count > 0
  BY <1>2, MovesAre DEF MvType, Stock
<1>4. ~SameList(act) /\ act.count > 0 => mv.count > 0 /\ mv.total + mv.count <= act.count
  BY <1>2 DEF LimitsInv, Amounts
<1>5. /\ Allowed \in Nat /\ Allowed <= mv.move_count /\ Allowed <= inv[act.from].count
      /\ mv.src # Infinite => Allowed <= mv.src
      /\ mv.dst # Infinite => Allowed <= mv.dst
  BY <1>2, <1>3, AllowedIs
<1>6. CASE Allowed = 0
  <2>1. PICK m : m = [mv EXCEPT !.move_count = 0]
    OBVIOUS
  <2>2. m \in MvType /\ m.move_count = 0 /\ m.count = mv.count /\ m.total = mv.total
    BY <2>1, <1>2 DEF MvType
  <2>3. Return(m) /\ inv' = inv
    BY <2>1, <1>6 DEF PerformMove
  <2>4. act.type = "MoveSomewhere" /\ ~SameList(act) =>
          m.move_count <= m.count /\ m.total + (m.count - m.move_count) <= act.count
    BY <2>2, <1>3, <1>4
  <2> QED BY <2>2, <2>3, <2>4, <1>1, <1>2, ReturnLimits
<1>7. CASE Allowed # 0
  <2>1. PICK r : r = moveItem(inv, act.from, mv.to, Allowed, mv.swap)
    OBVIOUS
  <2>2. PICK now : now = WithInfinite(r)
    OBVIOUS
  <2>3. PICK done :
          done = [mv EXCEPT !.move_count = r.moved.count, !.total = @ + r.moved.count,
                            !.did_swap = r.did_swap, !.src_item = r.moved,
                            !.swap_item = IF r.did_swap THEN now[act.from] ELSE Empty]
    OBVIOUS
  <2>4. /\ inv' = now
        /\ IF caused_by_move_somewhere /\ r.moved = Empty
           THEN Return(done)
           ELSE pc' = "report" /\ mv' = done /\ act' = act
    BY <2>1, <2>2, <2>3, <1>7, Zenon DEF PerformMove, SetInv
  <2>5. PICK taken \in Stack : taken = Wanted(inv[act.from], Allowed) /\ taken.count <= Allowed
                               /\ (taken # Empty => taken.name = inv[act.from].name)
    BY <1>3, <1>5, <1>7, WantedIs
  <2>6. inv[act.from] # Empty /\ mv.swap \in BOOLEAN
    BY <1>2, <1>3, <1>5, <1>7, StackIs DEF MvType
  <2>7. /\ r.stacks \in Stock /\ r.moved \in Stack /\ r.did_swap \in BOOLEAN
        /\ r.did_swap <=> (mv.swap /\ Fitting(inv[mv.to], taken) = 0)
        /\ r.did_swap => /\ r.moved = inv[act.from]
                         /\ r.stacks = [inv EXCEPT ![act.from] = inv[mv.to], ![mv.to] = inv[act.from]]
        /\ ~r.did_swap => r.moved.count <= taken.count
    <3>1. Moved(inv, act.from, mv.to, Allowed, mv.swap, moveItem(inv, act.from, mv.to, Allowed, mv.swap))
      BY <2>6, <1>2, <1>3, <1>5, MoveItemIs
    <3>2. Moved(inv, act.from, mv.to, Allowed, mv.swap, r)
      BY <3>1, <2>1
    <3> QED BY <3>2, <2>5 DEF Moved
  <2>8. /\ now \in Stock
        /\ Infinite \notin {mv.src, mv.dst} => now = r.stacks
        /\ mv.dst = Infinite /\ r.did_swap => now[act.from] = Empty
    BY <2>2, <2>7, <1>2, <1>3, WithInfiniteIs
  <2>9. PICK moved \in Nat : moved = r.moved.count
    BY <2>7, StackIs
  <2>10. /\ done \in MvType /\ done.count = mv.count /\ done.to = mv.to /\ done.move_count = moved
         /\ done.total = mv.total + moved /\ done.did_swap = r.did_swap /\ done.src_item = r.moved
         /\ done.swap_item = (IF r.did_swap THEN now[act.from] ELSE Empty)
         /\ done.swap = mv.swap /\ done.src = mv.src /\ done.dst = mv.dst /\ done.back = mv.back
         /\ done.changes = mv.changes
    <3>1. PICK item \in Stack : item = IF r.did_swap THEN now[act.from] ELSE Empty
      BY <2>8, <1>3 DEF Stock, Stack
    <3>2. PICK did \in BOOLEAN, src_item \in Stack : did = r.did_swap /\ src_item = r.moved
      BY <2>7
    <3>3. PICK total \in Nat : total = mv.total + moved
      BY <2>9, <1>3
    <3>4. done = [mv EXCEPT !.move_count = moved, !.total = total, !.did_swap = did,
                            !.src_item = src_item, !.swap_item = item]
      BY <2>3, <2>9, <3>1, <3>2, <3>3
    <3>5. done \in MvType
      BY <3>4, <1>2 DEF MvType
    <3>6. /\ done.count = mv.count /\ done.to = mv.to /\ done.move_count = moved
          /\ done.total = total /\ done.did_swap = did /\ done.src_item = src_item /\ done.swap_item = item
          /\ done.swap = mv.swap /\ done.src = mv.src /\ done.dst = mv.dst /\ done.back = mv.back
          /\ done.changes = mv.changes
      BY <3>4, <1>2 DEF MvType
    <3> QED BY <3>1, <3>2, <3>3, <3>5, <3>6
  \* What is moved without a swap is allowed, and within what was asked for.
  <2>11. ~r.did_swap => moved <= Allowed
    <3>1. taken.count \in Nat
      BY StackIs
    <3> QED BY <3>1, <2>5, <2>7, <2>9, <1>5
  <2>12. r.did_swap => mv.swap
    BY <2>7
  <2>13. ~SameList(act) /\ ~mv.swap /\ act.count > 0 => moved <= mv.count /\ mv.total + moved <= act.count
    <3> SUFFICES ASSUME ~SameList(act), ~mv.swap, act.count > 0
                 PROVE  moved <= mv.count /\ mv.total + moved <= act.count
      OBVIOUS
    <3>1. mv.count > 0 /\ (mv.move_count <= mv.count \/ mv.src = 0)
      BY <1>1, <1>4 DEF LimitsInv, Amounts
    <3>2. mv.src # 0
      BY <1>5, <1>7 DEF Infinite
    <3>3. moved <= Allowed
      BY <2>11, <2>12
    <3> QED BY <3>1, <3>2, <3>3, <1>3, <1>4, <1>5
  <2>14. mv.swap => ~caused_by_move_somewhere
    BY <1>2 DEF LimitsInv, SwapStands
  <2>15. act.type = "MoveSomewhere" /\ ~SameList(act) =>
           moved <= mv.count /\ (mv.total + moved) + (mv.count - moved) <= act.count
    BY <2>13, <2>14, <1>3, <1>4 DEF caused_by_move_somewhere
  <2>16. CASE caused_by_move_somewhere /\ r.moved = Empty
    BY <2>4, <2>8, <2>10, <2>15, <2>16, <1>1, <1>2, ReturnLimits
  <2>17. CASE ~(caused_by_move_somewhere /\ r.moved = Empty)
    <3>1. pc' = "report" /\ mv' = done /\ act' = act
      BY <2>4, <2>17
    <3>2. Stocked'
      BY <3>1, <2>4, <2>8, <2>10, <1>1, <1>2 DEF Stocked, Dropping
    <3>3. Phases' /\ SwapStands' /\ SwapAllowed'
      <4>1. act.type = "MoveSomewhere" => done.to[1] = act.to_list
        BY <2>10, <1>2 DEF LimitsInv, Phases
      <4>2. pc' \notin Asked /\ pc' \notin SwapAsked \cup {"move"} \cup Across \cup {"allowMove", "allowMoveBack"}
        BY <3>1 DEF Asked, FirstAsked, SwapAsked, Across
      <4> QED BY <4>1, <4>2, <3>1 DEF Phases, SwapStands, SwapAllowed
    <3>4. Amounts'
      BY <3>1, <2>10, <2>15 DEF Amounts, Asked, FirstAsked, SwapAsked
    <3>5. (WithinOne' <=> WithinOne) /\ (caused_by_move_somewhere' <=> caused_by_move_somewhere)
      BY <3>1, <2>10 DEF WithinOne, caused_by_move_somewhere
    <3>6. Unchanged => (mv.swap <=> r.did_swap)
      <4>1. Unchanged /\ mv.swap => Fitting(inv[mv.to], taken) = 0
        BY <2>5, <1>2, <1>3, NoRoomForPart DEF LimitsInv, SwapStands
      <4> QED BY <4>1, <2>7
    <3>7. ASSUME r.did_swap, Unchanged
          PROVE  /\ Allows(mv.src, moved) /\ (~WithinOne => Allows(mv.dst, moved))
                 /\ mv.back # {} /\ \A n \in mv.back : Allows(n, mv.swap_item.count)
                 /\ mv.swap_item = inv[mv.to]
      <4>1. mv.swap /\ mv.move_count = moved
        BY <3>7, <2>7, <2>9, <1>2 DEF LimitsInv, SwapStands
      <4> QED BY <4>1, <3>7, <1>1 DEF LimitsInv, SwapAllowed
    <3>8. ~r.did_swap => Allows(mv.src, moved) /\ Allows(mv.dst, moved)
      <4>1. mv.src \in Nat \cup {Infinite} /\ mv.dst \in Nat \cup {Infinite}
        BY <1>2 DEF MvType
      <4> QED BY <4>1, <2>11, <1>5 DEF Allows
    <3>9. ASSUME r.did_swap, Unchanged, mv.src # Infinite, mv.dst # Infinite \/ WithinOne
          PROVE  \A n \in mv.back : Allows(n, done.swap_item.count)
      <4>1. CASE mv.dst = Infinite
        <5>1. done.swap_item.count = 0
          BY <3>9, <4>1, <2>8, <2>10 DEF Empty
        <5>2. \A n \in mv.back : n \in Nat \cup {Infinite}
          BY <1>2, AnswersAre DEF MvType
        <5> QED BY <5>1, <5>2 DEF Allows
      <4>2. CASE mv.dst # Infinite
        <5>1. now[act.from] = inv[mv.to]
          BY <3>9, <4>2, <2>7, <2>8, <1>2, <1>3 DEF Stock
        <5> QED BY <5>1, <3>7, <3>9, <2>10
      <4> QED BY <4>1, <4>2
    <3>10. Within'
      <4>1. Unchanged' <=> Unchanged
        BY <3>1, <2>10, <1>1 DEF Unchanged
      <4>2. ~SameList(act) /\ act.count > 0 /\ ~mv.swap => mv.total + moved <= act.count
        BY <2>13
      <4> DEFINE agreed == IF r.did_swap /\ WithinOne THEN {mv.src} ELSE {mv.src, mv.dst}
                 covers(n, stack) == n = Infinite \/ n >= stack.count
      <4>3. (r.did_swap => Unchanged) => \A n \in agreed : covers(n, r.moved)
        BY <3>7, <3>8, <2>9 DEF Allows
      <4>4. r.did_swap /\ Unchanged /\ Infinite \notin agreed =>
              mv.back # {} /\ \A n \in mv.back : covers(n, done.swap_item)
        BY <3>7, <3>9 DEF Allows
      <4> QED BY <4>1, <4>2, <4>3, <4>4, <3>1, <3>5, <3>6, <2>10, <2>12, <2>14 DEF Within, WithinLimits, Unchanged
    <3> QED BY <3>2, <3>3, <3>4, <3>10 DEF LimitsInv
  <2> QED BY <2>16, <2>17
<1> QED BY <1>6, <1>7

LEMMA ReportMoveLimits ==
    ASSUME LimitsInv, ReportMove
    PROVE  LimitsInv'
<1>1. pc = "report" /\ toServer' = toServer /\ Return(mv) /\ \E now : Callback(now) /\ inv' = now
  BY DEF ReportMove, Unlocked, SetInv
<1>2. Stocked /\ act \in Moves /\ mv \in MvType
  BY <1>1 DEF LimitsInv, Stocked
<1>3. inv' \in Stock /\ changes' \in Nat
  BY <1>1, <1>2, CallbackIs
<1>4. act.type = "MoveSomewhere" /\ ~SameList(act) =>
        mv.move_count <= mv.count /\ mv.total + (mv.count - mv.move_count) <= act.count
  BY <1>1 DEF LimitsInv, Amounts
<1> QED BY <1>1, <1>2, <1>3, <1>4, ReturnLimits

\* Drops and crafts only need to leave stacks behind.
LEMMA StillElsewhere ==
    ASSUME Stocked, pc' \in {"allowDrop", "onDrop", "craft", "replacements"}, toServer' = toServer,
           pc' \in Dropping => pc \in Dropping /\ act' = act,
           inv' \in Stock, mv' \in MvType, changes' \in Nat
    PROVE  LimitsInv'
<1>1. Stocked'
  BY DEF Stocked, Asked, FirstAsked, SwapAsked, Dropping
<1>2. pc' \notin Asked \cup {"apply", "somewhere", "report"}
  BY DEF Asked, FirstAsked, SwapAsked
<1> QED BY <1>1, <1>2 DEF LimitsInv, Phases, Amounts, SwapStands, SwapAllowed, Within, WithinLimits, FirstAsked,
                         SwapAsked, Asked, Across

LEMMA DropLimits ==
    ASSUME LimitsInv, BeginDrop \/ allowDrop \/ onDrop
    PROVE  LimitsInv'
<1>1. Stocked /\ pc \in Dropping /\ act \in Drop /\ mv \in MvType /\ inv \in Stock /\ toServer' = toServer
      /\ changes \in Nat
  BY DEF BeginDrop, allowDrop, onDrop, Unlocked, LimitsInv, Stocked, Dropping
<1>2. act.from \in Slots /\ act.count \in Nat /\ inv[act.from] \in Stack
  BY <1>1, InventoriesAssumption DEF Drop, Stock
<1>3. CASE BeginDrop
  <2>1. inv' = inv /\ changes' = changes
    BY <1>3 DEF BeginDrop, serverVars
  <2>2. CASE inv[act.from] = Empty
    BY <2>1, <2>2, <1>1, <1>3, EndLimits DEF BeginDrop, End
  <2>3. CASE inv[act.from] # Empty
    <3>1. PICK n \in Nat : n = Wanted(inv[act.from], act.count).count
      BY <1>2, WantedIs, StackIs
    <3>2. pc' = "allowDrop" /\ mv' = [mv EXCEPT !.move_count = n] /\ act' = act
      BY <3>1, <2>3, <1>3 DEF BeginDrop
    <3>3. mv' \in MvType
      BY <3>2, <1>1 DEF MvType
    <3> QED BY <3>2, <3>3, <2>1, <1>1, StillElsewhere
  <2> QED BY <2>2, <2>3
<1>4. CASE allowDrop
  <2>1. PICK now \in ModsLeave, n \in Answers :
          /\ Callback(now) /\ inv' = now
          /\ LET count == IF n = Infinite THEN mv.move_count ELSE Limit(n, mv.move_count) IN
             IF count = 0 THEN End
             ELSE /\ pc' = "onDrop"
                  /\ mv' = [mv EXCEPT !.src = n, !.move_count = count, !.src_item = now[act.from]]
                  /\ act' = act
    BY <1>4 DEF allowDrop
  <2>2. now \in Stock /\ changes' \in Nat
    BY <2>1, <1>1, CallbackIs
  <2>3. n \in Nat \cup {Infinite}
    BY AnswersAre
  <2>4. PICK count \in Nat : count = IF n = Infinite THEN mv.move_count ELSE Limit(n, mv.move_count)
    BY <2>3, <1>1 DEF MvType, Limit
  <2>5. CASE End
    BY <2>1, <2>2, <2>5, <1>1, EndLimits DEF End
  <2>6. CASE ~End
    <3>1. pc' = "onDrop" /\ act' = act
          /\ mv' = [mv EXCEPT !.src = n, !.move_count = count, !.src_item = now[act.from]]
      BY <2>1, <2>4, <2>6
    <3>2. now[act.from] \in Stack
      BY <2>2, <1>2 DEF Stock
    <3>3. mv' \in MvType
      BY <3>1, <3>2, <2>3, <1>1 DEF MvType
    <3> QED BY <3>1, <3>3, <2>1, <2>2, <1>1, StillElsewhere
  <2> QED BY <2>5, <2>6
<1>5. CASE onDrop
  <2>1. PICK now \in ModsLeave, dropped \in 0 .. mv.move_count :
          /\ Callback(now)
          /\ inv' = IF mv.src = Infinite \/ dropped = 0 THEN now
                    ELSE [now EXCEPT ![act.from] = Left(@, dropped)]
    BY <1>5 DEF onDrop
  <2>2. now \in Stock /\ changes' \in Nat
    BY <2>1, <1>1, CallbackIs
  <2>3. dropped \in Nat
    BY <1>1 DEF MvType
  <2>4. Left(now[act.from], dropped) \in Stack
    <3>1. now[act.from] \in Stack
      BY <2>2, <1>2 DEF Stock
    <3> QED BY <3>1, <2>3, TakenIs
  <2>5. inv' \in Stock
    BY <2>1, <2>2, <2>4 DEF Stock
  <2>6. pc' = "idle" /\ mv' = NoMove
    BY <1>5 DEF onDrop, End
  <2> QED BY <2>2, <2>5, <2>6, <1>1, EndLimits
<1> QED BY <1>3, <1>4, <1>5

LEMMA CraftSlots == Grid \in Slots /\ Result \in Slots /\ Grid # Result /\ "main" \in Lists
BY InventoriesAssumption DEF Grid, Result, Slots, PlayerLists

LEMMA CraftStacks ==
    /\ Crafted \in Stack /\ Crafted.count = 1 /\ Crafted.name = Recipe.output /\ Recipe.output \in Items
    /\ Replacement \in Stack /\ (Replacement # Empty => Replacement.name = Recipe.replacement
                                                        /\ Recipe.replacement \in Items /\ Replacement.count = 1)
<1>1. Recipe.output \in Items /\ Recipe.replacement \in Items \cup {NoItem}
  BY InventoriesAssumption
<1>2. Empty \in Stack
  BY DEF Stack
<1> QED BY <1>1, <1>2, OfIs DEF Crafted, Replacement

LEMMA CraftLimits ==
    ASSUME LimitsInv, CraftOnce \/ CraftEnds \/ GiveReplacements
    PROVE  LimitsInv'
<1>1. Stocked /\ mv \in MvType /\ inv \in Stock /\ toServer' = toServer /\ changes' \in Nat
  BY DEF CraftOnce, CraftEnds, GiveReplacements, Unlocked, LimitsInv, Stocked, serverVars
<1>2. CASE CraftOnce
  <2>1. PICK last \in BOOLEAN : last = (inv[Grid].count = 1)
    OBVIOUS
  <2>2. /\ inv' = [inv EXCEPT ![Grid] = IF last THEN Replacement ELSE Left(@, 1),
                              ![Result] = Added(@, Crafted)]
        /\ mv' = [mv EXCEPT !.count = IF @ > 1 THEN @ - 1 ELSE @,
                            !.swap_item = IF last \/ Replacement = Empty THEN @
                                          ELSE Of(Replacement.name, @.count + 1)]
        /\ pc' = IF mv.count = 1 THEN "replacements" ELSE "craft"
    BY <2>1, <1>2 DEF CraftOnce, SetInv
  <2>3. inv[Grid] \in Stack /\ inv[Result] \in Stack
    BY <1>1, CraftSlots DEF Stock
  <2>4. Left(inv[Grid], 1) \in Stack /\ Added(inv[Result], Crafted) \in Stack
    BY <2>3, CraftStacks, TakenIs, AddedIs
  <2>5. inv' \in Stock
    BY <2>2, <2>4, <1>1, CraftStacks DEF Stock
  <2>6. PICK n \in Nat : n = IF mv.count > 1 THEN mv.count - 1 ELSE mv.count
    BY <1>1 DEF MvType
  <2>7. PICK item \in Stack : item = IF last \/ Replacement = Empty THEN mv.swap_item
                                     ELSE Of(Replacement.name, mv.swap_item.count + 1)
    <3>1. mv.swap_item \in Stack /\ mv.swap_item.count + 1 \in Nat
      BY <1>1, StackIs DEF MvType
    <3> QED BY <3>1, CraftStacks, OfIs
  <2>8. mv' = [mv EXCEPT !.count = n, !.swap_item = item]
    BY <2>2, <2>6, <2>7
  <2>9. mv' \in MvType
    BY <2>8, <1>1 DEF MvType
  <2>10. pc' \in {"craft", "replacements"}
    BY <2>2
  <2> QED BY <2>5, <2>9, <2>10, <1>1, StillElsewhere DEF Dropping
<1>3. CASE CraftEnds
  <2>1. pc' = "replacements" /\ inv' = inv /\ mv' = mv
    BY <1>3 DEF CraftEnds, serverVars
  <2> QED BY <2>1, <1>1, StillElsewhere DEF Dropping
<1>4. CASE GiveReplacements
  <2>1. pc' = "idle" /\ mv' = NoMove /\ inv' = AddedToList(inv, "main", mv.swap_item).stacks
    BY <1>4 DEF GiveReplacements, End, SetInv
  <2>2. inv' \in Stock
    BY <2>1, <1>1, CraftSlots, AddedToListStock DEF MvType
  <2> QED BY <2>1, <2>2, <1>1, EndLimits
<1> QED BY <1>2, <1>3, <1>4

LEMMA StepKeepsLimits == LimitsInv /\ [Next]_vars => LimitsInv'
<1> SUFFICES ASSUME LimitsInv, [Next]_vars PROVE LimitsInv'
  OBVIOUS
<1>1. CASE \E a \in Actions : inventoryAction(a)
  BY <1>1, ActionLimits
<1>2. CASE ReceiveInventory \/ RevertPrediction \/ ModsChange \/ SendInventory
  BY <1>2, OtherIdleLimits
<1>3. CASE handleCommand_InventoryAction
  BY <1>3, TakeLimits
<1>4. CASE MoveToNextSlot
  BY <1>4, NextSlotLimits
<1>5. CASE BeginMove
  BY <1>5, BeginMoveLimits
<1>6. CASE allowMove
  BY <1>6, AllowMoveLimits
<1>7. CASE allowMoveBack
  BY <1>7, AllowMoveBackLimits
<1>8. CASE allowPut
  BY <1>8, AllowPutLimits
<1>9. CASE allowTake
  BY <1>9, AllowTakeLimits
<1>10. CASE allowBack("allowPutBack", "allowTakeBack") \/ allowBack("allowTakeBack", "move")
  BY <1>10, AllowBackLimits
<1>11. CASE PerformMove
  BY <1>11, PerformMoveLimits
<1>12. CASE ReportMove
  BY <1>12, ReportMoveLimits
<1>13. CASE BeginDrop \/ allowDrop \/ onDrop
  BY <1>13, DropLimits
<1>14. CASE CraftOnce \/ CraftEnds \/ GiveReplacements
  BY <1>14, CraftLimits
<1>15. CASE UNCHANGED vars
  <2>1. UNCHANGED <<inv, mv, changes, toServer, pc, act>>
    BY <1>15 DEF vars, serverVars
  <2>2. Stocked' /\ Phases' /\ Amounts'
    BY <2>1 DEF LimitsInv, Stocked, Phases, Amounts, WithinOne
  <2>3. SwapStands' /\ SwapAllowed' /\ Within'
    BY <2>1 DEF LimitsInv, SwapStands, SwapAllowed, Within, WithinLimits, WithinOne, Unchanged, caused_by_move_somewhere
  <2> QED BY <2>2, <2>3 DEF LimitsInv
<1> QED BY <1>1, <1>2, <1>3, <1>4, <1>5, <1>6, <1>7, <1>8, <1>9, <1>10, <1>11, <1>12, <1>13, <1>14, <1>15
    DEF Next

\* What a move has taken is what every callback agreed to, for a swap both
\* stacks unless a callback itself has changed them meanwhile, and all parts
\* of a "move somewhere" together are no more than was asked for.  A "move
\* somewhere" within one list is left out: there the code does not tell the
\* source from the slots it fills.
THEOREM LimitsAreKept == "same list" \notin Races => (Spec => []WithinLimits)
<1> SUFFICES ASSUME "same list" \notin Races PROVE Spec => []WithinLimits
  OBVIOUS
<1>1. LimitsInv => WithinLimits
  <2>1. LimitsInv /\ pc = "report" => act \in Requests
    BY DEF LimitsInv, Stocked, Moves
  <2>2. LimitsInv /\ pc = "report" => ~SameList(act)
    BY <2>1 DEF Requests
  <2>3. pc # "report" => WithinLimits
    BY DEF WithinLimits
  <2> QED BY <2>2, <2>3 DEF LimitsInv, Within
<1> QED BY InitLimits, StepKeepsLimits, <1>1, PTL DEF Spec

-----------------------------------------------------------------------------
(* The books of mods.                                                      *)

Amount(st, x) == IF st.name = x THEN st.count ELSE 0
SlotsIn(i) == {s \in Slots : InventoryOf(s) = i}

LEMMA AmountIs ==
    ASSUME NEW st \in Stack, NEW x \in Items
    PROVE  /\ Amount(st, x) \in Nat /\ Amount(Empty, x) = 0
           /\ st.name # x => Amount(st, x) = 0
           /\ st.name = x => Amount(st, x) = st.count
BY StackIs, InventoriesAssumption DEF Amount, Empty

LEMMA HoldingIs ==
    ASSUME NEW stacks, NEW i, NEW x
    PROVE  Holding(stacks, i, x) = Total([s \in SlotsIn(i) |-> Amount(stacks[s], x)], SlotsIn(i))
<1> DEFINE S == SlotsIn(i)
           g == [s \in S |-> Amount(stacks[s], x)]
           Rec(h) == h = [s \in SUBSET S |->
                            IF s = {} THEN 0
                            ELSE (IF stacks[Chosen(s)].name = x THEN stacks[Chosen(s)].count ELSE 0)
                                 + h[s \ {Chosen(s)}]]
           k == CHOOSE h : Rec(h)
<1>1. Holding(stacks, i, x) = k[S]
  BY DEF Holding, MapThenSumSet, MapThenFoldSet, Chosen, SlotsIn
<1>2. ASSUME NEW h PROVE Rec(h) <=> IsSum(h, g, S)
  <2>1. \A s \in SUBSET S : s # {} =>
          g[Chosen(s)] = IF stacks[Chosen(s)].name = x THEN stacks[Chosen(s)].count ELSE 0
    BY ChosenIn DEF Amount
  <2>2. [s \in SUBSET S |-> IF s = {} THEN 0
                            ELSE (IF stacks[Chosen(s)].name = x THEN stacks[Chosen(s)].count ELSE 0)
                                 + h[s \ {Chosen(s)}]]
        = [s \in SUBSET S |-> IF s = {} THEN 0 ELSE g[Chosen(s)] + h[s \ {Chosen(s)}]]
    <3> HIDE DEF g, S
    <3> QED BY <2>1
  <2> HIDE DEF g, S
  <2> QED BY <2>2 DEF IsSum
<1>3. IsFiniteSet(S)
  BY SlotsFinite, FS_Subset DEF SlotsIn
<1>4. \E h : Rec(h)
  <2> HIDE DEF Rec, g, S
  <2> QED BY <1>2, <1>3, SumExists
<1>5. IsSum(k, g, S)
  <2>1. Rec(k)
    <3> HIDE DEF Rec
    <3> QED BY <1>4
  <2> HIDE DEF Rec, g, k
  <2> QED BY <1>2, <2>1
<1> HIDE DEF g, k
<1>6. k[S] = Total(g, S)
  BY <1>3, <1>5, TotalIs
<1> QED BY <1>1, <1>6 DEF g

LEMMA HoldingType == ASSUME NEW stacks \in Stock, NEW i, NEW x \in Items PROVE Holding(stacks, i, x) \in Nat
<1> PICK g : g = [s \in SlotsIn(i) |-> Amount(stacks[s], x)]
  OBVIOUS
<1>1. \A s \in SlotsIn(i) : g[s] \in Nat
  BY AmountIs DEF SlotsIn, Stock
<1>2. IsFiniteSet(SlotsIn(i))
  BY SlotsFinite, FS_Subset DEF SlotsIn
<1>3. Total(g, SlotsIn(i)) \in Nat
  BY <1>1, <1>2, TotalType
<1> QED BY <1>3, HoldingIs

LEMMA HoldingSame ==
    ASSUME NEW old \in Stock, NEW new \in Stock, NEW i, NEW x \in Items,
           \A s \in Slots : InventoryOf(s) = i => Amount(new[s], x) = Amount(old[s], x)
    PROVE  Holding(new, i, x) = Holding(old, i, x)
<1> PICK g : g = [s \in SlotsIn(i) |-> Amount(old[s], x)]
  OBVIOUS
<1> PICK f : f = [s \in SlotsIn(i) |-> Amount(new[s], x)]
  OBVIOUS
<1>1. \A s \in SlotsIn(i) : f[s] = g[s]
  BY DEF SlotsIn
<1>2. IsFiniteSet(SlotsIn(i))
  BY SlotsFinite, FS_Subset DEF SlotsIn
<1>3. Total(f, SlotsIn(i)) = Total(g, SlotsIn(i))
  BY <1>1, <1>2, TotalSame
<1> QED BY <1>3, HoldingIs

\* What one slot more or less makes.
Gain(s, i, n) == IF InventoryOf(s) = i THEN n ELSE 0

LEMMA HoldingChange ==
    ASSUME NEW old \in Stock, NEW new \in Stock, NEW i, NEW x \in Items, NEW s \in Slots,
           \A t \in Slots \ {s} : Amount(new[t], x) = Amount(old[t], x)
    PROVE  Holding(new, i, x) = Holding(old, i, x) + Gain(s, i, Amount(new[s], x) - Amount(old[s], x))
<1>1. CASE InventoryOf(s) # i
  <2>1. Holding(new, i, x) = Holding(old, i, x)
    BY <1>1, HoldingSame
  <2> QED BY <2>1, <1>1, HoldingType DEF Gain
<1>2. CASE InventoryOf(s) = i
  <2> PICK g : g = [t \in SlotsIn(i) |-> Amount(old[t], x)]
    OBVIOUS
  <2> PICK f : f = [t \in SlotsIn(i) |-> Amount(new[t], x)]
    OBVIOUS
  <2>1. \A t \in SlotsIn(i) : f[t] \in Int /\ g[t] \in Int
    <3>1. \A t \in Slots : Amount(old[t], x) \in Nat /\ Amount(new[t], x) \in Nat
      BY AmountIs DEF Stock
    <3> QED BY <3>1 DEF SlotsIn
  <2>2. \A t \in SlotsIn(i) \ {s} : f[t] = g[t]
    BY DEF SlotsIn
  <2>3. IsFiniteSet(SlotsIn(i)) /\ s \in SlotsIn(i)
    BY <1>2, SlotsFinite, FS_Subset DEF SlotsIn
  <2>4. Total(f, SlotsIn(i)) = Total(g, SlotsIn(i)) - g[s] + f[s]
    BY <2>1, <2>2, <2>3, TotalChange
  <2>5. f[s] = Amount(new[s], x) /\ g[s] = Amount(old[s], x)
    BY <2>3
  <2>6. Holding(new, i, x) = Total(f, SlotsIn(i)) /\ Holding(old, i, x) = Total(g, SlotsIn(i))
    BY HoldingIs
  <2>7. Holding(old, i, x) \in Nat /\ Amount(new[s], x) \in Nat /\ Amount(old[s], x) \in Nat
    BY HoldingType, AmountIs DEF Stock
  <2> QED BY <2>4, <2>5, <2>6, <2>7, <1>2 DEF Gain
<1> QED BY <1>1, <1>2

LEMMA HoldingChangeTwo ==
    ASSUME NEW old \in Stock, NEW new \in Stock, NEW i, NEW x \in Items,
           NEW s \in Slots, NEW t \in Slots, s # t,
           \A u \in Slots \ {s, t} : Amount(new[u], x) = Amount(old[u], x)
    PROVE  Holding(new, i, x) = Holding(old, i, x) + Gain(s, i, Amount(new[s], x) - Amount(old[s], x))
                                                   + Gain(t, i, Amount(new[t], x) - Amount(old[t], x))
<1> PICK half : half = [old EXCEPT ![s] = new[s]]
  OBVIOUS
<1>1. half \in Stock /\ half[s] = new[s] /\ half[t] = old[t]
      /\ \A u \in Slots \ {s} : half[u] = old[u]
  BY DEF Stock
<1>2. Holding(half, i, x) = Holding(old, i, x) + Gain(s, i, Amount(half[s], x) - Amount(old[s], x))
  <2>1. half \in Stock /\ \A u \in Slots \ {s} : Amount(half[u], x) = Amount(old[u], x)
    BY <1>1
  <2> QED BY ONLY <2>1, old \in Stock, x \in Items, s \in Slots, HoldingChange
<1>3. \A u \in Slots \ {t} : Amount(new[u], x) = Amount(half[u], x)
  BY <1>1
<1>4. Holding(new, i, x) = Holding(half, i, x) + Gain(t, i, Amount(new[t], x) - Amount(half[t], x))
  BY ONLY <1>1, <1>3, new \in Stock, x \in Items, t \in Slots, HoldingChange
<1> QED BY <1>1, <1>2, <1>4

Books == [Inventory -> [Items -> Int]]

LEMMA InventoryIs == ASSUME NEW s PROVE InventoryOf(s) \in Inventory
BY DEF InventoryOf, Inventory

LEMMA BookingIs ==
    ASSUME NEW b \in Books, NEW i \in Inventory, NEW name \in Items \cup {NoItem}, NEW n \in Int
    PROVE  /\ Booking(b, i, name, n) \in Books
           /\ \A j \in Inventory, x \in Items :
                Booking(b, i, name, n)[j][x] = b[j][x] + IF i = j /\ name = x THEN n ELSE 0
<1>1. \A j \in Inventory, x \in Items : b[j][x] \in Int
  BY DEF Books
<1>2. CASE name = NoItem
  <2>1. Booking(b, i, name, n) = b /\ \A x \in Items : name # x
    BY <1>2, InventoriesAssumption DEF Booking
  <2> QED BY <2>1, <1>1
<1>3. CASE name \in Items
  <2>1. Booking(b, i, name, n) = [b EXCEPT ![i][name] = @ + n]
    BY <1>3, InventoriesAssumption DEF Booking
  <2>2. b[i][name] + n \in Int
    BY <1>1, <1>3
  <2>3. [b[i] EXCEPT ![name] = @ + n] \in [Items -> Int]
    BY <2>2 DEF Books
  <2>4. Booking(b, i, name, n) \in Books
    BY <2>1, <2>3 DEF Books
  <2>5. ASSUME NEW j \in Inventory, NEW x \in Items
        PROVE  Booking(b, i, name, n)[j][x] = b[j][x] + IF i = j /\ name = x THEN n ELSE 0
    <3>1. Booking(b, i, name, n)[j][x] = IF i = j /\ name = x THEN b[j][x] + n ELSE b[j][x]
      BY <2>1 DEF Books
    <3> QED BY <3>1, <1>1
  <2> QED BY <2>4, <2>5
<1> QED BY <1>2, <1>3

\* A stack that comes to a slot, and one that goes.
LEMMA BookIn ==
    ASSUME NEW b \in Books, NEW s \in Slots, NEW st \in Stack
    PROVE  /\ Booking(b, InventoryOf(s), st.name, st.count) \in Books
           /\ \A j \in Inventory, x \in Items :
                Booking(b, InventoryOf(s), st.name, st.count)[j][x] = b[j][x] + Gain(s, j, Amount(st, x))
<1>1. PICK i \in Inventory, name \in Items \cup {NoItem}, n \in Int :
        i = InventoryOf(s) /\ name = st.name /\ n = st.count
  BY StackIs, InventoryIs
<1>2. PICK r : r = Booking(b, i, name, n)
  OBVIOUS
<1>3. r \in Books /\ \A j \in Inventory, x \in Items : r[j][x] = b[j][x] + IF i = j /\ name = x THEN n ELSE 0
  BY <1>2, BookingIs
<1>4. \A j, x : Gain(s, j, Amount(st, x)) = IF i = j /\ name = x THEN n ELSE 0
  BY <1>1 DEF Gain, Amount
<1> QED BY <1>1, <1>2, <1>3, <1>4

LEMMA BookOut ==
    ASSUME NEW b \in Books, NEW s \in Slots, NEW st \in Stack
    PROVE  /\ Booking(b, InventoryOf(s), st.name, - st.count) \in Books
           /\ \A j \in Inventory, x \in Items :
                Booking(b, InventoryOf(s), st.name, - st.count)[j][x] = b[j][x] - Gain(s, j, Amount(st, x))
<1>1. st.count \in Nat
  BY StackIs
<1>2. PICK i \in Inventory, name \in Items \cup {NoItem}, n \in Int :
        i = InventoryOf(s) /\ name = st.name /\ n = - st.count
  BY <1>1, StackIs, InventoryIs
<1>3. PICK r : r = Booking(b, i, name, n)
  OBVIOUS
<1>4. r \in Books /\ \A j \in Inventory, x \in Items : r[j][x] = b[j][x] + IF i = j /\ name = x THEN n ELSE 0
  BY <1>3, BookingIs
<1>5. ASSUME NEW j \in Inventory, NEW x \in Items
      PROVE  b[j][x] - Gain(s, j, Amount(st, x)) = b[j][x] + IF i = j /\ name = x THEN n ELSE 0
  <2>1. b[j][x] \in Int
    BY DEF Books
  <2> QED BY <2>1, <1>1, <1>2 DEF Gain, Amount
<1> QED BY <1>2, <1>3, <1>4, <1>5

\* What a callback changes is booked.
LEMMA ChangesBooked ==
    ASSUME inv \in Stock, NEW now \in ModsLeave, NEW b \in Books
    PROVE  /\ BookedChanges(b, now) \in Books /\ now \in Stock
           /\ \A j \in Inventory, x \in Items :
                BookedChanges(b, now)[j][x] = b[j][x] + Holding(now, j, x) - Holding(inv, j, x)
<1>1. \A j \in Inventory, x \in Items : b[j][x] \in Int /\ Holding(inv, j, x) \in Nat
  BY HoldingType DEF Books
<1>2. CASE now = inv
  BY <1>1, <1>2 DEF BookedChanges
<1>3. CASE now # inv
  <2>1. PICK s \in Slots, st \in ModStacks : now = [inv EXCEPT ![s] = st]
    BY <1>3 DEF ModsLeave
  <2>2. now \in Stock /\ now[s] = st /\ (\A t \in Slots \ {s} : now[t] = inv[t]) /\ st \in Stack
    BY <2>1, StacksAssumption DEF Stock
  <2>3. now[s] # inv[s]
    <3> SUFFICES ASSUME now[s] = inv[s] PROVE now = inv
      BY <1>3
    <3> QED BY <2>1, <2>2 DEF Stock
  <2>4. (CHOOSE u \in Slots : now[u] # inv[u]) = s
    BY <2>2, <2>3
  <2> DEFINE out == Booking(b, InventoryOf(s), inv[s].name, - inv[s].count)
  <2>5. BookedChanges(b, now) = Booking(out, InventoryOf(s), st.name, st.count)
    BY <2>2, <2>4, <1>3 DEF BookedChanges
  <2>6. inv[s] \in Stack
    BY DEF Stock
  <2>7. out \in Books /\ \A j \in Inventory, x \in Items : out[j][x] = b[j][x] - Gain(s, j, Amount(inv[s], x))
    BY <2>6, BookOut
  <2> HIDE DEF out
  <2>8. /\ BookedChanges(b, now) \in Books
        /\ \A j \in Inventory, x \in Items : BookedChanges(b, now)[j][x] = out[j][x] + Gain(s, j, Amount(st, x))
    BY <2>2, <2>5, <2>7, BookIn
  <2>9. ASSUME NEW j \in Inventory, NEW x \in Items
        PROVE  BookedChanges(b, now)[j][x] = b[j][x] + Holding(now, j, x) - Holding(inv, j, x)
    <3>1. Holding(now, j, x) = Holding(inv, j, x) + Gain(s, j, Amount(st, x) - Amount(inv[s], x))
      <4>1. \A t \in Slots \ {s} : Amount(now[t], x) = Amount(inv[t], x)
        BY <2>2
      <4> QED BY ONLY <4>1, <2>2, inv \in Stock, x \in Items, s \in Slots, HoldingChange
    <3>2. Amount(st, x) \in Nat /\ Amount(inv[s], x) \in Nat
      BY <2>2, <2>6, AmountIs
    <3> QED BY <3>1, <3>2, <2>7, <2>8, <1>1 DEF Gain
  <2> QED BY <2>2, <2>8, <2>9
<1> QED BY <1>2, <1>3

\* What mods know, and what waits for the end of a craft.
Ledger == IF pc = "report" THEN Told ELSE booked
Waiting(i, x) == IF pc \in {"craft", "replacements"} /\ i = "player" THEN Amount(mv.swap_item, x) ELSE 0

\* The amount of a drop is that of a stack which is still there, and what
\* waits is one kind of item.
Held ==
    /\ pc \in {"allowDrop", "onDrop"} => mv.move_count <= inv[act.from].count
    /\ pc = "onDrop" => mv.src_item = inv[act.from]
    /\ pc \in {"craft", "replacements"} => mv.swap_item = Empty \/ mv.swap_item.name = Recipe.replacement

Balanced ==
    \A i \in Inventory, x \in Items \ infinite : Holding(inv, i, x) + Waiting(i, x) = Ledger[i][x]

BooksInv == LimitsInv /\ booked \in Books /\ Held /\ Balanced

\* What is said of a move between two inventories: what left the one, what
\* came to the other, and the swap.
ToldOf(b, from, to, moved, swapped) ==
    Booking(Booking(Booking(Booking(b, InventoryOf(from), moved.name, - moved.count),
                            InventoryOf(to), moved.name, moved.count),
                    InventoryOf(to), swapped.name, - swapped.count),
            InventoryOf(from), swapped.name, swapped.count)

LEMMA ToldIs ==
    ASSUME NEW b \in Books, NEW from \in Slots, NEW to \in Slots, NEW moved \in Stack, NEW swapped \in Stack
    PROVE  /\ ToldOf(b, from, to, moved, swapped) \in Books
           /\ \A j \in Inventory, x \in Items :
                ToldOf(b, from, to, moved, swapped)[j][x] =
                  b[j][x] + Gain(from, j, Amount(swapped, x) - Amount(moved, x))
                          + Gain(to, j, Amount(moved, x) - Amount(swapped, x))
<1> DEFINE one == Booking(b, InventoryOf(from), moved.name, - moved.count)
           two == Booking(one, InventoryOf(to), moved.name, moved.count)
           three == Booking(two, InventoryOf(to), swapped.name, - swapped.count)
           four == Booking(three, InventoryOf(from), swapped.name, swapped.count)
<1>1. ToldOf(b, from, to, moved, swapped) = four
  BY DEF ToldOf
<1>2. one \in Books /\ \A j \in Inventory, x \in Items : one[j][x] = b[j][x] - Gain(from, j, Amount(moved, x))
  BY BookOut
<1> HIDE DEF one
<1>3. two \in Books /\ \A j \in Inventory, x \in Items : two[j][x] = one[j][x] + Gain(to, j, Amount(moved, x))
  BY <1>2, BookIn
<1> HIDE DEF two
<1>4. three \in Books /\ \A j \in Inventory, x \in Items : three[j][x] = two[j][x] - Gain(to, j, Amount(swapped, x))
  BY <1>3, BookOut
<1> HIDE DEF three
<1>5. four \in Books /\ \A j \in Inventory, x \in Items : four[j][x] = three[j][x] + Gain(from, j, Amount(swapped, x))
  BY <1>4, BookIn
<1> HIDE DEF four
<1>6. ASSUME NEW j \in Inventory, NEW x \in Items
      PROVE  four[j][x] = b[j][x] + Gain(from, j, Amount(swapped, x) - Amount(moved, x))
                                  + Gain(to, j, Amount(moved, x) - Amount(swapped, x))
  <2>1. /\ b[j][x] \in Int /\ one[j][x] \in Int /\ two[j][x] \in Int /\ three[j][x] \in Int
        /\ Amount(swapped, x) \in Nat /\ Amount(moved, x) \in Nat
    BY <1>2, <1>3, <1>4, AmountIs DEF Books
  <2>2. /\ Gain(from, j, Amount(moved, x)) \in Int /\ Gain(to, j, Amount(moved, x)) \in Int
        /\ Gain(from, j, Amount(swapped, x)) \in Int /\ Gain(to, j, Amount(swapped, x)) \in Int
    BY <2>1 DEF Gain
  <2>3. four[j][x] = b[j][x] - Gain(from, j, Amount(moved, x)) + Gain(to, j, Amount(moved, x))
                             - Gain(to, j, Amount(swapped, x)) + Gain(from, j, Amount(swapped, x))
    BY <1>2, <1>3, <1>4, <1>5, <2>1, <2>2
  <2> QED BY <2>1, <2>3 DEF Gain
<1> QED BY <1>1, <1>5, <1>6

LEMMA ToldNow ==
    /\ Told = IF WithinOne THEN booked ELSE ToldOf(booked, act.from, mv.to, mv.src_item, mv.swap_item)
    /\ Told' = IF WithinOne' THEN booked' ELSE ToldOf(booked', act'.from, mv'.to, mv'.src_item, mv'.swap_item)
BY DEF Told, ToldOf

\* Part of what fits into a slot, no more, is what the slot gains.
LEMMA AddedAmount ==
    ASSUME NEW slot \in Stack, NEW stack \in Stack, NEW n \in Nat, n <= Fitting(slot, stack), NEW x \in Items
    PROVE  /\ Added(slot, Of(stack.name, n)) \in Stack
           /\ Amount(Added(slot, Of(stack.name, n)), x) = Amount(slot, x) + IF stack.name = x THEN n ELSE 0
<1>1. slot.count \in Nat /\ stack.count \in Nat /\ Fitting(slot, stack) \in Nat /\ Fitting(slot, stack) <= stack.count
  BY StackIs, FittingIs
<1>2. n <= stack.count
  BY <1>1
<1>3. PICK part \in Stack : part = Of(stack.name, n) /\ part.count = n /\ (n # 0 => part.name = stack.name)
  BY <1>2, OfPart
<1>4. part = Empty <=> n = 0
  BY <1>3, StackIs
<1>5. PICK new \in Stack : /\ new = Added(slot, part)
                           /\ new.count = slot.count + Fitting(slot, part)
                           /\ new # Empty => new.name = IF slot = Empty THEN part.name ELSE slot.name
  BY AddedIs
<1>6. CASE n = 0
  <2>1. Fitting(slot, part) = 0
    BY <1>4, <1>6 DEF Fitting
  <2>2. new = slot
    <3>1. CASE slot = Empty
      BY <3>1, <1>4, <1>5, <1>6 DEF Added
    <3>2. CASE slot # Empty
      <4>1. new = Of(slot.name, slot.count + 0) /\ slot.count # 0
        BY <3>2, <2>1, <1>5, StackIs DEF Added
      <4>2. slot = [name |-> slot.name, count |-> slot.count]
        BY StackIs
      <4> QED BY <4>1, <4>2, <1>1 DEF Of
    <3> QED BY <3>1, <3>2
  <2>3. Amount(slot, x) \in Nat
    BY AmountIs
  <2> QED BY <2>2, <2>3, <1>3, <1>5, <1>6
<1>7. CASE n # 0
  <2>1. stack # Empty /\ (slot # Empty => slot.name = stack.name) /\ stack.name \in Items
    BY <1>1, <1>7, FittingIs, StackIs
  <2>2. Fitting(slot, part) = n
    <3>1. CASE slot = Empty
      BY <3>1, <1>3, <1>4, <1>7 DEF Fitting
    <3>2. CASE slot # Empty
      <4>1. Fitting(slot, stack) = Limit(stack.count, freeSpace(slot))
        BY <3>2, <2>1 DEF Fitting
      <4>2. Fitting(slot, part) = Limit(n, freeSpace(slot))
        BY <3>2, <2>1, <1>3, <1>4, <1>7 DEF Fitting
      <4>3. freeSpace(slot) \in Nat
        <5>1. StackMax[slot.name] \in Nat
          BY <3>2, <2>1, InventoriesAssumption
        <5> QED BY <5>1, <1>1 DEF freeSpace
      <4> QED BY <4>1, <4>2, <4>3, <1>1 DEF Limit
    <3> QED BY <3>1, <3>2
  <2>3. new.count = slot.count + n /\ new.count # 0
    BY <2>2, <1>1, <1>5, <1>7
  <2>4. new.name = stack.name
    <3>1. new # Empty
      BY <2>3, StackIs
    <3> QED BY <3>1, <2>1, <1>3, <1>5, <1>7
  <2>5. slot = Empty => slot.count = 0
    BY StackIs
  <2>6. Amount(slot, x) = IF stack.name = x THEN slot.count ELSE 0
    <3>1. CASE slot = Empty
      BY <3>1, <2>5, AmountIs
    <3>2. CASE slot # Empty
      BY <3>2, <2>1 DEF Amount
    <3> QED BY <3>1, <3>2
  <2>7. Amount(new, x) = IF stack.name = x THEN slot.count + n ELSE 0
    BY <2>3, <2>4 DEF Amount
  <2> QED BY <2>6, <2>7, <1>1, <1>3, <1>5
<1> QED BY <1>6, <1>7

LEMMA TakenAmount ==
    ASSUME NEW st \in Stack, NEW n \in Nat, n <= st.count, NEW x \in Items
    PROVE  Amount(Left(st, n), x) = Amount(st, x) - IF st.name = x THEN n ELSE 0
<1>1. st.count \in Nat /\ Limit(st.count, n) = n
  BY StackIs DEF Limit
<1>2. PICK rest \in Stack : rest = Left(st, n) /\ rest.count = st.count - n /\ (rest # Empty => rest.name = st.name)
  <2>1. Left(st, n) \in Stack /\ Left(st, n).count = st.count - Limit(st.count, n)
        /\ (Left(st, n) # Empty => Left(st, n).name = st.name)
    BY TakenIs
  <2> QED BY <2>1, <1>1
<1>3. rest = Empty <=> rest.count = 0
  BY StackIs
<1>4. x # NoItem
  BY InventoriesAssumption
<1> QED BY <1>1, <1>2, <1>3, <1>4 DEF Amount, Empty

LEMMA RoomType == ASSUME NEW stacks \in Stock, NEW stack \in Stack, NEW S \in SUBSET Slots
                  PROVE  Room(stacks, stack, S) \in Nat
<1>1. IsFiniteSet(S)
  BY SlotsFinite, FS_Subset
<1>2. PICK g : g = [u \in S |-> Fitting(stacks[u], stack)]
  OBVIOUS
<1>3. \A t \in S : g[t] \in Nat
  BY <1>2, FittingIs DEF Stock
<1>4. Room(stacks, stack, S) = Total(g, S)
  BY <1>1, <1>2, RoomIs
<1> QED BY <1>1, <1>3, <1>4, TotalType

LEMMA RoomAdd ==
    ASSUME NEW stacks \in Stock, NEW stack \in Stack, NEW S \in SUBSET Slots, NEW s \in Slots \ S
    PROVE  Room(stacks, stack, S \cup {s}) = Fitting(stacks[s], stack) + Room(stacks, stack, S)
<1> PICK R \in SUBSET Slots : R = S \cup {s}
  OBVIOUS
<1>1. IsFiniteSet(S) /\ IsFiniteSet(R) /\ R \ {s} = S
  BY SlotsFinite, FS_Subset
<1>2. PICK g : g = [u \in S |-> Fitting(stacks[u], stack)]
  OBVIOUS
<1>3. PICK f : f = [u \in R |-> Fitting(stacks[u], stack)]
  OBVIOUS
<1>4. \A t \in R : f[t] \in Int
  BY <1>3, FittingIs DEF Stock
<1>5. Total(f, R) = f[s] + Total(f, S)
  BY <1>1, <1>4, TotalRemove
<1>6. \A t \in S : f[t] = g[t]
  BY <1>2, <1>3
<1>7. Total(f, S) = Total(g, S)
  BY <1>1, <1>6, TotalSame
<1> QED BY <1>1, <1>2, <1>3, <1>5, <1>7, RoomIs

LEMMA RoomNone == ASSUME NEW stacks, NEW stack PROVE Room(stacks, stack, {}) = 0
<1> PICK g : g = [u \in {} |-> Fitting(stacks[u], stack)]
  OBVIOUS
<1>1. IsFiniteSet({})
  BY FS_EmptySet
<1>2. Total(g, {}) = 0
  BY <1>1, TotalIs
<1> QED BY <1>1, <1>2, RoomIs

\* Of a stack, addItem puts into a list what it has room for, and no more:
\* filling the slots one after the other, in the order they are taken, each
\* gets what the ones before it leave.
LEMMA AddedHolding ==
    ASSUME NEW stacks \in Stock, NEW list \in Lists, NEW stack \in Stack, NEW x \in Items, NEW j
    PROVE  Holding(AddedToList(stacks, list, stack).stacks, j, x) =
             Holding(stacks, j, x)
             + Gain(<<list, 1>>, j, Amount(stack, x) - Amount(AddedToList(stacks, list, stack).leftover, x))
<1> DEFINE all == SlotsOf({list})
           used == {s \in all : stacks[s] # Empty}
           before(s) == {t \in all : \/ t \in used /\ s \notin used
                                     \/ (t \in used <=> s \in used) /\ t[2] < s[2]}
           left(s) == IF Room(stacks, stack, before(s)) > stack.count THEN 0
                      ELSE stack.count - Room(stacks, stack, before(s))
           given(s) == Limit(Fitting(stacks[s], stack), left(s))
           new == [s \in Slots |-> IF s[1] = list THEN Added(stacks[s], Of(stack.name, given(s))) ELSE stacks[s]]
           key(s) == s[2] + IF s \in used THEN 0 ELSE Size[list]
           P(n) == {s \in all : key(s) <= n}
           filled(n) == [s \in Slots |-> IF s \in P(n) THEN new[s] ELSE stacks[s]]
           gain(n) == IF stack.name = x THEN Limit(stack.count, Room(stacks, stack, P(n))) ELSE 0
           Claim(n) == Holding(filled(n), j, x) = Holding(stacks, j, x) + Gain(<<list, 1>>, j, gain(n))
<1>1. AddedToList(stacks, list, stack).stacks = new
      /\ AddedToList(stacks, list, stack).leftover = Left(stack, Room(stacks, stack, all))
  BY DEF AddedToList
<1>2. stack.count \in Nat /\ Size[list] \in Nat
  BY StackIs, InventoriesAssumption
<1>3. \A s \in all : s \in Slots /\ s[1] = list /\ s[2] \in Nat /\ 1 <= s[2] /\ s[2] <= Size[list]
                     /\ s = <<list, s[2]>>
  BY <1>2 DEF SlotsOf, Slots
<1>4. \A s \in all : key(s) \in Nat /\ 1 <= key(s) /\ key(s) <= Size[list] + Size[list]
  BY <1>2, <1>3
<1>5. \A s, t \in all : (key(s) = key(t) => s = t) /\ (t \in before(s) <=> key(t) < key(s))
  BY <1>2, <1>3
<1>6. \A s \in all : before(s) \in SUBSET Slots /\ left(s) \in Nat /\ given(s) \in Nat
                     /\ given(s) <= Fitting(stacks[s], stack)
  <2> SUFFICES ASSUME NEW s \in all
               PROVE  before(s) \in SUBSET Slots /\ left(s) \in Nat /\ given(s) \in Nat
                      /\ given(s) <= Fitting(stacks[s], stack)
    OBVIOUS
  <2>1. before(s) \in SUBSET Slots
    BY <1>3
  <2> HIDE DEF before
  <2>2. Room(stacks, stack, before(s)) \in Nat
    BY <2>1, RoomType
  <2>3. left(s) \in Nat
    BY <2>2, <1>2
  <2>4. Fitting(stacks[s], stack) \in Nat
    BY <1>3, FittingIs DEF Stock
  <2> HIDE DEF left
  <2> QED BY <2>1, <2>3, <2>4 DEF Limit
<1>7. \A s \in all : new[s] \in Stack
                     /\ Amount(new[s], x) = Amount(stacks[s], x) + IF stack.name = x THEN given(s) ELSE 0
  <2> SUFFICES ASSUME NEW s \in all
               PROVE  new[s] \in Stack
                      /\ Amount(new[s], x) = Amount(stacks[s], x) + IF stack.name = x THEN given(s) ELSE 0
    OBVIOUS
  <2>1. new[s] = Added(stacks[s], Of(stack.name, given(s)))
    BY <1>3
  <2>2. PICK n \in Nat : n = given(s) /\ n <= Fitting(stacks[s], stack)
    BY <1>6
  <2>3. stacks[s] \in Stack
    BY <1>3 DEF Stock
  <2> HIDE DEF given, new
  <2> QED BY <2>1, <2>2, <2>3, AddedAmount
<1>8. \A n \in Nat : filled(n) \in Stock /\ P(n) \in SUBSET Slots
  <2> HIDE DEF new, key
  <2> QED BY <1>3, <1>7 DEF Stock
<1>9. ASSUME NEW n \in Nat, n # 0, Claim(n - 1) PROVE Claim(n)
  <2>1. n - 1 \in Nat
    BY <1>9
  <2>2. CASE \A s \in all : key(s) # n
    <3>1. P(n) = P(n - 1)
      <4> HIDE DEF key, all
      <4> QED BY <2>1, <2>2, <1>4
    <3>2. filled(n) = filled(n - 1) /\ gain(n) = gain(n - 1)
      <4> HIDE DEF P
      <4> QED BY <3>1
    <3> HIDE DEF filled, gain
    <3> QED BY <3>2, <1>9
  <2>3. CASE \E s \in all : key(s) = n
    <3>1. PICK m \in all : key(m) = n
      BY <2>3
    <3>2. P(n) = P(n - 1) \cup {m} /\ m \notin P(n - 1)
      <4> HIDE DEF key, all, before
      <4> QED BY <2>1, <3>1, <1>4, <1>5
    <3>3. before(m) = P(n - 1)
      <4>1. before(m) \subseteq all
        OBVIOUS
      <4> HIDE DEF key, all, before
      <4> QED BY <4>1, <2>1, <3>1, <1>4, <1>5
    <3> PICK r \in Nat : r = Room(stacks, stack, P(n - 1))
      <4> HIDE DEF P
      <4> QED BY <2>1, <1>8, RoomType
    <3> PICK f \in Nat : f = Fitting(stacks[m], stack)
      BY <1>3, FittingIs DEF Stock
    <3>4. Room(stacks, stack, P(n)) = f + r
      <4> PICK S \in SUBSET Slots : S = P(n - 1)
        BY <2>1, <1>8
      <4> HIDE DEF P, all
      <4>1. m \in Slots \ S /\ P(n) = S \cup {m}
        BY <3>2, <1>3
      <4>2. Room(stacks, stack, S \cup {m}) = Fitting(stacks[m], stack) + Room(stacks, stack, S)
        BY <4>1, RoomAdd
      <4> QED BY <4>1, <4>2
    <3>5. given(m) = Limit(f, IF r > stack.count THEN 0 ELSE stack.count - r)
      <4> HIDE DEF before, P
      <4> QED BY <3>3
    <3> PICK g \in Nat : g = given(m)
      BY <1>6
    <3>6. Limit(stack.count, f + r) = Limit(stack.count, r) + g
      BY <3>5, <1>2 DEF Limit
    <3>7. gain(n) = gain(n - 1) + (IF stack.name = x THEN g ELSE 0) /\ gain(n - 1) \in Nat
      <4> HIDE DEF P, given
      <4>1. Limit(stack.count, r) \in Nat
        BY <1>2 DEF Limit
      <4> QED BY <4>1, <3>4, <3>6
    <3>8. Holding(filled(n), j, x) = Holding(filled(n - 1), j, x)
                                     + Gain(m, j, Amount(new[m], x) - Amount(stacks[m], x))
      <4>1. m \in Slots
        BY <1>3
      <4>2. \A t \in Slots \ {m} : filled(n)[t] = filled(n - 1)[t]
        <5> HIDE DEF P, new
        <5> QED BY <3>2
      <4>3. filled(n)[m] = new[m] /\ filled(n - 1)[m] = stacks[m]
        <5> HIDE DEF P, new
        <5> QED BY <3>2, <4>1
      <4>4. filled(n) \in Stock /\ filled(n - 1) \in Stock
        BY <2>1, <1>8
      <4> PICK a \in Stock, b \in Stock : a = filled(n) /\ b = filled(n - 1)
        BY <4>4
      <4>5. \A t \in Slots \ {m} : Amount(a[t], x) = Amount(b[t], x)
        <5> HIDE DEF filled
        <5> QED BY <4>2
      <4>6. Holding(a, j, x) = Holding(b, j, x) + Gain(m, j, Amount(a[m], x) - Amount(b[m], x))
        BY ONLY <4>1, <4>5, a \in Stock, b \in Stock, x \in Items, HoldingChange
      <4> HIDE DEF filled, new
      <4> QED BY <4>3, <4>6
    <3>9. Gain(m, j, Amount(new[m], x) - Amount(stacks[m], x)) =
            Gain(<<list, 1>>, j, IF stack.name = x THEN g ELSE 0)
      <4>1. Amount(stacks[m], x) \in Nat
        BY <1>3, AmountIs DEF Stock
      <4>2. Amount(new[m], x) - Amount(stacks[m], x) = IF stack.name = x THEN g ELSE 0
        <5> HIDE DEF new, given
        <5> QED BY <4>1, <1>7
      <4>3. InventoryOf(m) = InventoryOf(<<list, 1>>)
        BY <1>3 DEF InventoryOf
      <4> HIDE DEF new
      <4> QED BY <4>2, <4>3 DEF Gain
    <3>10. Holding(stacks, j, x) \in Nat
      BY HoldingType
    <3> HIDE DEF filled, gain, new, given
    <3> QED BY <3>7, <3>8, <3>9, <3>10, <1>9 DEF Gain
  <2> QED BY <2>2, <2>3
<1>10. Claim(0)
  <2>1. P(0) = {}
    <3> HIDE DEF key, all
    <3> QED BY <1>4
  <2>2. filled(0) = stacks
    <3> HIDE DEF P, new
    <3> QED BY <2>1 DEF Stock
  <2>3. gain(0) = 0
    <3>1. Limit(stack.count, 0) = 0
      BY <1>2 DEF Limit
    <3> HIDE DEF P
    <3> QED BY <2>1, <3>1, RoomNone
  <2>4. Holding(stacks, j, x) \in Nat
    BY HoldingType
  <2> HIDE DEF filled, gain
  <2> QED BY <2>2, <2>3, <2>4 DEF Gain
<1>11. ASSUME NEW n \in Nat PROVE Claim(n)
  <2> HIDE DEF Claim
  <2> DEFINE Bad == {k \in Nat : ~Claim(k)}
  <2>1. Bad = {}
    <3> SUFFICES ASSUME Bad # {} PROVE FALSE
      OBVIOUS
    <3>1. PICK m \in Bad : \A k \in Bad : m <= k
      <4>1. Bad \subseteq Nat
        OBVIOUS
      <4> HIDE DEF Bad
      <4> QED BY <4>1, LeastNatural
    <3>2. m # 0 /\ m \in Nat
      BY <1>10
    <3>3. m - 1 \in Nat /\ ~(m <= m - 1)
      BY <3>2
    <3>4. Claim(m - 1)
      BY <3>1, <3>3
    <3> QED BY <3>2, <3>4, <1>9
  <2> QED BY <2>1
<1>12. P(Size[list] + Size[list]) = all
  <2> HIDE DEF key, all
  <2> QED BY <1>4
<1>13. filled(Size[list] + Size[list]) = new
  <2>1. \A s \in Slots : s \notin all => new[s] = stacks[s]
    BY DEF SlotsOf
  <2>2. new = [s \in Slots |-> new[s]]
    OBVIOUS
  <2> HIDE DEF new, P, all
  <2> QED BY <2>1, <2>2, <1>12
<1>14. gain(Size[list] + Size[list]) = Amount(stack, x) - Amount(Left(stack, Room(stacks, stack, all)), x)
  <2> PICK r \in Nat : r = Room(stacks, stack, all)
    BY RoomType DEF SlotsOf
  <2>1. gain(Size[list] + Size[list]) = IF stack.name = x THEN Limit(stack.count, r) ELSE 0
    <3> HIDE DEF P, all
    <3> QED BY <1>12
  <2> PICK n \in Nat : n = Limit(stack.count, r) /\ n <= stack.count
    BY <1>2 DEF Limit
  <2>2. Left(stack, r) = Left(stack, n)
    BY <1>2 DEF Left, Limit
  <2>3. Amount(Left(stack, n), x) = Amount(stack, x) - IF stack.name = x THEN n ELSE 0
    BY TakenAmount
  <2>4. Amount(stack, x) \in Nat
    BY AmountIs
  <2> HIDE DEF gain, all
  <2> QED BY <2>1, <2>2, <2>3, <2>4
<1>15. Claim(Size[list] + Size[list])
  <2> HIDE DEF Claim
  <2> QED BY <1>2, <1>11
<1> HIDE DEF filled, gain, new, all
<1> QED BY <1>1, <1>13, <1>14, <1>15

\* An infinite source or destination changes only what is of an item there.
LEMMA InfiniteAmounts ==
    ASSUME inv \in Stock, act.from \in Slots, mv.to \in Slots,
           NEW r, r.stacks \in Stock, r.moved \in Stack,
           NEW x \in Items, inv[act.from].name # x, inv[mv.to].name # x
    PROVE  \A s \in Slots :
             \/ WithInfinite(r)[s] = r.stacks[s]
             \/ Amount(WithInfinite(r)[s], x) = 0 /\ (s \in {act.from, mv.to} \/ r.stacks[s] = Empty)
<1> DEFINE from_was == inv[act.from]
           to_was == inv[mv.to]
           free == {s \in SlotsOf({mv.to[1]}) : r.stacks[s] = Empty}
           first == CHOOSE s \in free : \A t \in free : s[2] <= t[2]
           fill == mv.src = Infinite /\ ~caused_by_move_somewhere /\ from_was.name # to_was.name /\ free # {}
           placed == IF fill THEN [r.stacks EXCEPT ![first] = to_was] ELSE r.stacks
           source == IF mv.src = Infinite /\ (r.moved # Empty \/ r.did_swap)
                     THEN [placed EXCEPT ![act.from] = from_was] ELSE placed
           rest == Left(from_was, r.moved.count)
           result == IF mv.dst # Infinite THEN source
                     ELSE IF r.did_swap
                     THEN [source EXCEPT ![mv.to] = to_was, ![act.from] = rest]
                     ELSE [source EXCEPT ![mv.to] = to_was]
           Fine(s, stack) == \/ stack = r.stacks[s]
                             \/ Amount(stack, x) = 0 /\ (s \in {act.from, mv.to} \/ r.stacks[s] = Empty)
<1>1. WithInfinite(r) = result
  BY DEF WithInfinite
<1>2. Amount(from_was, x) = 0 /\ Amount(to_was, x) = 0 /\ Amount(rest, x) = 0
  <2>1. from_was \in Stack /\ to_was \in Stack /\ r.moved.count \in Nat
    BY StackIs DEF Stock
  <2>2. rest \in Stack /\ (rest # Empty => rest.name = from_was.name)
    BY <2>1, TakenIs
  <2> HIDE DEF rest
  <2> QED BY <2>1, <2>2, AmountIs
<1>3. \A s \in Slots : Fine(s, placed[s])
  <2>1. \A s \in free : r.stacks[s] = Empty
    OBVIOUS
  <2>2. CASE free # {} /\ first \in free
    <3> HIDE DEF free, first, to_was
    <3> QED BY <2>1, <2>2, <1>2 DEF Stock
  <2>3. CASE free # {} /\ first \notin free
    <3>1. first \in free
      <4>1. \E s \in free : \A t \in free : s[2] <= t[2]
        <5> DEFINE cols == {s[2] : s \in free}
        <5>1. cols \subseteq Nat /\ cols # {}
          <6>1. ASSUME NEW s \in Slots PROVE s[2] \in Nat
            <7>1. PICK l \in Lists : s \in {l} \X (1 .. Size[l])
              BY DEF Slots
            <7>2. Size[l] \in Nat
              BY InventoriesAssumption
            <7> QED BY <7>1, <7>2
          <6>2. free \subseteq Slots
            BY DEF SlotsOf
          <6>3. PICK s : s \in free
            BY <2>3
          <6> HIDE DEF free
          <6> QED BY <6>1, <6>2, <6>3
        <5>2. PICK n \in cols : \A k \in cols : n <= k
          <6> HIDE DEF cols
          <6> QED BY <5>1, LeastNatural
        <5> HIDE DEF free
        <5> QED BY <5>2
      <4> HIDE DEF free
      <4> QED BY <4>1
    <3> HIDE DEF first, free
    <3> QED BY <2>3, <3>1
  <2>4. CASE free = {}
    BY <2>4
  <2> HIDE DEF free, first
  <2> QED BY <2>2, <2>3, <2>4
<1>4. placed \in [Slots -> Stack \cup {to_was}]
  <2> HIDE DEF fill, first, to_was
  <2> QED BY DEF Stock
<1> HIDE DEF placed, from_was, to_was, rest
<1>5. \A s \in Slots : Fine(s, source[s])
  BY <1>2, <1>3, <1>4
<1>6. DOMAIN source = Slots /\ source = [s \in Slots |-> source[s]]
  BY <1>4
<1> HIDE DEF source
<1>7. \A s \in Slots : Fine(s, result[s])
  BY <1>2, <1>5, <1>6
<1> HIDE DEF result
<1> QED BY <1>1, <1>7


\* What a move takes from the one slot, the other has more of, and what it is
\* swapped with the other way round.
LEMMA MovedAmounts ==
    ASSUME NEW stacks \in Stock, NEW from \in Slots, NEW to \in Slots, from # to, stacks[from] # Empty,
           NEW count \in Nat, NEW swap \in BOOLEAN, NEW r, Moved(stacks, from, to, count, swap, r),
           NEW back \in Stack, back = IF r.did_swap THEN stacks[to] ELSE Empty, NEW x \in Items
    PROVE  /\ Amount(r.stacks[from], x) = Amount(stacks[from], x) - Amount(r.moved, x) + Amount(back, x)
           /\ Amount(r.stacks[to], x) = Amount(stacks[to], x) + Amount(r.moved, x) - Amount(back, x)
           /\ \A s \in Slots \ {from, to} : r.stacks[s] = stacks[s]
<1>1. stacks[from] \in Stack /\ stacks[to] \in Stack /\ r.moved \in Stack
  BY DEF Stock, Moved
<1>2. /\ Amount(stacks[from], x) \in Nat /\ Amount(stacks[to], x) \in Nat
      /\ Amount(r.moved, x) \in Nat /\ Amount(back, x) \in Nat /\ Amount(Empty, x) = 0
  BY <1>1, AmountIs
<1>3. CASE r.did_swap
  <2>1. r.moved = stacks[from] /\ r.stacks = [stacks EXCEPT ![from] = stacks[to], ![to] = stacks[from]]
    BY <1>3 DEF Moved
  <2>2. r.stacks[from] = stacks[to] /\ r.stacks[to] = stacks[from] /\ back = stacks[to]
        /\ \A s \in Slots \ {from, to} : r.stacks[s] = stacks[s]
    BY <2>1, <1>3 DEF Stock
  <2>3. Amount(r.stacks[from], x) = Amount(stacks[to], x) /\ Amount(r.stacks[to], x) = Amount(stacks[from], x)
        /\ Amount(back, x) = Amount(stacks[to], x) /\ Amount(r.moved, x) = Amount(stacks[from], x)
    BY <2>1, <2>2
  <2> QED BY <2>2, <2>3, <1>2
<1>4. CASE ~r.did_swap
  <2>1. PICK n \in Nat : n = r.moved.count
    BY <1>1, StackIs
  <2>2. PICK taken \in Stack : /\ taken = Wanted(stacks[from], count) /\ taken.count <= stacks[from].count
                               /\ taken # Empty /\ taken.name = stacks[from].name
    BY <1>1, WantedIs
  <2>3. /\ n <= taken.count /\ n = Fitting(stacks[to], taken)
        /\ r.moved # Empty => r.moved.name = stacks[from].name
        /\ r.stacks = [stacks EXCEPT ![from] = Left(@, n), ![to] = Added(@, r.moved)]
    BY <1>4, <2>1, <2>2 DEF Moved
  <2>4. r.stacks[from] = Left(stacks[from], n) /\ r.stacks[to] = Added(stacks[to], r.moved)
        /\ \A s \in Slots \ {from, to} : r.stacks[s] = stacks[s]
    BY <2>3 DEF Stock
  <2>5. r.moved = Of(taken.name, n)
    <3>1. r.moved = [name |-> r.moved.name, count |-> n] /\ (r.moved = Empty <=> n = 0)
      BY <1>1, <2>1, StackIs
    <3> QED BY <3>1, <2>2, <2>3 DEF Of
  <2>6. n <= stacks[from].count
    <3>1. stacks[from].count \in Nat /\ taken.count \in Nat
      BY <1>1, StackIs
    <3> QED BY <3>1, <2>2, <2>3
  <2>7. Amount(r.stacks[from], x) = Amount(stacks[from], x) - IF stacks[from].name = x THEN n ELSE 0
    BY <2>4, <2>6, <1>1, TakenAmount
  <2>8. Amount(r.stacks[to], x) = Amount(stacks[to], x) + IF taken.name = x THEN n ELSE 0
    <3>1. n <= Fitting(stacks[to], taken)
      BY <2>3
    <3>2. Amount(Added(stacks[to], Of(taken.name, n)), x) = Amount(stacks[to], x) + IF taken.name = x THEN n ELSE 0
      BY <3>1, <1>1, AddedAmount
    <3> QED BY <3>2, <2>4, <2>5
  <2>9. Amount(r.moved, x) = IF taken.name = x THEN n ELSE 0
    <3>1. CASE n = 0
      BY <3>1, <2>5, <1>2 DEF Of
    <3>2. CASE n # 0
      BY <3>2, <2>1, <2>5 DEF Amount, Of
    <3> QED BY <3>1, <3>2
  <2>10. Amount(back, x) = 0
    BY <1>2, <1>4
  <2> QED BY <2>2, <2>4, <2>7, <2>8, <2>9, <2>10, <1>2
<1> QED BY <1>3, <1>4


\* What the server does of a move, infinite sources and destinations
\* included, and what it will say of it.
LEMMA MoveBooks ==
    ASSUME inv \in Stock, act.from \in Slots, mv.to \in Slots, act.from # mv.to, inv[act.from] # Empty,
           NEW count \in Nat, NEW swap \in BOOLEAN, NEW r, Moved(inv, act.from, mv.to, count, swap, r),
           NEW now, now = WithInfinite(r), NEW x \in Items,
           Infinite \in {mv.src, mv.dst} => x \notin Endless(inv),
           NEW back, back = IF r.did_swap THEN now[act.from] ELSE Empty, NEW j
    PROVE  /\ now \in Stock /\ back \in Stack
           /\ Holding(now, j, x) = Holding(inv, j, x)
                 + Gain(act.from, j, Amount(back, x) - Amount(r.moved, x))
                 + Gain(mv.to, j, Amount(r.moved, x) - Amount(back, x))
<1> PICK from \in Slots, to \in Slots : from = act.from /\ to = mv.to
  OBVIOUS
<1>1. r.stacks \in Stock /\ r.moved \in Stack /\ inv[from] \in Stack /\ inv[to] \in Stack
  BY DEF Stock, Moved
<1>2. now \in Stock
  BY <1>1, WithInfiniteIs
<1>3. back \in Stack
  BY <1>2 DEF Stock, Stack
<1> PICK old \in Stack : old = IF r.did_swap THEN inv[to] ELSE Empty
  BY <1>1 DEF Stack
<1>4. /\ Amount(r.stacks[from], x) = Amount(inv[from], x) - Amount(r.moved, x) + Amount(old, x)
      /\ Amount(r.stacks[to], x) = Amount(inv[to], x) + Amount(r.moved, x) - Amount(old, x)
      /\ \A s \in Slots \ {from, to} : r.stacks[s] = inv[s]
  BY MovedAmounts
<1>5. /\ Amount(inv[from], x) \in Nat /\ Amount(inv[to], x) \in Nat
      /\ Amount(r.moved, x) \in Nat /\ Amount(back, x) \in Nat /\ Amount(old, x) \in Nat /\ Amount(Empty, x) = 0
  BY <1>1, <1>3, AmountIs
<1>6. /\ Amount(now[from], x) = Amount(inv[from], x) - Amount(r.moved, x) + Amount(back, x)
      /\ Amount(now[to], x) = Amount(inv[to], x) + Amount(r.moved, x) - Amount(back, x)
      /\ \A s \in Slots \ {from, to} : Amount(now[s], x) = Amount(inv[s], x)
  <2>1. CASE Infinite \notin {mv.src, mv.dst}
    <3>1. now = r.stacks
      BY <2>1, <1>1, WithInfiniteIs
    <3>2. back = old
      <4>1. r.did_swap => r.stacks = [inv EXCEPT ![from] = inv[to], ![to] = inv[from]]
        BY DEF Moved
      <4>2. r.did_swap => r.stacks[from] = inv[to]
        BY <4>1, ZenonT(30) DEF Stock
      <4> QED BY <3>1, <4>2
    <3> QED BY <3>1, <3>2, <1>4
  <2>2. CASE Infinite \in {mv.src, mv.dst}
    <3>1. inv[from].name # x /\ inv[to].name # x
      BY <2>2 DEF Endless
    <3>2. Amount(inv[from], x) = 0 /\ Amount(inv[to], x) = 0 /\ Amount(old, x) = 0
      BY <3>1, <1>1, <1>5, AmountIs
    <3>3. Amount(r.moved, x) = 0
      <4>1. r.moved = Empty \/ r.moved.name = inv[from].name
        BY DEF Moved
      <4> QED BY <4>1, <3>1, <1>1, <1>5, AmountIs
    <3>4. Amount(r.stacks[from], x) = 0 /\ Amount(r.stacks[to], x) = 0
      BY <3>2, <3>3, <1>4
    <3>5. \A s \in Slots : \/ now[s] = r.stacks[s]
                           \/ Amount(now[s], x) = 0 /\ (s \in {from, to} \/ r.stacks[s] = Empty)
      BY <3>1, <1>1, InfiniteAmounts
    <3>6. Amount(now[from], x) = 0 /\ Amount(now[to], x) = 0
      BY <3>4, <3>5
    <3>7. Amount(back, x) = 0
      BY <3>6, <1>5
    <3>8. \A s \in Slots \ {from, to} : Amount(now[s], x) = Amount(inv[s], x)
      BY <3>5, <1>4, <1>5
    <3> QED BY <3>2, <3>3, <3>6, <3>7, <3>8
  <2> QED BY <2>1, <2>2
<1>7. Holding(now, j, x) = Holding(inv, j, x) + Gain(from, j, Amount(now[from], x) - Amount(inv[from], x))
                                              + Gain(to, j, Amount(now[to], x) - Amount(inv[to], x))
  <2>1. \A s \in Slots \ {from, to} : Amount(now[s], x) = Amount(inv[s], x)
    BY <1>6
  <2> QED BY ONLY <2>1, <1>2, inv \in Stock, x \in Items, from \in Slots, to \in Slots, from = act.from, to = mv.to,
                  act.from # mv.to, HoldingChangeTwo
<1>8. /\ Amount(now[from], x) - Amount(inv[from], x) = Amount(back, x) - Amount(r.moved, x)
      /\ Amount(now[to], x) - Amount(inv[to], x) = Amount(r.moved, x) - Amount(back, x)
  BY <1>5, <1>6
<1> QED BY <1>2, <1>3, <1>7, <1>8

-----------------------------------------------------------------------------
(* Each step keeps the books.                                              *)

\* In any phase but the report of a move the books are what is booked.
LEMMA LedgerIs == /\ pc # "report" => Ledger = booked
                  /\ pc' # "report" => Ledger' = booked'
BY DEF Ledger

LEMMA WaitingIs ==
    /\ pc \notin {"craft", "replacements"} => \A i, x : Waiting(i, x) = 0
    /\ pc' \notin {"craft", "replacements"} => \A i, x : Waiting(i, x)' = 0
BY DEF Waiting

\* A step that leaves the contents and the books alone, in or between phases
\* that neither report nor craft.
Plain == pc \notin {"report", "craft", "replacements"}

LEMMA QuietBooks ==
    ASSUME BooksInv, LimitsInv', Plain, Plain', inv' = inv, booked' = booked, infinite \subseteq infinite',
           pc' \notin {"allowDrop", "onDrop"}
    PROVE  BooksInv'
<1>1. Held'
  BY DEF Held, Plain
<1>2. Balanced'
  <2>1. \A i \in Inventory, x \in Items \ infinite' : Holding(inv, i, x) + 0 = booked[i][x]
    BY LedgerIs, WaitingIs DEF BooksInv, Balanced, Plain
  <2> QED BY <2>1, LedgerIs, WaitingIs DEF Balanced, Plain
<1> QED BY <1>1, <1>2 DEF BooksInv

\* A callback in which nothing else happens.
LEMMA AskBooks ==
    ASSUME BooksInv, LimitsInv', Plain, Plain', NEW now, Asking(now), pc' \notin {"allowDrop", "onDrop"}
    PROVE  BooksInv'
<1>1. now \in ModsLeave /\ inv' = now /\ booked' = BookedChanges(booked, now) /\ infinite' = infinite
  BY DEF Asking, Callback, SetInv
<1>2. inv \in Stock /\ booked \in Books
  BY DEF BooksInv, LimitsInv, Stocked
<1>3. PICK after : after = BookedChanges(booked, now)
  OBVIOUS
<1>4. /\ after \in Books
      /\ \A j \in Inventory, x \in Items : after[j][x] = booked[j][x] + Holding(now, j, x) - Holding(inv, j, x)
  BY <1>1, <1>2, <1>3, ChangesBooked
<1>5. now \in Stock
  BY <1>1, <1>2, ChangesBooked
<1>6. Held'
  BY DEF Held, Plain
<1>7. ASSUME NEW i \in Inventory, NEW x \in Items \ infinite' PROVE Holding(now, i, x) + 0 = after[i][x]
  <2>1. Holding(inv, i, x) + 0 = booked[i][x]
    BY <1>1, LedgerIs, WaitingIs DEF BooksInv, Balanced, Plain
  <2>2. Holding(inv, i, x) \in Nat /\ Holding(now, i, x) \in Nat
    BY <1>2, <1>5, HoldingType
  <2> QED BY <2>1, <2>2, <1>4
<1>8. Balanced'
  BY <1>1, <1>3, <1>7, LedgerIs, WaitingIs DEF Balanced, Plain
<1> QED BY <1>1, <1>3, <1>4, <1>6, <1>8 DEF BooksInv


LEMMA ReturnGoes == ASSUME NEW m, Return(m) PROVE pc' \in {"somewhere", "idle"}
BY DEF Return

LEMMA PerformMoveBooks ==
    ASSUME BooksInv, LimitsInv', PerformMove
    PROVE  BooksInv'
<1>1. pc = "move" /\ booked' = booked /\ Plain
  BY DEF PerformMove, Plain
<1>2. act \in Moves /\ mv \in MvType /\ inv \in Stock /\ act.from # mv.to /\ booked \in Books
  BY <1>1 DEF BooksInv, LimitsInv, Stocked, Phases, Asked
<1>3. act.from \in Slots /\ mv.to \in Slots /\ inv[act.from] \in Stack /\ inv[mv.to] \in Stack /\ mv.swap \in BOOLEAN
  BY <1>2, MovesAre DEF MvType, Stock
<1>4. Allowed \in Nat /\ Allowed <= inv[act.from].count
  BY <1>2, <1>3, AllowedIs
<1>5. \A i \in Inventory, x \in Items \ infinite : Holding(inv, i, x) + 0 = booked[i][x]
  BY <1>1, LedgerIs, WaitingIs DEF BooksInv, Balanced
<1>6. CASE Allowed = 0
  <2>1. Return([mv EXCEPT !.move_count = 0]) /\ inv' = inv /\ infinite' = infinite
    BY <1>6 DEF PerformMove
  <2>2. pc' \in {"somewhere", "idle"}
    BY <2>1, ReturnGoes
  <2> QED BY <2>1, <2>2, <1>1, QuietBooks DEF Plain
<1>7. CASE Allowed # 0
  <2>1. PICK r : r = moveItem(inv, act.from, mv.to, Allowed, mv.swap)
    OBVIOUS
  <2>2. PICK now : now = WithInfinite(r)
    OBVIOUS
  <2>3. PICK back : back = IF r.did_swap THEN now[act.from] ELSE Empty
    OBVIOUS
  <2>4. PICK done :
          done = [mv EXCEPT !.move_count = r.moved.count, !.total = @ + r.moved.count,
                            !.did_swap = r.did_swap, !.src_item = r.moved, !.swap_item = back]
    OBVIOUS
  <2>5. /\ inv' = now
        /\ infinite' = IF Infinite \in {mv.src, mv.dst} THEN infinite \cup Endless(inv) ELSE infinite
        /\ IF caused_by_move_somewhere /\ r.moved = Empty
           THEN Return(done)
           ELSE pc' = "report" /\ mv' = done /\ act' = act
    BY <2>1, <2>2, <2>3, <2>4, <1>7, Zenon DEF PerformMove, SetInv
  <2>6. inv[act.from] # Empty
    BY <1>3, <1>4, <1>7, StackIs
  <2>7. Moved(inv, act.from, mv.to, Allowed, mv.swap, r)
    <3>1. Moved(inv, act.from, mv.to, Allowed, mv.swap, moveItem(inv, act.from, mv.to, Allowed, mv.swap))
      BY <2>6, <1>2, <1>3, <1>4, MoveItemIs
    <3> QED BY <3>1, <2>1
  <2>8. ASSUME NEW x \in Items \ infinite', NEW j \in Inventory
        PROVE  /\ now \in Stock /\ back \in Stack /\ x \in Items \ infinite
               /\ Holding(now, j, x) = Holding(inv, j, x)
                     + Gain(act.from, j, Amount(back, x) - Amount(r.moved, x))
                     + Gain(mv.to, j, Amount(r.moved, x) - Amount(back, x))
    <3>1. /\ x \in Items \ infinite
          /\ Infinite \in {mv.src, mv.dst} => x \notin Endless(inv)
      BY <2>5
    <3> QED BY <3>1, <2>2, <2>3, <2>6, <2>7, <1>2, <1>3, <1>4, MoveBooks
  <2>9. now \in Stock /\ back \in Stack /\ r.moved \in Stack
    <3>1. r.stacks \in Stock /\ r.moved \in Stack
      BY <2>7 DEF Moved
    <3>2. now \in Stock
      BY <3>1, <2>2, <1>2, <1>3, WithInfiniteIs
    <3> QED BY <3>1, <3>2, <2>3, <1>3 DEF Stock, Stack
  <2>10. CASE caused_by_move_somewhere /\ r.moved = Empty
    <3>1. ~mv.swap
      BY <2>10, <1>1 DEF BooksInv, LimitsInv, SwapStands, Asked
    <3>2. back = Empty
      BY <3>1, <2>3, <2>7 DEF Moved
    <3>3. pc' \in {"somewhere", "idle"}
      BY <2>5, <2>10, ReturnGoes
    <3>4. ASSUME NEW x \in Items \ infinite', NEW j \in Inventory PROVE Holding(now, j, x) + 0 = booked[j][x]
      <4>1. Amount(back, x) = 0 /\ Amount(r.moved, x) = 0
        BY <3>2, <2>9, <2>10, AmountIs
      <4>2. Holding(inv, j, x) \in Nat
        BY <1>2, HoldingType
      <4> QED BY <4>1, <4>2, <2>8, <1>5 DEF Gain
    <3>5. Balanced'
      BY <3>3, <3>4, <2>5, <1>1, LedgerIs, WaitingIs DEF Balanced
    <3>6. Held'
      BY <3>3 DEF Held
    <3> QED BY <3>5, <3>6, <1>1, <1>2 DEF BooksInv
  <2>11. CASE ~(caused_by_move_somewhere /\ r.moved = Empty)
    <3>1. pc' = "report" /\ mv' = done /\ act' = act
      BY <2>5, <2>11
    <3>2. done.to = mv.to /\ done.src_item = r.moved /\ done.swap_item = back
      <4>1. PICK n, k, did, moved : n = r.moved.count /\ k = mv.total + r.moved.count
                                    /\ did = r.did_swap /\ moved = r.moved
        OBVIOUS
      <4>2. done = [mv EXCEPT !.move_count = n, !.total = k, !.did_swap = did, !.src_item = moved, !.swap_item = back]
        BY <2>4, <4>1
      <4>3. done.to = mv.to /\ done.src_item = moved /\ done.swap_item = back
        BY <4>2, <1>2 DEF MvType
      <4> QED BY <4>1, <4>3
    <3>3. PICK told : told = ToldOf(booked, act.from, mv.to, r.moved, back)
      OBVIOUS
    <3>4. \A j \in Inventory, x \in Items :
            told[j][x] = booked[j][x] + Gain(act.from, j, Amount(back, x) - Amount(r.moved, x))
                                      + Gain(mv.to, j, Amount(r.moved, x) - Amount(back, x))
      <4>1. PICK from \in Slots, to \in Slots, m \in Stack : from = act.from /\ to = mv.to /\ m = r.moved
        BY <2>9, <1>3
      <4>2. told = ToldOf(booked, from, to, m, back)
        BY <3>3, <4>1
      <4>3. \A j \in Inventory, x \in Items :
              ToldOf(booked, from, to, m, back)[j][x] = booked[j][x] + Gain(from, j, Amount(back, x) - Amount(m, x))
                                                                     + Gain(to, j, Amount(m, x) - Amount(back, x))
        BY ONLY <2>9, <1>2, from \in Slots, to \in Slots, m \in Stack, ToldIs
      <4> QED BY <4>1, <4>2, <4>3
    <3>5. Ledger' = IF WithinOne THEN booked ELSE told
      <4>1. Ledger' = Told'
        BY <3>1 DEF Ledger
      <4>2. WithinOne' = WithinOne
        BY <3>1, <3>2 DEF WithinOne
      <4> QED BY <4>1, <4>2, <3>1, <3>2, <3>3, <1>1, ToldNow
    <3>6. ASSUME NEW x \in Items \ infinite', NEW j \in Inventory
          PROVE  Holding(now, j, x) + 0 = (IF WithinOne THEN booked ELSE told)[j][x]
      <4>1. Holding(inv, j, x) \in Nat /\ Amount(back, x) \in Nat /\ Amount(r.moved, x) \in Nat
        BY <1>2, <2>9, HoldingType, AmountIs
      <4>2. Holding(now, j, x) = booked[j][x] + Gain(act.from, j, Amount(back, x) - Amount(r.moved, x))
                                              + Gain(mv.to, j, Amount(r.moved, x) - Amount(back, x))
            /\ booked[j][x] = Holding(inv, j, x)
        BY <4>1, <2>8, <1>5
      <4>3. CASE WithinOne
        BY <4>1, <4>2, <4>3 DEF Gain, WithinOne
      <4>4. CASE ~WithinOne
        BY <4>1, <4>2, <4>4, <3>4 DEF Gain
      <4> QED BY <4>3, <4>4
    <3>7. Balanced'
      BY <3>1, <3>5, <3>6, <2>5, WaitingIs DEF Balanced
    <3>8. Held'
      BY <3>1 DEF Held
    <3> QED BY <3>7, <3>8, <1>1, <1>2 DEF BooksInv
  <2> QED BY <2>10, <2>11
<1> QED BY <1>4, <1>6, <1>7

\* Mods are told of a move, and may change something themselves.
LEMMA ReportMoveBooks ==
    ASSUME BooksInv, LimitsInv', ReportMove
    PROVE  BooksInv'
<1>1. pc = "report" /\ infinite' = infinite /\ Return(mv)
  BY DEF ReportMove
<1>2. PICK now \in ModsLeave : inv' = now /\ booked' = BookedChanges(Told, now)
  BY DEF ReportMove, SetInv
<1>3. act \in Moves /\ mv \in MvType /\ inv \in Stock /\ booked \in Books
  BY <1>1 DEF BooksInv, LimitsInv, Stocked
<1>4. act.from \in Slots /\ mv.to \in Slots /\ mv.src_item \in Stack /\ mv.swap_item \in Stack
  BY <1>3, MovesAre DEF MvType
<1>5. Told \in Books
  BY <1>3, <1>4, ToldNow, ToldIs
<1>6. PICK b \in Books : b = Told
  BY <1>5
<1>7. PICK after : after = BookedChanges(b, now)
  OBVIOUS
<1>8. /\ after \in Books /\ now \in Stock
      /\ \A j \in Inventory, x \in Items : after[j][x] = b[j][x] + Holding(now, j, x) - Holding(inv, j, x)
  BY <1>3, <1>7, ChangesBooked
<1>9. \A i \in Inventory, x \in Items \ infinite : Holding(inv, i, x) + 0 = b[i][x]
  BY <1>1, <1>6, WaitingIs DEF BooksInv, Balanced, Ledger
<1>10. ASSUME NEW i \in Inventory, NEW x \in Items \ infinite PROVE Holding(now, i, x) + 0 = after[i][x]
  <2>1. Holding(inv, i, x) \in Nat /\ Holding(now, i, x) \in Nat
    BY <1>3, <1>8, HoldingType
  <2> QED BY <2>1, <1>8, <1>9
<1>11. pc' \in {"somewhere", "idle"}
  BY <1>1, ReturnGoes
<1>12. Balanced'
  BY <1>1, <1>2, <1>6, <1>7, <1>10, <1>11, LedgerIs, WaitingIs DEF Balanced
<1>13. Held'
  BY <1>11 DEF Held
<1> QED BY <1>2, <1>6, <1>7, <1>8, <1>12, <1>13 DEF BooksInv


\* The steps with no action in hand, taking an action included.
LEMMA IdleBooks ==
    ASSUME BooksInv, LimitsInv',
           \/ \E a \in Actions : inventoryAction(a)
           \/ ReceiveInventory \/ RevertPrediction \/ SendInventory \/ ModsChange
           \/ handleCommand_InventoryAction
    PROVE  BooksInv'
<1>1. CASE ModsChange
  <2>1. pc = "idle" /\ pc' = "idle" /\ \E now : Asking(now)
    BY <1>1 DEF ModsChange
  <2> QED BY <2>1, AskBooks DEF Plain
<1>2. CASE (\E a \in Actions : inventoryAction(a)) \/ ReceiveInventory \/ RevertPrediction \/ SendInventory
  <2>1. pc = "idle" /\ pc' = "idle" /\ UNCHANGED <<inv, booked, infinite>>
    BY <1>2 DEF inventoryAction, ReceiveInventory, RevertPrediction, SendInventory, serverVars
  <2> QED BY <2>1, QuietBooks DEF Plain
<1>3. CASE handleCommand_InventoryAction
  <2>1. pc = "idle" /\ UNCHANGED <<inv, booked, infinite>>
    BY <1>3 DEF handleCommand_InventoryAction
  <2>2. PICK a : a = Head(toServer)
    OBVIOUS
  <2>3. \/ pc' = pc
        \/ /\ pc' = Entry(a)
           /\ mv' = [NoMove EXCEPT !.count = a.count, !.to = IF a.type = "Move" THEN a.to ELSE @]
    BY <1>3, <2>2, Zenon DEF handleCommand_InventoryAction
  <2>4. a.type \in {"Move", "MoveSomewhere", "Drop", "Craft"}
    <3>1. toServer \in Seq(Requests) /\ toServer # <<>>
      BY <1>3 DEF handleCommand_InventoryAction, BooksInv, LimitsInv, Stocked
    <3>2. a \in Actions
      <4>1. Head(toServer) \in Requests
        BY <3>1, HeadTailProperties
      <4> QED BY <4>1, <2>2 DEF Requests
    <3> QED BY <3>2 DEF Actions, Move, MoveSomewhere, Drop, Craft
  <2>5. pc' \in {"idle", "apply", "somewhere", "drop", "craft"}
    BY <2>1, <2>3, <2>4 DEF Entry
  <2>6. CASE pc' = "craft"
    <3>1. mv'.swap_item = Empty
      BY <2>1, <2>3, <2>6 DEF NoMove
    <3>2. \A i, x : x \in Items => Waiting(i, x)' = 0
      <4>1. Empty \in Stack
        BY DEF Stack
      <4> QED BY <4>1, <3>1, AmountIs DEF Waiting
    <3>3. \A i \in Inventory, x \in Items \ infinite : Holding(inv, i, x) + 0 = booked[i][x]
      BY <2>1, LedgerIs, WaitingIs DEF BooksInv, Balanced
    <3>4. Balanced'
      BY <2>1, <2>6, <3>2, <3>3, LedgerIs DEF Balanced
    <3>5. Held'
      BY <2>6, <3>1 DEF Held
    <3> QED BY <2>1, <3>4, <3>5 DEF BooksInv
  <2>7. CASE pc' # "craft"
    BY <2>1, <2>5, <2>7, QuietBooks DEF Plain
  <2> QED BY <2>6, <2>7
<1> QED BY <1>1, <1>2, <1>3

\* Finding a slot, looking at the stacks, and asking about them.
LEMMA AskingBooks ==
    ASSUME BooksInv, LimitsInv',
           \/ MoveToNextSlot \/ BeginMove
           \/ allowMove \/ allowMoveBack \/ allowPut \/ allowTake
           \/ allowBack("allowPutBack", "allowTakeBack") \/ allowBack("allowTakeBack", "move")
    PROVE  BooksInv'
<1>1. CASE MoveToNextSlot
  <2>1. pc = "somewhere" /\ pc' \in {"somewhere", "apply", "idle"} /\ UNCHANGED <<inv, booked, infinite>>
    BY <1>1 DEF MoveToNextSlot, serverVars
  <2> QED BY <2>1, QuietBooks DEF Plain
<1>2. CASE BeginMove
  <2>1. pc = "apply" /\ pc' \in {"somewhere", "idle", "allowMove", "allowPut"} /\ UNCHANGED <<inv, booked, infinite>>
    BY <1>2, ReturnGoes DEF BeginMove, serverVars
  <2> QED BY <2>1, QuietBooks DEF Plain
<1>3. CASE ~MoveToNextSlot /\ ~BeginMove
  <2>1. pc \in Asked /\ pc' \in Asked /\ \E now : Asking(now)
    BY <1>3 DEF allowMove, allowMoveBack, allowPut, allowTake, allowBack, Asked, FirstAsked, SwapAsked
  <2> QED BY <2>1, AskBooks DEF Plain, Asked, FirstAsked, SwapAsked
<1> QED BY <1>1, <1>2, <1>3


\* What the books say in a plain phase, and after a step to one.
LEMMA PlainBooks == ASSUME BooksInv, Plain
                    PROVE  \A i \in Inventory, x \in Items \ infinite : Holding(inv, i, x) + 0 = booked[i][x]
BY LedgerIs, WaitingIs DEF BooksInv, Balanced, Plain

LEMMA PlainBalance ==
    ASSUME Plain', NEW new, new = inv', NEW after, after = booked',
           \A i \in Inventory, x \in Items \ infinite' : Holding(new, i, x) + 0 = after[i][x]
    PROVE  Balanced'
BY LedgerIs, WaitingIs DEF Balanced, Plain

LEMMA BeginDropBooks ==
    ASSUME BooksInv, LimitsInv', BeginDrop
    PROVE  BooksInv'
<1>1. pc = "drop" /\ UNCHANGED <<inv, booked, infinite>>
  BY DEF BeginDrop, serverVars
<1>2. act \in Drop /\ mv \in MvType /\ inv \in Stock /\ booked \in Books
  BY <1>1 DEF BooksInv, LimitsInv, Stocked, Dropping
<1>3. inv[act.from] \in Stack /\ act.count \in Nat
  BY <1>2, InventoriesAssumption DEF Drop, Stock
<1>4. CASE inv[act.from] = Empty
  <2>1. pc' = "idle"
    BY <1>4 DEF BeginDrop, End
  <2> QED BY <2>1, <1>1, QuietBooks DEF Plain
<1>5. CASE inv[act.from] # Empty
  <2>1. PICK n \in Nat : n = Wanted(inv[act.from], act.count).count /\ n <= inv[act.from].count
    BY <1>3, WantedIs, StackIs, ZenonT(30)
  <2>2. pc' = "allowDrop" /\ mv' = [mv EXCEPT !.move_count = n] /\ act' = act
    BY <2>1, <1>5 DEF BeginDrop
  <2>3. mv'.move_count = n
    BY <2>2, <1>2 DEF MvType
  <2>4. Held'
    BY <2>1, <2>2, <2>3, <1>1 DEF Held
  <2>5. \A i \in Inventory, x \in Items \ infinite' : Holding(inv, i, x) + 0 = booked[i][x]
    BY <1>1, PlainBooks DEF Plain
  <2>6. Balanced'
    BY <2>2, <2>5, <1>1, PlainBalance DEF Plain
  <2> QED BY <2>4, <2>6, <1>1, <1>2 DEF BooksInv
<1> QED BY <1>4, <1>5

\* With nothing changed in a callback of a drop, the stack that is looked up
\* again is the one it was decided about.
LEMMA AllowDropBooks ==
    ASSUME BooksInv, LimitsInv', allowDrop, \A now : MayChangeInDrop(now) => now = inv
    PROVE  BooksInv'
<1>1. pc = "allowDrop" /\ infinite' = infinite
  BY DEF allowDrop
<1>2. act \in Drop /\ mv \in MvType /\ inv \in Stock /\ booked \in Books /\ mv.move_count <= inv[act.from].count
  BY <1>1 DEF BooksInv, LimitsInv, Stocked, Dropping, Held
<1>3. inv[act.from] \in Stack /\ mv.move_count \in Nat
  BY <1>2 DEF Drop, Stock, MvType
<1>4. \A i \in Inventory, x \in Items \ infinite' : Holding(inv, i, x) + 0 = booked[i][x]
  BY <1>1, PlainBooks DEF Plain
<1>12. PICK item \in Stack : item = inv[act.from]
  BY <1>3
<1>13. PICK most \in Nat : most = mv.move_count
  BY <1>3
<1>5. most <= item.count
  BY <1>2, <1>12, <1>13
<1>6. PICK n \in Answers :
        /\ inv' = inv /\ booked' = BookedChanges(booked, inv)
        /\ LET count == IF n = Infinite THEN most ELSE Limit(n, most) IN
           IF count = 0 THEN End
           ELSE /\ pc' = "onDrop"
                /\ mv' = [mv EXCEPT !.src = n, !.move_count = count, !.src_item = item]
                /\ act' = act
  <2>1. PICK now \in ModsLeave, n \in Answers :
          /\ MayChangeInDrop(now) /\ inv' = now /\ booked' = BookedChanges(booked, now)
          /\ LET count == IF n = Infinite THEN mv.move_count ELSE Limit(n, mv.move_count) IN
             IF count = 0 THEN End
             ELSE /\ pc' = "onDrop"
                  /\ mv' = [mv EXCEPT !.src = n, !.move_count = count, !.src_item = now[act.from]]
                  /\ act' = act
    BY DEF allowDrop
  <2>2. now = inv
    BY <2>1
  <2> QED BY <2>1, <2>2, <1>12, <1>13
<1>7. booked' = booked /\ inv' = inv
  BY <1>6 DEF BookedChanges
<1>8. PICK count \in Nat : count = (IF n = Infinite THEN most ELSE Limit(n, most)) /\ count <= most
  <2>1. n = Infinite \/ n \in Nat
    BY AnswersAre
  <2>2. n \in Nat => Limit(n, most) \in Nat /\ Limit(n, most) <= most
    BY DEF Limit
  <2>3. most <= most
    OBVIOUS
  <2> QED BY <2>1, <2>2, <2>3
<1>9. \/ pc' = "idle"
      \/ pc' = "onDrop" /\ act' = act /\ mv' = [mv EXCEPT !.src = n, !.move_count = count, !.src_item = item]
  BY <1>6, <1>8 DEF End
<1>10. CASE pc' = "idle"
  BY <1>1, <1>7, <1>10, QuietBooks DEF Plain
<1>11. CASE pc' # "idle"
  <2>1. pc' = "onDrop" /\ act' = act /\ mv' = [mv EXCEPT !.src = n, !.move_count = count, !.src_item = item]
    BY <1>9, <1>11
  <2>2. mv'.move_count = count /\ mv'.src_item = item
    BY <2>1, <1>2 DEF MvType
  <2>3. count <= item.count
    <3>1. item.count \in Nat
      BY StackIs
    <3> QED BY <3>1, <1>5, <1>8
  <2>4. Held'
    BY <2>1, <2>2, <2>3, <1>7, <1>12 DEF Held
  <2>5. Balanced'
    BY <2>1, <1>4, <1>7, PlainBalance DEF Plain
  <2> QED BY <2>4, <2>5, <1>2, <1>7 DEF BooksInv
<1> QED BY <1>10, <1>11

\* A stack that loses some of its items, and the books told so.
LEMMA DroppedAmounts ==
    ASSUME NEW b \in Books, NEW from \in Slots, NEW was \in Stack, NEW n \in Nat
    PROVE  /\ Booking(b, InventoryOf(from), was.name, - n) \in Books
           /\ \A i \in Inventory, x \in Items :
                /\ Booking(b, InventoryOf(from), was.name, - n)[i][x]
                     = b[i][x] - Gain(from, i, IF was.name = x THEN n ELSE 0)
                /\ \A old \in Stock, new \in Stock :
                     /\ b[i][x] = Holding(old, i, x) /\ was = old[from] /\ n <= was.count
                     /\ new = [old EXCEPT ![from] = Left(@, n)]
                     => Holding(new, i, x) = Booking(b, InventoryOf(from), was.name, - n)[i][x]
<1>1. PICK at \in Inventory, name \in Items \cup {NoItem}, k \in Int :
        at = InventoryOf(from) /\ name = was.name /\ k = - n
  BY StackIs, InventoryIs
<1>2. PICK after : after = Booking(b, at, name, k)
  OBVIOUS
<1>3. after \in Books /\ \A i \in Inventory, x \in Items : after[i][x] = b[i][x] + IF at = i /\ name = x THEN k ELSE 0
  BY <1>2, BookingIs
<1>4. ASSUME NEW i \in Inventory, NEW x \in Items
      PROVE  after[i][x] = b[i][x] - Gain(from, i, IF was.name = x THEN n ELSE 0)
  <2>1. b[i][x] \in Int /\ after[i][x] = b[i][x] + IF at = i /\ name = x THEN k ELSE 0
    BY <1>3 DEF Books
  <2> QED BY <2>1, <1>1 DEF Gain
<1>5. ASSUME NEW i \in Inventory, NEW x \in Items, NEW old \in Stock, NEW new \in Stock,
             b[i][x] = Holding(old, i, x), was = old[from], n <= was.count,
             new = [old EXCEPT ![from] = Left(@, n)]
      PROVE  Holding(new, i, x) = after[i][x]
  <2>1. new[from] = Left(was, n) /\ \A t \in Slots \ {from} : Amount(new[t], x) = Amount(old[t], x)
    BY <1>5 DEF Stock
  <2>2. Holding(new, i, x) = Holding(old, i, x) + Gain(from, i, Amount(new[from], x) - Amount(old[from], x))
    BY ONLY <2>1, old \in Stock, new \in Stock, x \in Items, from \in Slots, HoldingChange
  <2>3. Amount(new[from], x) = Amount(was, x) - IF was.name = x THEN n ELSE 0
    BY <2>1, <1>5, TakenAmount
  <2>4. Amount(was, x) \in Nat /\ Holding(old, i, x) \in Nat
    BY AmountIs, HoldingType
  <2>5. after[i][x] = b[i][x] - Gain(from, i, IF was.name = x THEN n ELSE 0)
    BY <1>4
  <2> QED BY ONLY <2>2, <2>3, <2>4, <2>5, <1>5, n \in Nat DEF Gain
<1> QED BY <1>1, <1>2, <1>3, <1>4, <1>5

\* What has gone is what is told.
LEMMA OnDropBooks ==
    ASSUME BooksInv, LimitsInv', onDrop, \A now : MayChangeInDrop(now) => now = inv
    PROVE  BooksInv'
<1>1. pc = "onDrop" /\ pc' = "idle"
  BY DEF onDrop, End
<1>2. /\ act \in Drop /\ mv \in MvType /\ inv \in Stock /\ booked \in Books
      /\ mv.move_count <= inv[act.from].count /\ mv.src_item = inv[act.from]
  BY <1>1 DEF BooksInv, LimitsInv, Stocked, Dropping, Held
<1>3. inv[act.from] \in Stack /\ mv.move_count \in Nat /\ act.from \in Slots
  BY <1>2 DEF Drop, Stock, MvType
<1>4. \A i \in Inventory, x \in Items \ infinite : Holding(inv, i, x) + 0 = booked[i][x]
  BY <1>1, PlainBooks DEF Plain
<1>9. PICK from \in Slots, was \in Stack : from = act.from /\ was = inv[from]
  BY <1>3
<1>5. PICK n \in 0 .. mv.move_count :
        /\ inv' = IF mv.src = Infinite \/ n = 0 THEN inv ELSE [inv EXCEPT ![from] = Left(@, n)]
        /\ booked' = IF n = 0 THEN booked ELSE Booking(booked, InventoryOf(from), was.name, - n)
        /\ infinite' = IF mv.src = Infinite THEN infinite \cup {was.name} ELSE infinite
  <2>1. PICK now \in ModsLeave, n \in 0 .. mv.move_count :
          LET taken == IF mv.src = Infinite \/ n = 0 THEN now
                       ELSE [now EXCEPT ![act.from] = Left(@, n)]
              told == IF n = 0 THEN booked
                      ELSE Booking(booked, InventoryOf(act.from), mv.src_item.name, - n)
          IN  /\ MayChangeInDrop(now)
              /\ inv' = taken
              /\ booked' = BookedChanges(told, now)
              /\ infinite' = IF mv.src = Infinite THEN infinite \cup {mv.src_item.name} ELSE infinite
    BY DEF onDrop
  <2>2. now = inv
    BY <2>1
  <2>3. \A b : BookedChanges(b, inv) = b
    BY DEF BookedChanges
  <2> QED BY <2>1, <2>2, <2>3, <1>2, <1>9
<1>6. n \in Nat /\ n <= was.count
  <2>1. PICK most \in Nat, c \in Nat : most = mv.move_count /\ c = was.count
    BY <1>3, StackIs
  <2>2. n \in 0 .. most /\ most <= c
    BY <2>1, <1>2, <1>9
  <2> QED BY <2>1, <2>2
<1>10. PICK new \in Stock : new = inv'
  BY DEF LimitsInv, Stocked
<1>11. PICK after : after = booked'
  OBVIOUS
<1>7. CASE n = 0
  <2>1. new = inv /\ after = booked /\ infinite \subseteq infinite'
    BY <1>5, <1>7, <1>10, <1>11
  <2>2. Balanced'
    BY <2>1, <1>1, <1>4, <1>10, <1>11, PlainBalance DEF Plain
  <2> QED BY <2>1, <2>2, <1>1, <1>2, <1>11 DEF BooksInv, Held
<1>8. CASE n # 0
  <2>1. after = Booking(booked, InventoryOf(from), was.name, - n)
    BY <1>5, <1>8, <1>11
  <2>2. /\ after \in Books
        /\ \A i \in Inventory, x \in Items :
             /\ after[i][x] = booked[i][x] - Gain(from, i, IF was.name = x THEN n ELSE 0)
             /\ /\ booked[i][x] = Holding(inv, i, x)
                /\ new = [inv EXCEPT ![from] = Left(@, n)]
                => Holding(new, i, x) = after[i][x]
    BY ONLY <2>1, <1>2, <1>6, n \in Nat, from \in Slots, was \in Stack, <1>9, new \in Stock, DroppedAmounts
  <2>3. ASSUME NEW i \in Inventory, NEW x \in Items \ infinite' PROVE Holding(new, i, x) + 0 = after[i][x]
    <3>1. x \in Items \ infinite /\ Holding(inv, i, x) \in Nat /\ Holding(new, i, x) \in Nat
      <4>1. x \in Items \ infinite
        BY <1>5
      <4> QED BY <4>1, <1>2, HoldingType
    <3>2. Holding(inv, i, x) = booked[i][x]
      BY <3>1, <1>4
    <3>3. CASE mv.src = Infinite
      <4>1. new = inv /\ was.name # x
        BY <3>3, <1>5, <1>10
      <4> QED BY <4>1, <3>1, <3>2, <2>2 DEF Gain
    <3>4. CASE mv.src # Infinite
      <4>1. new = [inv EXCEPT ![from] = Left(@, n)]
        BY <3>4, <1>5, <1>8, <1>10
      <4>2. booked[i][x] = Holding(inv, i, x)
        BY <3>2
      <4>3. Holding(new, i, x) = after[i][x]
        BY <4>1, <4>2, <2>2
      <4> QED BY <4>3, <3>1
    <3> QED BY <3>3, <3>4
  <2>4. Balanced'
    BY <2>3, <1>1, <1>10, <1>11, PlainBalance DEF Plain
  <2> QED BY <2>2, <2>4, <1>1, <1>11 DEF BooksInv, Held
<1> QED BY <1>7, <1>8


\* Crafting once: an item less, the output, and the replacement, which waits
\* unless the slot has become free for it.
One(name, x) == IF name = x THEN 1 ELSE 0

LEMMA PlayersSlots == ASSUME NEW j
                      PROVE  InventoryOf(Grid) = "player" /\ InventoryOf(Result) = "player"
                             /\ InventoryOf(<<"main", 1>>) = "player" /\ "player" \in Inventory /\ <<"main", 1>> \in Slots
<1>1. <<"main", 1>> \in Slots
  BY InventoriesAssumption DEF Slots, PlayerLists
<1> QED BY <1>1 DEF InventoryOf, Grid, Result, PlayerLists, Inventory

LEMMA CraftOnceBooks ==
    ASSUME BooksInv, LimitsInv', CraftOnce
    PROVE  BooksInv'
<1>1. pc = "craft" /\ pc' \in {"craft", "replacements"} /\ infinite' = infinite /\ CanCraft
  BY DEF CraftOnce
<1>2. mv \in MvType /\ inv \in Stock /\ booked \in Books
      /\ (mv.swap_item = Empty \/ mv.swap_item.name = Recipe.replacement)
  BY <1>1 DEF BooksInv, LimitsInv, Stocked, Held
<1>3. PICK grid \in Stack, result \in Stack, swapped \in Stack :
        grid = inv[Grid] /\ result = inv[Result] /\ swapped = mv.swap_item
  BY <1>2, CraftSlots DEF Stock, MvType
<1>4. grid.name = Recipe.input /\ Recipe.input \in Items /\ grid.count \in Nat \ {0} /\ Fitting(result, Crafted) = 1
  BY <1>1, <1>3, StackIs, InventoriesAssumption DEF CanCraft, Empty
<1>5. PICK last \in BOOLEAN : last = (grid.count = 1)
  OBVIOUS
<1>6. PICK after_grid : after_grid = IF last THEN Replacement ELSE Left(grid, 1)
  OBVIOUS
<1>7. PICK after_result : after_result = Added(result, Crafted)
  OBVIOUS
<1>8. PICK waits : waits = IF last \/ Replacement = Empty THEN swapped ELSE Of(Replacement.name, swapped.count + 1)
  OBVIOUS
<1>9. /\ inv' = [inv EXCEPT ![Grid] = after_grid, ![Result] = after_result]
      /\ mv' = [mv EXCEPT !.count = IF @ > 1 THEN @ - 1 ELSE @, !.swap_item = waits]
      /\ booked' = Booking(Booking(Booking(booked, "player", Recipe.input, -1), "player", Recipe.output, 1),
                           "player", Replacement.name, Replacement.count)
  BY <1>3, <1>5, <1>6, <1>7, <1>8 DEF CraftOnce, SetInv
<1>10. mv'.swap_item = waits
  <2>1. PICK n : n = IF mv.count > 1 THEN mv.count - 1 ELSE mv.count
    OBVIOUS
  <2>2. mv' = [mv EXCEPT !.count = n, !.swap_item = waits]
    BY <2>1, <1>9
  <2> QED BY <2>2, <1>2 DEF MvType
<1>11. PICK new \in Stock : new = inv'
  BY DEF LimitsInv, Stocked
<1>12. new[Grid] = after_grid /\ new[Result] = after_result /\ \A s \in Slots \ {Grid, Result} : new[s] = inv[s]
  BY <1>2, <1>9, <1>11, CraftSlots DEF Stock
<1>13. PICK after : after = booked'
  OBVIOUS
<1>14. after \in Books /\ \A j \in Inventory, x \in Items :
         after[j][x] = booked[j][x] + (IF j = "player" THEN Amount(Replacement, x) + One(Recipe.output, x)
                                                            - One(Recipe.input, x) ELSE 0)
  <2>1. PICK one : one = Booking(booked, "player", Recipe.input, -1)
    OBVIOUS
  <2>2. PICK two : two = Booking(one, "player", Recipe.output, 1)
    OBVIOUS
  <2>3. "player" \in Inventory /\ Recipe.input \in Items /\ Recipe.output \in Items /\ 1 \in Int /\ -1 \in Int
    BY <1>4, CraftStacks, PlayersSlots
  <2>4. one \in Books /\ \A j \in Inventory, x \in Items :
          one[j][x] = booked[j][x] + IF "player" = j /\ Recipe.input = x THEN -1 ELSE 0
    BY <2>1, <2>3, <1>2, BookingIs, SMTT(30)
  <2>5. two \in Books /\ \A j \in Inventory, x \in Items :
          two[j][x] = one[j][x] + IF "player" = j /\ Recipe.output = x THEN 1 ELSE 0
    <3>1. PICK who \in Inventory, what \in Items \cup {NoItem}, k \in Int :
            who = "player" /\ what = Recipe.output /\ k = 1
      BY <2>3
    <3>2. two = Booking(one, who, what, k)
      BY <2>2, <3>1
    <3>3. two \in Books /\ \A j \in Inventory, x \in Items : two[j][x] = one[j][x] + IF who = j /\ what = x THEN k ELSE 0
      BY ONLY <3>2, <2>4, who \in Inventory, what \in Items \cup {NoItem}, k \in Int, BookingIs
    <3> QED BY <3>1, <3>3
  <2>6. PICK name \in Items \cup {NoItem}, n \in Nat : name = Replacement.name /\ n = Replacement.count
    BY CraftStacks, StackIs
  <2>7. n \in Int /\ after = Booking(two, "player", name, n)
    BY <2>1, <2>2, <2>6, <1>9, <1>13
  <2>8. after \in Books /\ \A j \in Inventory, x \in Items :
          after[j][x] = two[j][x] + IF "player" = j /\ name = x THEN n ELSE 0
    <3>1. PICK who \in Inventory, k \in Int : who = "player" /\ k = n
      BY <2>3, <2>7
    <3>2. after = Booking(two, who, name, k)
      BY <2>7, <3>1
    <3>3. after \in Books /\ \A j \in Inventory, x \in Items : after[j][x] = two[j][x] + IF who = j /\ name = x THEN k ELSE 0
      BY ONLY <3>2, <2>5, who \in Inventory, name \in Items \cup {NoItem}, k \in Int, BookingIs
    <3> QED BY <3>1, <3>3
  <2>9. ASSUME NEW j \in Inventory, NEW x \in Items
        PROVE  after[j][x] = booked[j][x] + (IF j = "player" THEN Amount(Replacement, x) + One(Recipe.output, x)
                                                                  - One(Recipe.input, x) ELSE 0)
    <3>1. booked[j][x] \in Int
      BY <1>2 DEF Books
    <3>2. Amount(Replacement, x) = IF name = x THEN n ELSE 0
      BY <2>6 DEF Amount
    <3>3. /\ one[j][x] = booked[j][x] + IF "player" = j /\ Recipe.input = x THEN -1 ELSE 0
          /\ two[j][x] = one[j][x] + IF "player" = j /\ Recipe.output = x THEN 1 ELSE 0
          /\ after[j][x] = two[j][x] + IF "player" = j /\ name = x THEN n ELSE 0
      BY <2>4, <2>5, <2>8
    <3> QED BY ONLY <3>1, <3>2, <3>3, n \in Nat DEF One
  <2> QED BY <2>8, <2>9
<1>15. ASSUME NEW x \in Items
       PROVE  /\ Amount(after_grid, x) - Amount(grid, x) + Amount(waits, x) - Amount(swapped, x)
                   = Amount(Replacement, x) - One(Recipe.input, x)
              /\ Amount(after_result, x) - Amount(result, x) = One(Recipe.output, x)
              /\ Amount(after_grid, x) \in Int /\ Amount(after_result, x) \in Int
              /\ Amount(grid, x) \in Int /\ Amount(result, x) \in Int
              /\ Amount(waits, x) \in Int /\ Amount(swapped, x) \in Int
  <2>1. /\ Amount(grid, x) \in Nat /\ Amount(result, x) \in Nat /\ Amount(swapped, x) \in Nat
        /\ Amount(Replacement, x) \in Nat /\ Amount(Empty, x) = 0 /\ One(Recipe.input, x) \in Nat
    BY CraftStacks, AmountIs DEF One
  <2>2. Amount(after_result, x) = Amount(result, x) + One(Recipe.output, x)
    <3>1. Crafted = Of(Recipe.output, 1) /\ Crafted.name = Recipe.output /\ Crafted \in Stack
      BY CraftStacks DEF Crafted
    <3>2. 1 \in Nat /\ 1 <= Fitting(result, Crafted)
      BY <1>4
    <3>3. Amount(Added(result, Of(Crafted.name, 1)), x) = Amount(result, x) + IF Crafted.name = x THEN 1 ELSE 0
      BY <3>1, <3>2, AddedAmount
    <3> QED BY <3>1, <3>3, <1>7 DEF One
  <2>3. One(Recipe.output, x) \in Nat
    BY DEF One
  <2>4. CASE last
    <3>1. after_grid = Replacement /\ waits = swapped /\ grid.count = 1
      BY <2>4, <1>5, <1>6, <1>8
    <3>2. Amount(grid, x) = One(Recipe.input, x)
      BY <3>1, <1>4 DEF Amount, One
    <3> QED BY <3>1, <3>2, <2>1, <2>2, <2>3
  <2>5. CASE ~last
    <3>1. after_grid = Left(grid, 1)
      BY <2>5, <1>6
    <3>2. Amount(after_grid, x) = Amount(grid, x) - One(Recipe.input, x)
      <4>1. 1 \in Nat /\ 1 <= grid.count
        BY <1>4
      <4>2. Amount(Left(grid, 1), x) = Amount(grid, x) - IF grid.name = x THEN 1 ELSE 0
        BY <4>1, TakenAmount
      <4> QED BY <4>2, <3>1, <1>4 DEF One
    <3>3. Amount(waits, x) = Amount(swapped, x) + Amount(Replacement, x)
      <4>1. CASE Replacement = Empty
        BY <4>1, <2>1, <1>8
      <4>2. CASE Replacement # Empty
        <5>1. waits = Of(Replacement.name, swapped.count + 1) /\ Replacement.name = Recipe.replacement
              /\ Replacement.name \in Items /\ Replacement.count = 1
          BY <4>2, <2>5, <1>8, CraftStacks
        <5>2. swapped.count \in Nat /\ (swapped = Empty => swapped.count = 0)
          BY StackIs
        <5>3. waits.count = swapped.count + 1 /\ waits.name = Replacement.name
          BY <5>1, <5>2, OfIs
        <5>4. swapped = Empty \/ swapped.name = Replacement.name
          BY <5>1, <1>2, <1>3
        <5>5. Amount(swapped, x) = IF Replacement.name = x THEN swapped.count ELSE 0
          <6>1. CASE swapped = Empty
            BY <6>1, <5>2, <2>1
          <6>2. CASE swapped.name = Replacement.name
            BY <6>2 DEF Amount
          <6> QED BY <6>1, <6>2, <5>4
        <5> QED BY <5>1, <5>2, <5>3, <5>5 DEF Amount
      <4> QED BY <4>1, <4>2
    <3> QED BY <3>2, <3>3, <2>1, <2>2, <2>3
  <2> QED BY <2>4, <2>5
<1>16. ASSUME NEW i \in Inventory, NEW x \in Items \ infinite'
       PROVE  Holding(new, i, x) + (IF i = "player" THEN Amount(waits, x) ELSE 0) = after[i][x]
  <2>1. x \in Items \ infinite
    BY <1>1
  <2>2. Holding(inv, i, x) + (IF i = "player" THEN Amount(swapped, x) ELSE 0) = booked[i][x]
    BY <2>1, <1>1, <1>3, LedgerIs DEF BooksInv, Balanced, Waiting
  <2>3. Holding(new, i, x) = Holding(inv, i, x) + Gain(Grid, i, Amount(new[Grid], x) - Amount(inv[Grid], x))
                                                + Gain(Result, i, Amount(new[Result], x) - Amount(inv[Result], x))
    <3>1. \A s \in Slots \ {Grid, Result} : Amount(new[s], x) = Amount(inv[s], x)
      BY <1>12
    <3>2. Grid \in Slots /\ Result \in Slots /\ Grid # Result /\ x \in Items
      BY <2>1, CraftSlots
    <3> QED BY ONLY <3>1, <3>2, <1>2, new \in Stock, HoldingChangeTwo
  <2>4. Holding(new, i, x) = Holding(inv, i, x) + Gain(Grid, i, Amount(after_grid, x) - Amount(grid, x))
                                                + Gain(Result, i, Amount(after_result, x) - Amount(result, x))
    BY <2>3, <1>3, <1>12
  <2>5. InventoryOf(Grid) = "player" /\ InventoryOf(Result) = "player"
    BY PlayersSlots
  <2>6. Holding(inv, i, x) \in Nat
    BY <2>1, <1>2, HoldingType
  <2>7. after[i][x] = booked[i][x] + (IF i = "player" THEN Amount(Replacement, x) + One(Recipe.output, x)
                                                           - One(Recipe.input, x) ELSE 0)
    BY <2>1, <1>14
  <2>8. /\ Amount(after_grid, x) - Amount(grid, x) + Amount(waits, x) - Amount(swapped, x)
             = Amount(Replacement, x) - One(Recipe.input, x)
        /\ Amount(after_result, x) - Amount(result, x) = One(Recipe.output, x)
        /\ Amount(after_grid, x) \in Int /\ Amount(after_result, x) \in Int
        /\ Amount(grid, x) \in Int /\ Amount(result, x) \in Int
        /\ Amount(waits, x) \in Int /\ Amount(swapped, x) \in Int
    BY <2>1, <1>15
  <2>9. Amount(Replacement, x) \in Nat /\ One(Recipe.input, x) \in Nat
    BY <2>1, CraftStacks, AmountIs DEF One
  <2>10. CASE i = "player"
    <3>1. Holding(new, i, x) = Holding(inv, i, x) + (Amount(after_grid, x) - Amount(grid, x))
                                                  + (Amount(after_result, x) - Amount(result, x))
      BY <2>4, <2>5, <2>10 DEF Gain
    <3>2. booked[i][x] = Holding(inv, i, x) + Amount(swapped, x)
      BY <2>2, <2>10
    <3>3. after[i][x] = booked[i][x] + (Amount(Replacement, x) + One(Recipe.output, x) - One(Recipe.input, x))
      BY <2>7, <2>10
    <3>4. Holding(new, i, x) + Amount(waits, x) = after[i][x]
      BY ONLY <3>1, <3>2, <3>3, <2>6, <2>8, <2>9
    <3> QED BY <3>4, <2>10
  <2>11. CASE i # "player"
    <3>1. Holding(new, i, x) = Holding(inv, i, x) + 0 + 0
      BY <2>4, <2>5, <2>11 DEF Gain
    <3> QED BY <3>1, <2>2, <2>6, <2>7, <2>11
  <2> QED BY <2>10, <2>11
<1>17. Balanced'
  BY <1>1, <1>10, <1>11, <1>13, <1>16, LedgerIs DEF Balanced, Waiting
<1>18. Held'
  <2>1. waits = Empty \/ waits.name = Recipe.replacement
    <3>1. CASE last \/ Replacement = Empty
      BY <3>1, <1>2, <1>3, <1>8
    <3>2. CASE ~(last \/ Replacement = Empty)
      <4>1. waits = Of(Replacement.name, swapped.count + 1) /\ Replacement.name = Recipe.replacement
            /\ Replacement.name \in Items
        BY <3>2, <1>8, CraftStacks
      <4>2. swapped.count + 1 \in Nat /\ swapped.count + 1 # 0
        BY StackIs
      <4> QED BY <4>1, <4>2, OfIs
    <3> QED BY <3>1, <3>2
  <2> QED BY <2>1, <1>1, <1>10 DEF Held
<1> QED BY <1>13, <1>14, <1>17, <1>18 DEF BooksInv


LEMMA CraftEndsBooks ==
    ASSUME BooksInv, LimitsInv', CraftEnds
    PROVE  BooksInv'
<1>1. pc = "craft" /\ pc' = "replacements" /\ UNCHANGED <<inv, booked, infinite, mv>>
  BY DEF CraftEnds, serverVars
<1>2. Held'
  BY <1>1 DEF BooksInv, Held
<1>3. \A i, x : Waiting(i, x)' = Waiting(i, x)
  BY <1>1 DEF Waiting
<1>4. Balanced'
  BY <1>1, <1>3, LedgerIs DEF BooksInv, Balanced
<1> QED BY <1>1, <1>2, <1>4 DEF BooksInv

\* What has waited goes into the main list, and what does not fit is told.
LEMMA GiveReplacementsBooks ==
    ASSUME BooksInv, LimitsInv', GiveReplacements
    PROVE  BooksInv'
<1>1. pc = "replacements" /\ pc' = "idle" /\ infinite' = infinite
  BY DEF GiveReplacements, End
<1>2. mv \in MvType /\ inv \in Stock /\ booked \in Books
  BY <1>1 DEF BooksInv, LimitsInv, Stocked
<1>3. PICK item \in Stack : item = mv.swap_item
  BY <1>2 DEF MvType
<1>4. PICK put : put = AddedToList(inv, "main", item)
  OBVIOUS
<1>5. PICK left \in Stack, new \in Stock : left = put.leftover /\ new = put.stacks
  BY <1>2, <1>4, CraftSlots, AddedToListStock
<1>6. inv' = new /\ booked' = Booking(booked, "player", left.name, - left.count)
  BY <1>3, <1>4, <1>5 DEF GiveReplacements, SetInv
<1>7. PICK slot \in Slots : slot = <<"main", 1>>
  BY PlayersSlots
<1>8. InventoryOf(slot) = "player"
  BY <1>7, PlayersSlots
<1>9. PICK after : after = booked'
  OBVIOUS
<1>10. after \in Books /\ \A j \in Inventory, x \in Items : after[j][x] = booked[j][x] - Gain(slot, j, Amount(left, x))
  <2>1. after = Booking(booked, InventoryOf(slot), left.name, - left.count)
    BY <1>6, <1>8, <1>9
  <2> QED BY <2>1, <1>2, BookOut
<1>11. ASSUME NEW i \in Inventory, NEW x \in Items \ infinite'
       PROVE  Holding(new, i, x) + 0 = after[i][x]
  <2>1. x \in Items \ infinite
    BY <1>1
  <2>2. Holding(inv, i, x) + (IF i = "player" THEN Amount(item, x) ELSE 0) = booked[i][x]
    BY <2>1, <1>1, <1>3, LedgerIs DEF BooksInv, Balanced, Waiting
  <2>3. Holding(new, i, x) = Holding(inv, i, x) + Gain(slot, i, Amount(item, x) - Amount(left, x))
    <3>1. PICK list \in Lists : list = "main"
      BY CraftSlots
    <3>2. Holding(AddedToList(inv, list, item).stacks, i, x) =
             Holding(inv, i, x)
             + Gain(<<list, 1>>, i, Amount(item, x) - Amount(AddedToList(inv, list, item).leftover, x))
      BY <2>1, <1>2, AddedHolding
    <3>3. put = AddedToList(inv, list, item)
      BY <3>1, <1>4
    <3>4. Holding(put.stacks, i, x) = Holding(inv, i, x) + Gain(<<list, 1>>, i, Amount(item, x) - Amount(put.leftover, x))
      BY ONLY <3>2, <3>3
    <3> QED BY <3>1, <3>4, <1>5, <1>7
  <2>4. Amount(item, x) \in Nat /\ Amount(left, x) \in Nat /\ Holding(inv, i, x) \in Nat
    BY <2>1, <1>2, AmountIs, HoldingType
  <2>5. after[i][x] = booked[i][x] - Gain(slot, i, Amount(left, x))
    BY <2>1, <1>10
  <2> QED BY <2>2, <2>3, <2>4, <2>5, <1>8 DEF Gain
<1>12. Plain'
  BY <1>1 DEF Plain
<1>13. Balanced'
  BY <1>6, <1>9, <1>11, <1>12, PlainBalance
<1>14. Held'
  BY <1>1 DEF Held
<1> QED BY <1>9, <1>10, <1>13, <1>14 DEF BooksInv

LEMMA InitBooks == Init => BooksInv
<1> SUFFICES ASSUME Init PROVE BooksInv
  OBVIOUS
<1>1. LimitsInv
  BY InitLimits
<1>2. inv \in Stock /\ pc = "idle"
  BY <1>1 DEF Init, LimitsInv, Stocked
<1>3. \A i \in Inventory, x \in Items : Holding(inv, i, x) \in Nat
  BY <1>2, HoldingType
<1>4. booked = [i \in Inventory |-> [name \in Items |-> Holding(inv, i, name)]]
  BY DEF Init
<1>5. booked \in Books
  BY <1>3, <1>4 DEF Books
<1>6. \A i \in Inventory, x \in Items : Holding(inv, i, x) + 0 = booked[i][x]
  BY <1>3, <1>4
<1>7. Balanced
  BY <1>2, <1>6, LedgerIs, WaitingIs DEF Balanced
<1>8. Held
  BY <1>2 DEF Held
<1> QED BY <1>1, <1>5, <1>7, <1>8 DEF BooksInv

LEMMA StepKeepsBooks ==
    ASSUME BooksInv, LimitsInv', [Next]_vars, \A now : MayChangeInDrop(now) => now = inv
    PROVE  BooksInv'
<1>1. CASE \/ \E a \in Actions : inventoryAction(a)
           \/ ReceiveInventory \/ RevertPrediction \/ SendInventory \/ ModsChange
           \/ handleCommand_InventoryAction
  BY <1>1, IdleBooks
<1>2. CASE \/ MoveToNextSlot \/ BeginMove
           \/ allowMove \/ allowMoveBack \/ allowPut \/ allowTake
           \/ allowBack("allowPutBack", "allowTakeBack") \/ allowBack("allowTakeBack", "move")
  BY <1>2, AskingBooks
<1>3. CASE PerformMove
  BY <1>3, PerformMoveBooks
<1>4. CASE ReportMove
  BY <1>4, ReportMoveBooks
<1>5. CASE BeginDrop
  BY <1>5, BeginDropBooks
<1>6. CASE allowDrop
  BY <1>6, AllowDropBooks
<1>7. CASE onDrop
  BY <1>7, OnDropBooks
<1>8. CASE CraftOnce
  BY <1>8, CraftOnceBooks
<1>9. CASE CraftEnds
  BY <1>9, CraftEndsBooks
<1>10. CASE GiveReplacements
  BY <1>10, GiveReplacementsBooks
<1>11. CASE UNCHANGED vars
  <2>1. UNCHANGED <<inv, mv, pc, act, booked, infinite>>
    BY <1>11 DEF vars, serverVars
  <2>2. Held'
    BY <2>1 DEF BooksInv, Held
  <2>3. Ledger' = Ledger /\ \A i, x : Waiting(i, x)' = Waiting(i, x)
    BY <2>1 DEF Ledger, Told, Waiting, WithinOne
  <2>4. Balanced'
    BY <2>1, <2>3 DEF BooksInv, Balanced
  <2> QED BY <2>1, <2>2, <2>4 DEF BooksInv
<1> QED BY <1>1, <1>2, <1>3, <1>4, <1>5, <1>6, <1>7, <1>8, <1>9, <1>10, <1>11 DEF Next

LEMMA BooksShow == BooksInv => BooksBalance
<1> SUFFICES ASSUME BooksInv, pc = "idle", NEW i \in Inventory, NEW x \in Items \ infinite
             PROVE  Holding(inv, i, x) = booked[i][x]
  BY DEF BooksBalance
<1>1. Holding(inv, i, x) + 0 = booked[i][x]
  BY PlainBooks DEF Plain
<1>2. Holding(inv, i, x) \in Nat
  BY HoldingType DEF BooksInv, LimitsInv, Stocked
<1> QED BY <1>1, <1>2

\* A mod that keeps books from its callbacks knows what an inventory holds,
\* whatever is moved, swapped, dropped and crafted, unless a callback has
\* called an item infinite: nothing is lost or doubled, and no change goes
\* unreported.  That callbacks change a stack while it is being dropped is
\* left out: there the code tells mods of the stack that was, not of the one
\* it takes from.
THEOREM BooksAreBalanced == "changed while dropped" \notin Races => (Spec => []BooksBalance)
<1>1. ASSUME NEW now, MayChangeInDrop(now), "changed while dropped" \notin Races PROVE now = inv
  BY <1>1, Zenon DEF MayChangeInDrop
<1> SUFFICES ASSUME "changed while dropped" \notin Races PROVE Spec => []BooksBalance
  OBVIOUS
<1>2. BooksInv /\ [Next]_vars => BooksInv'
  <2>1. \A now : MayChangeInDrop(now) => now = inv
    BY <1>1, Zenon
  <2>2. BooksInv => LimitsInv
    BY Zenon DEF BooksInv
  <2>3. LimitsInv /\ [Next]_vars => LimitsInv'
    BY StepKeepsLimits, Zenon
  <2> QED BY <2>1, <2>2, <2>3, StepKeepsBooks, Zenon
<1>3. BooksInv => BooksBalance
  BY BooksShow, Zenon
<1> QED BY InitBooks, <1>2, <1>3, PTL DEF Spec
=============================================================================
