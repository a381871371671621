----------------------------- MODULE Inventories -----------------------------
(***************************************************************************)
(* Inventory actions: the client sends a move, a drop or a craft and       *)
(* predicts its outcome; the server applies it, asking mods before each    *)
(* step and telling them afterwards; lists that changed are sent back.     *)
(*                                                                         *)
(* One player with the lists main, craft and craftresult, and one other    *)
(* inventory (a node's or a detached one) with the remaining lists.  The   *)
(* server applies an action under the environment lock, but mods may       *)
(* change any slot in each of the callbacks it makes.  While it does, the  *)
(* client's steps would commute with it, so they wait.                     *)
(*                                                                         *)
(* A stack is an item and a count.  Wear and metadata make an item another *)
(* item.  Lists keep their size: the code refuses to shrink one in use.    *)
(***************************************************************************)
EXTENDS Integers, Sequences, FiniteSets, FiniteSetsExt

CONSTANTS
    Items,
    NoItem,
    Size,              \* list -> number of slots
    StackMax,          \* item -> getStackMax
    InitialStacks,     \* inventories to start with: slot -> stack
    Recipe,            \* [input, output, replacement |-> an item or NoItem]
    Counts,            \* what a client asks for
    Answers,           \* what allow_* callbacks return, -1 for any amount
    ModStacks,         \* what mods put into a slot
    Races,             \* what the code does not keep apart
    MaxEvents          \* bound: actions of the client and changes by mods

KnownRaces == {"same list", "changed while dropped"}
PlayerLists == {"main", "craft", "craftresult"}
Lists == DOMAIN Size

ASSUME InventoriesAssumption ==
    /\ NoItem \notin Items
    /\ PlayerLists \subseteq Lists /\ IsFiniteSet(Lists)
    /\ Size \in [Lists -> Nat \ {0}] /\ Size["craft"] = 1
    /\ StackMax \in [Items -> Nat \ {0}]
    /\ Recipe \in [input : Items, output : Items, replacement : Items \cup {NoItem}]
    /\ Counts \subseteq Nat /\ Answers \subseteq Nat \cup {-1}
    /\ Races \subseteq KnownRaces
    /\ MaxEvents \in Nat

Empty == [name |-> NoItem, count |-> 0]
Stack == {Empty} \cup [name : Items, count : Nat \ {0}]
Slots == UNION {{l} \X (1 .. Size[l]) : l \in Lists}
SlotsOf(L) == {s \in Slots : s[1] \in L}
Infinite == -1

\* The inventories: that of the player and the other one.
Inventory == {"player", "other"}
InventoryOf(slot) == IF slot[1] \in PlayerLists THEN "player" ELSE "other"

ASSUME StacksAssumption ==
    /\ ModStacks \subseteq Stack
    /\ InitialStacks \subseteq [Slots -> Stack]

VARIABLES
    inv,               \* the server's inventories
    dirty,             \* the player's lists marked as modified
    invDirty,          \* Inventory::m_dirty of the player's inventory
    toServer,          \* TOSERVER_INVENTORY_ACTION
    toClient,          \* TOCLIENT_INVENTORY: the lists sent in full
    player,            \* the client's LocalPlayer::inventory
    fromServer,        \* m_inventory_from_server
    pc,                \* where the server is in applying an action
    act,               \* that action
    mv,                \* members and locals of IMoveAction, see NoMove
    booked,            \* what mods know from callbacks: inventory -> item -> count
    infinite,          \* items some callback called infinite
    asked, changes     \* actions sent, slots changed by mods

serverVars == <<inv, dirty, invDirty, booked, infinite, changes>>
clientVars == <<player, fromServer>>
vars == <<serverVars, clientVars, toServer, toClient, pc, act, mv, asked>>

-----------------------------------------------------------------------------
(* Stacks and slots.                                                       *)

Limit(m, n) == IF m < n THEN m ELSE n
Of(name, n) == IF n = 0 THEN Empty ELSE [name |-> name, count |-> n]

freeSpace(stack) ==
    IF stack.count >= StackMax[stack.name] THEN 0 ELSE StackMax[stack.name] - stack.count

\* ItemStack::itemFits and addItem: how many of the stack go into the slot.
Fitting(slot, stack) ==
    IF stack = Empty THEN 0
    ELSE IF slot = Empty THEN stack.count
    ELSE IF slot.name # stack.name THEN 0
    ELSE Limit(stack.count, freeSpace(slot))

Added(slot, stack) ==
    IF slot = Empty THEN stack ELSE Of(slot.name, slot.count + Fitting(slot, stack))
Taken(stack, count) == Of(stack.name, Limit(stack.count, count))
Left(stack, count) == Of(stack.name, stack.count - Limit(stack.count, count))

\* moveItem and changeItem take a count of 0 for the whole stack.
Wanted(stack, count) == IF count = 0 THEN stack ELSE Taken(stack, count)

\* Variant: what does not fit is not put back.
moveItem_NoPutBack(stacks, from, to, count, swap) ==
    LET taken == Wanted(stacks[from], count)
        fits == Fitting(stacks[to], taken)
    IN  IF from = to \/ taken = Empty
        THEN [stacks |-> stacks, moved |-> Empty, did_swap |-> FALSE]
        ELSE IF fits = 0 /\ swap
        THEN [stacks |-> [stacks EXCEPT ![from] = stacks[to], ![to] = stacks[from]],
              moved |-> stacks[from], did_swap |-> TRUE]
        ELSE [stacks |-> [stacks EXCEPT ![from] = Left(@, taken.count),
                                        ![to] = Added(@, Of(taken.name, fits))],
              moved |-> Of(taken.name, fits), did_swap |-> FALSE]

\* InventoryList::moveItem.  What does not fit stays; if nothing fits, the
\* whole stacks change places.
moveItem(stacks, from, to, count, swap) ==
    LET taken == Wanted(stacks[from], count)
        fits == Fitting(stacks[to], taken)
    IN  IF from = to \/ taken = Empty
        THEN [stacks |-> stacks, moved |-> Empty, did_swap |-> FALSE]
        ELSE IF fits = 0 /\ swap
        THEN [stacks |-> [stacks EXCEPT ![from] = stacks[to], ![to] = stacks[from]],
              moved |-> stacks[from], did_swap |-> TRUE]
        ELSE [stacks |-> [stacks EXCEPT ![from] = Left(@, fits),
                                        ![to] = Added(@, Of(taken.name, fits))],
              moved |-> Of(taken.name, fits), did_swap |-> FALSE]

\* How many of the stack all these slots together could take.
Room(stacks, stack, S) == MapThenSumSet(LAMBDA t : Fitting(stacks[t], stack), S)

\* InventoryList::addItem on a list: first the slots in use, then the empty
\* ones; each slot gets what the ones before it leave.
AddedToList(stacks, list, stack) ==
    LET used == {s \in SlotsOf({list}) : stacks[s] # Empty}
        before(s) == {t \in SlotsOf({list}) :
                        \/ t \in used /\ s \notin used
                        \/ (t \in used <=> s \in used) /\ t[2] < s[2]}
        given(s) == LET given_before == Room(stacks, stack, before(s)) IN
                    Limit(Fitting(stacks[s], stack),
                          IF given_before > stack.count THEN 0 ELSE stack.count - given_before)
    IN  [stacks |-> [s \in Slots |->
                        IF s[1] = list THEN Added(stacks[s], Of(stack.name, given(s))) ELSE stacks[s]],
         leftover |-> Left(stack, Room(stacks, stack, SlotsOf({list})))]

\* InventoryList::moveItemSomewhere; what is left returns to its slot.
moveItemSomewhere(stacks, from, list, count) ==
    LET taken == Wanted(stacks[from], count)
        rest == [stacks EXCEPT ![from] = Left(@, taken.count)]
        put == AddedToList(rest, list, taken)
    IN  IF put.leftover = Empty THEN put.stacks
        ELSE [put.stacks EXCEPT ![from] = Of(taken.name, put.leftover.count + @.count)]

Holding(stacks, i, name) ==
    MapThenSumSet(LAMBDA s : IF stacks[s].name = name THEN stacks[s].count ELSE 0,
                  {s \in Slots : InventoryOf(s) = i})
-----------------------------------------------------------------------------
(* Actions and their prediction.                                           *)

Move == [type : {"Move"}, from : Slots, to : Slots, count : Counts]
MoveSomewhere == [type : {"MoveSomewhere"}, from : Slots, to_list : Lists, count : Counts \ {0}]
Drop == [type : {"Drop"}, from : Slots, count : Counts]
Craft == [type : {"Craft"}, count : Counts]
Actions == Move \cup MoveSomewhere \cup Drop \cup Craft
NoAction == [type |-> "none"]

ToList(a) == IF a.type = "Move" THEN a.to[1] ELSE a.to_list

\* The lists an action names.
ListsOf(a) ==
    CASE a.type \in {"Move", "MoveSomewhere"} -> {a.from[1], ToList(a)}
      [] a.type = "Drop" -> {a.from[1]}
      [] OTHER -> {}

DropPredicted(stacks, a) == [stacks EXCEPT ![a.from] = Left(@, Wanted(@, a.count).count)]

\* InventoryAction::clientApply: nothing is predicted for other inventories.
clientApply(stacks, a) ==
    CASE a.type = "Craft" \/ ~ListsOf(a) \subseteq PlayerLists -> stacks
      [] a.type = "Move" -> moveItem(stacks, a.from, a.to, a.count, TRUE).stacks
      [] a.type = "MoveSomewhere" -> moveItemSomewhere(stacks, a.from, a.to_list, a.count)
      [] a.type = "Drop" -> DropPredicted(stacks, a)

PlayersPart(stacks) == [s \in SlotsOf(PlayerLists) |-> stacks[s]]

\* clientApply works on the player's slots alone; the others stand in as empty.
Predicted(a) ==
    PlayersPart(clientApply([s \in Slots |-> IF s[1] \in PlayerLists THEN player[s] ELSE Empty], a))

SameList(a) == a.type = "MoveSomewhere" /\ a.from[1] = ToList(a)

\* Client::inventoryAction
inventoryAction(a) ==
    /\ pc = "idle" /\ asked + changes < MaxEvents
    /\ SameList(a) => "same list" \in Races
    /\ asked' = asked + 1
    /\ toServer' = Append(toServer, a)
    /\ player' = Predicted(a)
    /\ UNCHANGED <<serverVars, fromServer, toClient, pc, act, mv>>

\* handleCommand_Inventory: lists that were not sent are kept as they are,
\* predictions included.
ReceiveInventory ==
    /\ pc = "idle" /\ toClient # <<>>
    /\ LET update == Head(toClient) IN
       player' = [s \in SlotsOf(PlayerLists) |-> IF s \in DOMAIN update THEN update[s] ELSE player[s]]
    /\ fromServer' = player'
    /\ toClient' = Tail(toClient)
    /\ UNCHANGED <<serverVars, toServer, pc, act, mv, asked>>

\* Every 10 seconds without news the client goes back to what it was sent.
RevertPrediction ==
    /\ pc = "idle" /\ player # fromServer
    /\ player' = fromServer
    /\ UNCHANGED <<serverVars, fromServer, toServer, toClient, pc, act, mv, asked>>

-----------------------------------------------------------------------------
(* What mods do in a callback, or in between.                              *)

ModsLeave == {inv} \cup
    (IF asked + changes < MaxEvents THEN {[inv EXCEPT ![s] = st] : s \in Slots, st \in ModStacks} ELSE {})

Changed(before, after) == {s \in Slots : after[s] # before[s]}
ListsIn(S) == {s[1] : s \in S} \cap PlayerLists

\* A mod knows what it changed itself.
Booking(b, i, name, n) == IF name = NoItem THEN b ELSE [b EXCEPT ![i][name] = @ + n]
BookedChanges(b, now) ==
    IF now = inv THEN b
    ELSE LET s == CHOOSE s \in Slots : now[s] # inv[s]
         IN  Booking(Booking(b, InventoryOf(s), inv[s].name, - inv[s].count),
                     InventoryOf(s), now[s].name, now[s].count)

\* The lists of what changed are marked.
SetInv(now) ==
    /\ inv' = now
    /\ dirty' = dirty \cup ListsIn(Changed(inv, now))

\* Mods leave the inventories as they are, or change one slot.
Callback(now) ==
    /\ now \in ModsLeave
    /\ changes' = IF now = inv THEN changes ELSE changes + 1

\* A callback in which nothing else happens.
Asking(now) ==
    /\ Callback(now) /\ SetInv(now)
    /\ booked' = BookedChanges(booked, now)
    /\ UNCHANGED <<invDirty, infinite>>

ModsChange ==
    /\ pc = "idle"
    /\ \E now \in ModsLeave \ {inv} : Asking(now)
    /\ UNCHANGED <<clientVars, toServer, toClient, pc, act, mv, asked>>

-----------------------------------------------------------------------------
(* The server takes and ends actions.                                      *)

NoMove == [count |-> 0, to |-> <<"main", 1>>, filling |-> TRUE, next |-> 1,
           move_count |-> 0, src |-> 0, dst |-> 0, swap |-> FALSE, back |-> {},
           did_swap |-> FALSE, src_item |-> Empty, swap_item |-> Empty,
           changes |-> 0, total |-> 0]

\* The restrictions of handleCommand_InventoryAction; whether the player may
\* reach another inventory, or interact at all, is not known here.
Refused(a) ==
    \/ a.type \in {"Move", "MoveSomewhere"} /\ ToList(a) = "craftresult"
MayBeRefused(a) == a.type \in {"Drop", "Craft"} \/ ~ListsOf(a) \subseteq PlayerLists

Entry(a) == CASE a.type = "Move" -> "apply" [] a.type = "MoveSomewhere" -> "somewhere"
              [] a.type = "Drop" -> "drop" [] a.type = "Craft" -> "craft"

\* Variant: only the list the items come from.
Marked_Source(a) == IF a.type = "Craft" THEN {} ELSE {a.from[1]} \cap PlayerLists
Marked(a) == ListsOf(a) \cap PlayerLists

\* Both lists are marked before anything is looked at: the client may have
\* predicted what is going to be refused.
handleCommand_InventoryAction ==
    /\ pc = "idle" /\ toServer # <<>>
    /\ LET a == Head(toServer) IN
       /\ toServer' = Tail(toServer)
       /\ dirty' = dirty \cup Marked(a)
       /\ invDirty' = (invDirty \/ a.type = "Craft" \/ Marked(a) # {})
       /\ \/ /\ Refused(a) \/ MayBeRefused(a)
             /\ UNCHANGED <<pc, act, mv>>
          \/ /\ ~Refused(a)
             /\ pc' = Entry(a)
             /\ act' = a
             /\ mv' = [NoMove EXCEPT !.count = a.count,
                                     !.to = IF a.type = "Move" THEN a.to ELSE @]
    /\ UNCHANGED <<inv, clientVars, toClient, booked, infinite, asked, changes>>

\* The end of an apply of IMoveAction; "move somewhere" goes on with the
\* next slot, with its u16 count reduced by what move_count says.
Return(m) ==
    IF act.type = "MoveSomewhere"
    THEN /\ pc' = "somewhere"
         /\ mv' = [NoMove EXCEPT !.count = (m.count - m.move_count) % 65536,
                                 !.filling = m.filling, !.next = m.next,
                                 !.move_count = m.move_count, !.total = m.total]
         /\ UNCHANGED act
    ELSE pc' = "idle" /\ act' = NoAction /\ mv' = NoMove

\* The loops of "move somewhere": slots in use first, then the empty ones.
MoveToNextSlot ==
    /\ pc = "somewhere"
    /\ LET rest == {i \in mv.next .. Size[act.to_list] :
                      mv.filling <=> inv[<<act.to_list, i>>] # Empty}
           i == Min(rest)
       IN  IF mv.count > 0 /\ rest # {}
           THEN /\ pc' = "apply"
                /\ mv' = [mv EXCEPT !.to = <<act.to_list, i>>, !.next = i + 1]
                /\ UNCHANGED act
           ELSE IF mv.count > 0 /\ mv.filling
           THEN /\ mv' = [mv EXCEPT !.filling = FALSE, !.next = 1]
                /\ UNCHANGED <<pc, act>>
           ELSE pc' = "idle" /\ act' = NoAction /\ mv' = NoMove
    /\ UNCHANGED <<serverVars, clientVars, toServer, toClient, asked>>
-----------------------------------------------------------------------------
(* IMoveAction::apply for one pair of slots.                               *)

caused_by_move_somewhere == act.type = "MoveSomewhere"
WithinOne == InventoryOf(act.from) = InventoryOf(mv.to)
Unlocked == UNCHANGED <<clientVars, toServer, toClient, asked>>

\* Up to the first callback: how many would move, or whether the stacks are
\* to be swapped.
BeginMove ==
    /\ pc = "apply"
    /\ LET whole == inv[act.from]
           src_item == IF mv.count > 0 THEN Taken(whole, mv.count) ELSE whole
           fits == Fitting(inv[mv.to], src_item)
           swap == fits = 0 /\ ~caused_by_move_somewhere
       IN  IF act.from = mv.to \/ src_item = Empty
           THEN Return(mv)
           ELSE IF fits = 0 /\ caused_by_move_somewhere
           THEN Return([mv EXCEPT !.move_count = 0])
           ELSE /\ pc' = IF WithinOne THEN "allowMove" ELSE "allowPut"
                /\ mv' = [mv EXCEPT !.move_count = IF swap THEN whole.count ELSE fits,
                                    !.swap = swap, !.back = {}, !.changes = changes]
                /\ UNCHANGED act
    /\ UNCHANGED serverVars /\ Unlocked

\* Variant: any answer but 0 allows a swap.
Allows_Any(n, count) == n # 0
Allows(n, count) == n = Infinite \/ n >= count

\* A swap that is not allowed in full is not done at all.
Denied == [mv EXCEPT !.swap = FALSE, !.src = 0, !.dst = 0]

allowMove ==
    /\ pc = "allowMove"
    /\ \E now \in ModsLeave, n \in Answers :
        /\ Asking(now)
        /\ IF mv.swap /\ Allows(n, mv.move_count)
           THEN pc' = "allowMoveBack" /\ mv' = [mv EXCEPT !.src = n, !.swap_item = now[mv.to]]
           ELSE pc' = "move" /\ mv' = IF mv.swap THEN Denied ELSE [mv EXCEPT !.src = n, !.dst = n]
    /\ UNCHANGED act /\ Unlocked

allowMoveBack ==
    /\ pc = "allowMoveBack"
    /\ \E now \in ModsLeave, n \in Answers :
        /\ Asking(now)
        /\ mv' = IF Allows(n, mv.swap_item.count) THEN [mv EXCEPT !.dst = n, !.back = {n}] ELSE Denied
    /\ pc' = "move"
    /\ UNCHANGED act /\ Unlocked

allowPut ==
    /\ pc = "allowPut"
    /\ \E now \in ModsLeave, n \in Answers :
        Asking(now) /\ mv' = [mv EXCEPT !.dst = n]
    /\ pc' = "allowTake"
    /\ UNCHANGED act /\ Unlocked

allowTake ==
    /\ pc = "allowTake"
    /\ \E now \in ModsLeave, n \in Answers :
        /\ Asking(now)
        /\ IF mv.swap /\ Allows(n, mv.move_count) /\ Allows(mv.dst, mv.move_count)
           THEN pc' = "allowPutBack" /\ mv' = [mv EXCEPT !.src = n, !.swap_item = now[mv.to]]
           ELSE pc' = "move" /\ mv' = IF mv.swap THEN Denied ELSE [mv EXCEPT !.src = n]
    /\ UNCHANGED act /\ Unlocked

\* allowPut and allowTake for the other stack; both are asked in any case.
allowBack(here, next) ==
    /\ pc = here
    /\ \E now \in ModsLeave, n \in Answers :
        /\ Asking(now)
        /\ mv' = IF next = "move" /\ \E m \in mv.back \cup {n} : ~Allows(m, mv.swap_item.count)
                 THEN Denied ELSE [mv EXCEPT !.back = @ \cup {n}]
    /\ pc' = next
    /\ UNCHANGED act /\ Unlocked

\* The amount the answers leave, and no more than is still there.
Allowed ==
    LET limits == {mv.move_count} \cup ({mv.src, mv.dst} \ {Infinite})
    IN  Limit(Min(limits), inv[act.from].count)

\* An infinite source gets its stack back, and what it was swapped with goes
\* to an empty slot of the destination; an infinite destination gets its
\* stack back, and after a swap the source loses what has moved.
WithInfinite(result) ==
    LET from_was == inv[act.from]
        to_was == inv[mv.to]
        free == {s \in SlotsOf({mv.to[1]}) : result.stacks[s] = Empty}
        first == CHOOSE s \in free : \A t \in free : s[2] <= t[2]
        placed == IF mv.src = Infinite /\ ~caused_by_move_somewhere
                     /\ from_was.name # to_was.name /\ free # {}
                  THEN [result.stacks EXCEPT ![first] = to_was] ELSE result.stacks
        source == IF mv.src = Infinite /\ (result.moved # Empty \/ result.did_swap)
                  THEN [placed EXCEPT ![act.from] = from_was] ELSE placed
    IN  IF mv.dst # Infinite THEN source
        ELSE IF result.did_swap
        THEN [source EXCEPT ![mv.to] = to_was, ![act.from] = Left(from_was, result.moved.count)]
        ELSE [source EXCEPT ![mv.to] = to_was]

Endless(stacks) == {stacks[act.from].name, stacks[mv.to].name}

PerformMove ==
    /\ pc = "move"
    /\ IF Allowed = 0
       THEN \* undo what the client has predicted
            /\ dirty' = dirty \cup ({act.from[1], mv.to[1]} \cap PlayerLists)
            /\ Return([mv EXCEPT !.move_count = 0])
            /\ UNCHANGED <<inv, infinite>>
       ELSE LET result == moveItem(inv, act.from, mv.to, Allowed, mv.swap)
                now == WithInfinite(result)
                done == [mv EXCEPT !.move_count = result.moved.count,
                                   !.total = @ + result.moved.count,
                                   !.did_swap = result.did_swap,
                                   !.src_item = result.moved,
                                   !.swap_item = IF result.did_swap THEN now[act.from] ELSE Empty]
            IN  /\ SetInv(now)
                /\ infinite' = IF Infinite \in {mv.src, mv.dst}
                               THEN infinite \cup Endless(inv) ELSE infinite
                /\ IF caused_by_move_somewhere /\ result.moved = Empty
                   THEN Return(done)
                   ELSE pc' = "report" /\ mv' = done /\ UNCHANGED act
    /\ UNCHANGED <<invDirty, booked, changes>> /\ Unlocked

\* What mods are told: onTake and onPut with the stack that moved, then with
\* the one it was swapped with.  onMove says nothing about an inventory's
\* contents.
Told ==
    LET there == Booking(Booking(booked, InventoryOf(act.from), mv.src_item.name, - mv.src_item.count),
                         InventoryOf(mv.to), mv.src_item.name, mv.src_item.count)
    IN  IF WithinOne THEN booked
        ELSE Booking(Booking(there, InventoryOf(mv.to), mv.swap_item.name, - mv.swap_item.count),
                     InventoryOf(act.from), mv.swap_item.name, mv.swap_item.count)

ReportMove ==
    /\ pc = "report"
    /\ \E now \in ModsLeave :
        Callback(now) /\ SetInv(now) /\ booked' = BookedChanges(Told, now)
    /\ invDirty' = (invDirty \/ "player" \in {InventoryOf(act.from), InventoryOf(mv.to)})
    /\ Return(mv)
    /\ UNCHANGED infinite /\ Unlocked

-----------------------------------------------------------------------------
(* IDropAction::apply.  mv.src is what allow_take answered, mv.move_count  *)
(* is take_count, mv.src_item what it is called for.                       *)

End == pc' = "idle" /\ act' = NoAction /\ mv' = NoMove

BeginDrop ==
    /\ pc = "drop"
    /\ IF inv[act.from] = Empty THEN End
       ELSE /\ pc' = "allowDrop"
            /\ mv' = [mv EXCEPT !.move_count = Wanted(inv[act.from], act.count).count]
            /\ UNCHANGED act
    /\ UNCHANGED serverVars /\ Unlocked

MayChangeInDrop(now) == now = inv \/ "changed while dropped" \in Races

\* When nothing is dropped the client's prediction is undone.
Undone(count) == IF count = 0 THEN {act.from[1]} \cap PlayerLists ELSE {}

\* The stack is read again, the amount is not.
allowDrop ==
    /\ pc = "allowDrop"
    /\ \E now \in ModsLeave, n \in Answers :
        LET count == IF n = Infinite THEN mv.move_count ELSE Limit(n, mv.move_count) IN
        /\ MayChangeInDrop(now) /\ Callback(now)
        /\ inv' = now
        /\ booked' = BookedChanges(booked, now)
        /\ dirty' = dirty \cup ListsIn(Changed(inv, now)) \cup Undone(count)
        /\ IF count = 0 THEN End
           ELSE /\ pc' = "onDrop"
                /\ mv' = [mv EXCEPT !.src = n, !.move_count = count, !.src_item = now[act.from]]
                /\ UNCHANGED act
    /\ UNCHANGED <<invDirty, infinite>> /\ Unlocked

\* on_drop makes the items an object, or returns some of them; onTake is
\* told what has gone.
onDrop ==
    /\ pc = "onDrop"
    /\ \E now \in ModsLeave, dropped \in 0 .. mv.move_count :
        LET taken == IF mv.src = Infinite \/ dropped = 0 THEN now
                     ELSE [now EXCEPT ![act.from] = Left(@, dropped)]
            told == IF dropped = 0 THEN booked
                    ELSE Booking(booked, InventoryOf(act.from), mv.src_item.name, - dropped)
        IN  /\ MayChangeInDrop(now) /\ Callback(now)
            /\ inv' = taken
            /\ dirty' = dirty \cup ListsIn(Changed(inv, taken)) \cup Undone(dropped)
            /\ invDirty' = (invDirty \/ (dropped > 0 /\ act.from[1] \in PlayerLists))
            /\ booked' = BookedChanges(told, now)
            /\ infinite' = IF mv.src = Infinite THEN infinite \cup {mv.src_item.name} ELSE infinite
    /\ End
    /\ Unlocked

-----------------------------------------------------------------------------
(* ICraftAction::apply.  Craft callbacks are taken to change nothing.      *)
(* mv.swap_item are the replacements that wait for the end.                *)

Grid == <<"craft", 1>>
Result == <<"craftresult", 1>>
Crafted == Of(Recipe.output, 1)
Replacement == IF Recipe.replacement = NoItem THEN Empty ELSE Of(Recipe.replacement, 1)

CanCraft == inv[Grid].name = Recipe.input /\ Fitting(inv[Result], Crafted) = 1

\* getCraftingResult with decrementInput: the last item of a slot becomes its
\* replacement there, others put theirs aside.
CraftOnce ==
    /\ pc = "craft" /\ CanCraft
    /\ LET last == inv[Grid].count = 1 IN
        /\ SetInv([inv EXCEPT ![Grid] = IF last THEN Replacement ELSE Left(@, 1),
                              ![Result] = Added(@, Crafted)])
        /\ mv' = [mv EXCEPT !.count = IF @ > 1 THEN @ - 1 ELSE @,
                            !.swap_item = IF last \/ Replacement = Empty THEN @
                                          ELSE Of(Replacement.name, @.count + 1)]
    /\ invDirty' = TRUE
    /\ booked' = Booking(Booking(Booking(booked, "player", Recipe.input, -1), "player", Recipe.output, 1),
                         "player", Replacement.name, Replacement.count)
    /\ pc' = IF mv.count = 1 THEN "replacements" ELSE "craft"
    /\ UNCHANGED <<act, infinite, changes>> /\ Unlocked

CraftEnds ==
    /\ pc = "craft" /\ ~CanCraft
    /\ pc' = "replacements"
    /\ UNCHANGED <<serverVars, act, mv>> /\ Unlocked

\* Into the main list, what does not fit to the floor.
GiveReplacements ==
    /\ pc = "replacements"
    /\ LET put == AddedToList(inv, "main", mv.swap_item) IN
        /\ SetInv(put.stacks)
        /\ booked' = Booking(booked, "player", put.leftover.name, - put.leftover.count)
    /\ End
    /\ UNCHANGED <<invDirty, infinite, changes>> /\ Unlocked

-----------------------------------------------------------------------------
(* The server sends what changed, see ServerEnvironment::step.             *)

SendInventory ==
    /\ pc = "idle"
    /\ invDirty \/ dirty # {}
    /\ toClient' = Append(toClient, [s \in SlotsOf(dirty) |-> inv[s]])
    /\ dirty' = {} /\ invDirty' = FALSE
    /\ UNCHANGED <<inv, booked, infinite, changes, clientVars, toServer, pc, act, mv, asked>>

Init ==
    /\ inv \in InitialStacks
    /\ dirty = {} /\ invDirty = FALSE
    /\ toServer = <<>> /\ toClient = <<>>
    /\ player = PlayersPart(inv) /\ fromServer = player
    /\ pc = "idle" /\ act = NoAction /\ mv = NoMove
    /\ booked = [i \in Inventory |-> [name \in Items |-> Holding(inv, i, name)]]
    /\ infinite = {} /\ asked = 0 /\ changes = 0

Next ==
    \/ \E a \in Actions : inventoryAction(a)
    \/ ReceiveInventory \/ RevertPrediction
    \/ ModsChange
    \/ handleCommand_InventoryAction \/ MoveToNextSlot
    \/ BeginMove \/ allowMove \/ allowMoveBack \/ allowPut \/ allowTake
    \/ allowBack("allowPutBack", "allowTakeBack") \/ allowBack("allowTakeBack", "move")
    \/ PerformMove \/ ReportMove
    \/ BeginDrop \/ allowDrop \/ onDrop
    \/ CraftOnce \/ CraftEnds \/ GiveReplacements
    \/ SendInventory

Spec == Init /\ [][Next]_vars

-----------------------------------------------------------------------------
(* Properties.                                                             *)

Count == 0 .. 65535
TypeOK ==
    /\ inv \in [Slots -> Stack]
    /\ dirty \subseteq PlayerLists /\ invDirty \in BOOLEAN
    /\ toServer \in Seq(Actions)
    /\ \A i \in 1 .. Len(toClient) :
        \E L \in SUBSET PlayerLists : toClient[i] \in [SlotsOf(L) -> Stack]
    /\ player \in [SlotsOf(PlayerLists) -> Stack] /\ fromServer \in [SlotsOf(PlayerLists) -> Stack]
    /\ pc \in {"idle", "somewhere", "apply", "allowMove", "allowMoveBack", "allowPut", "allowTake",
               "allowPutBack", "allowTakeBack", "move", "report", "drop", "allowDrop", "onDrop",
               "craft", "replacements"}
    /\ act \in Actions \cup {NoAction} /\ (act = NoAction <=> pc = "idle")
    /\ mv.count \in Count /\ mv.to \in Slots /\ mv.src_item \in Stack /\ mv.swap_item \in Stack
    /\ booked \in [Inventory -> [Items -> Int]]
    /\ infinite \subseteq Items \cup {NoItem}

\* A mod that keeps books from its on_put, on_take and craft callbacks knows
\* what an inventory holds, through partial moves, swaps, "move somewhere",
\* drops and crafts, unless a callback has called an item infinite.  Nothing
\* is lost or doubled, and no change goes unreported.
BooksBalance ==
    pc = "idle" =>
        \A i \in Inventory, name \in Items \ infinite : Holding(inv, i, name) = booked[i][name]

\* What a move has taken is what every allow_* callback agreed to: for a swap
\* both stacks with all callbacks asked again, unless a callback itself has
\* changed the stacks meanwhile; and all parts of a "move somewhere" together
\* are no more than was asked for.
WithinLimits ==
    pc = "report" =>
        LET unchanged == mv.changes = changes
            agreed == IF mv.did_swap /\ WithinOne THEN {mv.src} ELSE {mv.src, mv.dst}
            covers(n, stack) == n = Infinite \/ n >= stack.count
        IN  /\ unchanged => (mv.swap <=> mv.did_swap)
            /\ (mv.did_swap => unchanged) => \A n \in agreed : covers(n, mv.src_item)
            /\ mv.did_swap /\ unchanged /\ Infinite \notin agreed =>
                    mv.back # {} /\ \A n \in mv.back : covers(n, mv.swap_item)
            /\ mv.did_swap => ~caused_by_move_somewhere
            /\ act.count > 0 /\ ~mv.swap => mv.total <= act.count

\* Whatever the client predicted, reverted or kept: unless a list is marked
\* for sending, or an action that names it is on its way and will mark it,
\* the latest update that carries it has the server's contents, and with no
\* update on its way the client shows these and would go back to these.
DifferencesGetCorrected ==
    \A s \in SlotsOf(PlayerLists) :
        \/ s[1] \in dirty
        \/ \E i \in 1 .. Len(toServer) : s[1] \in ListsOf(toServer[i])
        \/ LET sent == {i \in 1 .. Len(toClient) : s \in DOMAIN toClient[i]} IN
           \/ sent = {} /\ player[s] = inv[s] /\ fromServer[s] = inv[s]
           \/ \E i \in sent : toClient[i][s] = inv[s] /\ \A j \in sent : j <= i
=============================================================================
