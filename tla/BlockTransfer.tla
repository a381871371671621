---------------------------- MODULE BlockTransfer ----------------------------
(***************************************************************************)
(* How the map reaches a client.  The server scans the blocks around the   *)
(* player from near to far (RemoteClient::GetNextBlocks), asks the emerge  *)
(* threads for those that do not exist, sends BLOCKDATA for the others and *)
(* remembers which are on the wire and which have arrived.  A changed node *)
(* is sent by itself to a client that has its block; otherwise the block   *)
(* is marked as not sent.  The client draws a block before it acknowledges *)
(* it, forgets blocks, and predicts the outcome of what its player digs    *)
(* and places.                                                             *)
(*                                                                         *)
(* The content of a block is the set of changes made to it, each to a node *)
(* of its own: BLOCKDATA carries all of them, ADDNODE one.                 *)
(***************************************************************************)
EXTENDS Integers, Sequences, FiniteSets, FiniteSetsExt, SequencesExt

CONSTANTS
  Blocks,               \* the block positions around the player
  Views,                \* the places and directions the player looks from
  InSight,              \* InSight[v]: the blocks in sight
  Rank,                 \* Rank[v][b]: the place of b in the order of the scan
  Distance,             \* Distance[v][b]: the d at which the scan meets b
  Priority,             \* Priority[v][b]: how far b is from the eye; nearer first
  Hides,                \* Hides[v][b]: the blocks that hide b while opaque
  Opaque,               \* blocks that are opaque until one of their nodes changes
  Air,                  \* blocks of air until one of their nodes changes
  Stored, Generated,    \* blocks in the database, and in memory, at the start
  Border,               \* Border[b]: blocks created around b when it is generated
  FullDMax, DMaxGen, DOpt, DCullOpt,   \* full_d_max, d_max_gen, d_opt, d_cull_opt
  MaxSimulSends,        \* m_max_simul_sends
  MaxBlocksToSend,      \* max_blocks_to_send of Server::SendBlocks
  EmergeLimit,          \* how many blocks the emerge queue takes
  MaxChanges,           \* bound: changes, moves, unloads, interactions
  Races                 \* what the server does not guard against, see RaceKinds

(* "channels": a packet on channel 0 overtakes one on channel 2.           *)
(* "border": a player that may not do so places a node from one block into *)
(* another one.                                                            *)
(* "unloaded": a mod sets a node of a block that is not in memory.         *)
RaceKinds == {"channels", "border", "unloaded"}

ASSUME BlockTransferAssumption ==
  /\ IsFiniteSet(Blocks)
  /\ Opaque \subseteq Blocks /\ Air \subseteq Blocks
  /\ Stored \subseteq Blocks /\ Generated \subseteq Blocks
  /\ Stored \cap Generated = {}
  /\ \A b \in Blocks : Border[b] \subseteq Blocks
  /\ \A v \in Views : /\ InSight[v] \subseteq Blocks
                      /\ \A b \in Blocks : /\ Distance[v][b] \in Nat
                                            /\ Rank[v][b] \in Int /\ Priority[v][b] \in Int
  /\ \A v \in Views : \A b, q \in Blocks :
       b # q => /\ Rank[v][b] # Rank[v][q] /\ Priority[v][b] # Priority[v][q]
                /\ Rank[v][b] < Rank[v][q] => Distance[v][b] <= Distance[v][q]
  /\ MaxSimulSends \in Nat \ {0} /\ MaxBlocksToSend \in Nat \ {0}
  /\ {FullDMax, DMaxGen, DOpt, DCullOpt, EmergeLimit, MaxChanges} \subseteq Nat
  /\ Races \subseteq RaceKinds

Changes == 1..MaxChanges
NotLoaded == {0}   \* no block: a set that is no set of changes
BLOCK_ALWAYS_SEND_MAX_D == 1

VARIABLES
  memory,     \* memory[b]: where the server has b
  content,    \* content[b]: the changes made to b
  emerging,   \* emerging[b]: is b in the emerge queue, and may it be generated?
  events,     \* m_unsent_map_edit_queue
  view,       \* where the player is and looks, as the server knows it
  client,     \* the RemoteClient
  down, up,   \* the packets under way, by channel
  shown,      \* shown[b]: what the client has of b
  acks,       \* acks[b]: acknowledgements of b that wait for its mesh
  changes     \* how much has been disturbed

serverVars == <<memory, content, emerging, events, view, client>>
clientVars == <<shown, acks>>
btVars == <<serverVars, clientVars, down, up, changes>>

InMemory(b) == memory[b] \in {"blank", "generated"}

BTInit ==
  /\ memory = [b \in Blocks |-> IF b \in Generated THEN "generated"
                                ELSE IF b \in Stored THEN "stored" ELSE "absent"]
  /\ content = [b \in Blocks |-> {}]
  /\ emerging = [b \in Blocks |-> "no"]
  /\ events = <<>>
  /\ view \in Views
  /\ client = [sending |-> {}, sent |-> {}, occ |-> {}, nearest |-> 0,
               view |-> view, paused |-> FALSE]
  /\ down = [ch \in {0, 2} |-> <<>>]
  /\ up = [ch \in {0, 2} |-> <<>>]
  /\ shown = [b \in Blocks |-> NotLoaded]
  /\ acks = [b \in Blocks |-> 0]
  /\ changes = 0

-----------------------------------------------------------------------------
(* The RemoteClient's bookkeeping.                                         *)

(* The scan goes back to the nearest of them that counted as sent.         *)
SetBlocksNotSent(c, bs, low_priority) ==
  LET rescan == {b \in bs \cap (c.sending \cup c.sent) :
                   ~low_priority \/ Distance[c.view][b] < DCullOpt}
  IN [c EXCEPT !.paused = @ /\ bs = {}, !.sending = @ \ bs, !.sent = @ \ bs,
               !.nearest = Min({@} \cup {Distance[c.view][b] : b \in rescan})]

SetBlockNotSent(c, b, low_priority) == SetBlocksNotSent(c, {b}, low_priority)

ResendBlockIfOnWire(c, b) ==
  IF b \in c.sending THEN SetBlockNotSent(c, b, FALSE) ELSE c

(* Variant: the block is sent, whatever happened since it was.             *)
GotBlock_Always(c, b) == [c EXCEPT !.sending = @ \ {b}, !.sent = @ \cup {b}]

GotBlock(c, b) ==
  IF b \in c.sending THEN [c EXCEPT !.sending = @ \ {b}, !.sent = @ \cup {b}] ELSE c

SentBlocks(c, bs) == [c EXCEPT !.sending = @ \cup bs]

(* The channel a packet to the client takes: BLOCKDATA has channel 2, the  *)
(* packets of single nodes have channel 0.                                 *)
DownChannel(p) == IF p.type = "block" \/ "channels" \notin Races THEN 2 ELSE 0

Send(d, p) == [d EXCEPT ![DownChannel(p)] = Append(@, p)]

BlockData(b) == [type |-> "block", block |-> b, content |-> content[b]]

-----------------------------------------------------------------------------
(* RemoteClient::GetNextBlocks: a scan that starts with client c and sends *)
(* at most "usually" blocks at a time.                                     *)

(* The increase of d in one scan is small.                                 *)
DMax(d_start) ==
  LET farthest == d_start + (IF d_start < DCullOpt * 2 THEN 2 ELSE 0)
  IN IF farthest < FullDMax THEN farthest ELSE FullDMax

isBlockOccluded(b) ==
  \E q \in Hides[view][b] : InMemory(q) /\ q \in Opaque /\ content[q] = {}

isAir(b) == b \in Air /\ content[b] = {}

(* Blocks that are passed over for what they are.                          *)
Skipped(c, b) ==
  \/ b \in c.sending \cup c.sent
  \/ memory[b] = "blank" /\ Distance[view][b] > DMaxGen
  \/ InMemory(b) /\ Distance[view][b] >= DOpt /\ isAir(b)

(* Blocks that cannot be seen; one that waits in the emerge queue is not   *)
(* checked again.                                                          *)
Culled(c, b) ==
  /\ memory[b] = "generated" \/ emerging[b] = "no"
  /\ b \in c.occ \/ isBlockOccluded(b)

(* What becomes of each block between c.nearest and dmax.                  *)
Verdict(c) ==
  [b \in {q \in InSight[view] : Distance[view][q] \in c.nearest..DMax(c.nearest)} |->
     IF Skipped(c, b) THEN "skip"
     ELSE IF Culled(c, b) THEN "cull"
     ELSE IF memory[b] = "generated" THEN "send" ELSE "emerge"]

(* How many blocks that come before b have a verdict.                      *)
Before(verdict, b, what) ==
  {q \in DOMAIN verdict : verdict[q] = what /\ Rank[view][q] < Rank[view][b]}

(* All slots for sending are taken when the scan comes to b, or all places *)
(* in the emerge queue.                                                    *)
SendingFull(c, verdict, usually, b) ==
  Cardinality(c.sending) + Cardinality(Before(verdict, b, "send"))
    >= (IF Distance[view][b] <= BLOCK_ALWAYS_SEND_MAX_D THEN MaxSimulSends ELSE usually)

Queue == {b \in Blocks : emerging[b] # "no"}

EmergeRefused(verdict, b) ==
  verdict[b] = "emerge" /\ Cardinality(Queue \cup Before(verdict, b, "emerge")) >= EmergeLimit

Stops(c, verdict, usually) ==
  {b \in DOMAIN verdict : SendingFull(c, verdict, usually, b) \/ EmergeRefused(verdict, b)}

(* The blocks the scan has dealt with when it stops.                       *)
Reached(verdict, stops, what) ==
  {b \in DOMAIN verdict : verdict[b] = what /\ \A q \in stops : Rank[view][b] < Rank[view][q]}

(* A block refused by the emerge queue is one that was asked for.          *)
AskedFor(c, verdict, usually, stops) ==
  {b \in DOMAIN verdict : /\ verdict[b] = "emerge" /\ ~SendingFull(c, verdict, usually, b)
                          /\ \A q \in stops : Rank[view][b] <= Rank[view][q]}

NearestOf(bs) == Min({Distance[view][b] : b \in bs})

Completed(c, asked, stops) == asked = {} /\ stops = {} /\ DMax(c.nearest) = FullDMax

(* Variant: a complete scan does not start again.                          *)
NewNearest_GoesOn(c, asked, stops, selected) ==
  IF asked # {} THEN NearestOf(asked) ELSE DMax(c.nearest) + 1

(* Where the next scan starts.                                             *)
NewNearest(c, asked, stops, selected) ==
  IF asked # {} THEN NearestOf(asked)
  ELSE IF Completed(c, asked, stops) THEN 0
  ELSE IF selected # {} THEN NearestOf(selected)
  ELSE IF stops # {} THEN NearestOf(stops)
  ELSE DMax(c.nearest) + 1

EndScan(c, verdict, asked, stops) ==
  LET nearest == NewNearest(c, asked, stops, Reached(verdict, stops, "send")) IN
  [c EXCEPT !.nearest = nearest, !.paused = Completed(c, asked, stops),
            !.occ = IF nearest # c.nearest THEN {} ELSE @ \cup Reached(verdict, stops, "cull")]

(* A player that moved or turned is scanned for from the start.            *)
LookAround(c) == IF c.view = view THEN c ELSE [c EXCEPT !.view = view, !.nearest = 0]

-----------------------------------------------------------------------------
(* The server thread and the emerge threads; each action holds the         *)
(* environment lock.                                                       *)

(* The one order in which the blocks bs are sent.                          *)
NearestFirst(bs) ==
  {queue \in [1..Cardinality(bs) -> bs] :
     \A i, j \in DOMAIN queue : i < j => Priority[view][queue[i]] < Priority[view][queue[j]]}

(* Server::SendBlocks.  "usually" is smaller while the player builds.      *)
SendBlocks ==
  /\ ~client.paused /\ Cardinality(client.sending) < MaxSimulSends
  /\ UNCHANGED <<memory, content, events, view, clientVars, up, changes>>
  /\ \E c \in {LookAround(client)}, usually \in 1..MaxSimulSends :
     \E verdict \in {Verdict(c)} : \E stops \in {Stops(c, verdict, usually)} :
     \E queue \in NearestFirst(Reached(verdict, stops, "send")) :
       LET room == MaxBlocksToSend - Cardinality(c.sending)
           sent == IF room < Len(queue) THEN SubSeq(queue, 1, room) ELSE queue
       IN /\ emerging' = [b \in Blocks |->
               IF b \notin Reached(verdict, stops, "emerge") THEN emerging[b]
               ELSE IF Distance[view][b] <= DMaxGen THEN "generate"
               ELSE IF emerging[b] = "no" THEN "disk_only" ELSE emerging[b]]
          /\ down' = [down EXCEPT ![2] = @ \o [i \in DOMAIN sent |-> BlockData(sent[i])]]
          /\ client' = SentBlocks(
               EndScan(c, verdict, AskedFor(c, verdict, usually, stops), stops), Range(sent))

(* m_nothing_to_send_pause_timer runs out.                                 *)
EndPause ==
  /\ client.paused
  /\ client' = [client EXCEPT !.paused = FALSE]
  /\ UNCHANGED <<memory, content, emerging, events, view, clientVars, down, up, changes>>

(* What an event does to the client and to the packets; far: the player is *)
(* too far away for packets of single nodes.                               *)
Announce(s, e, far) ==
  IF e.type = "node" /\ e.block \in s.client.sent /\ ~far
  THEN [s EXCEPT !.down = Send(@, [type |-> "node", block |-> e.block, change |-> e.change])]
  ELSE [s EXCEPT !.client = SetBlocksNotSent(@, e.modified_blocks, e.low_priority)]

(* Server::AsyncRunStep sends the queued events.                           *)
SendEvents ==
  /\ events # <<>>
  /\ \E far \in BOOLEAN :
       LET after[n \in 0..Len(events)] ==
             IF n = 0 THEN [client |-> client, down |-> down]
             ELSE Announce(after[n - 1], events[n], far)
       IN client' = after[Len(events)].client /\ down' = after[Len(events)].down
  /\ events' = <<>>
  /\ UNCHANGED <<memory, content, emerging, view, clientVars, up, changes>>

NodeEvent(b, k, modified) ==
  [type |-> "node", block |-> b, change |-> k, modified_blocks |-> modified,
   low_priority |-> FALSE]

OtherEvent(modified, low_priority) ==
  [type |-> "other", modified_blocks |-> modified, low_priority |-> low_priority]

(* An emerge thread is done with b, and reports what it has of it.         *)
Emerged(b) ==
  /\ emerging[b] # "no"
  /\ emerging' = [emerging EXCEPT ![b] = "no"]
  /\ UNCHANGED <<content, view, client, clientVars, down, up, changes>>

EmergeFromDisk(b) ==
  /\ memory[b] = "stored"
  /\ Emerged(b)
  /\ memory' = [memory EXCEPT ![b] = "generated"]
  /\ events' = Append(events, OtherEvent({b}, FALSE))

EmergeGenerated(b) ==
  /\ memory[b] \in {"absent", "blank"} /\ emerging[b] = "generate"
  /\ Emerged(b)
  /\ memory' = [q \in Blocks |->
       CASE q = b \/ (q \in Border[b] /\ memory[q] = "stored") -> "generated"
         [] q \in Border[b] /\ memory[q] = "absent" -> "blank"
         [] OTHER -> memory[q]]
  /\ events' = Append(events, OtherEvent({b} \cup {q \in Border[b] : memory[q] = "absent"}, FALSE))

EmergeNothingNew(b) ==
  /\ memory[b] # "stored"
  /\ memory[b] = "generated" \/ emerging[b] = "disk_only"
  /\ Emerged(b)
  /\ memory' = memory
  /\ events' = IF InMemory(b) THEN Append(events, OtherEvent({b}, FALSE)) ELSE events

-----------------------------------------------------------------------------
(* What disturbs: each of these counts as a change.                        *)

NewChange == changes + 1

Disturb == changes < MaxChanges /\ changes' = changes + 1

(* Map::addNodeWithEvent and removeNodeWithEvent, for a mod, a liquid...   *)
(* The event is dispatched even when the block is not there.               *)
SetNode(b) ==
  /\ Disturb
  /\ InMemory(b) \/ "unloaded" \in Races
  /\ content' = [content EXCEPT ![b] = IF InMemory(b) THEN @ \cup {NewChange} ELSE @]
  /\ events' = Append(events, NodeEvent(b, NewChange, IF InMemory(b) THEN {b} ELSE {}))
  /\ UNCHANGED <<memory, emerging, view, client, clientVars, down, up>>

(* Blocks changed as a whole: voxel manipulators, liquids, light.          *)
ModifyBlock(b) ==
  /\ Disturb
  /\ InMemory(b)
  /\ content' = [content EXCEPT ![b] = @ \cup {NewChange}]
  /\ \E low_priority \in BOOLEAN : events' = Append(events, OtherEvent({b}, low_priority))
  /\ UNCHANGED <<memory, emerging, view, client, clientVars, down, up>>

(* The server's map unloads a block that nothing uses, saved.              *)
UnloadBlock(b) ==
  /\ Disturb
  /\ memory[b] = "generated"
  /\ memory' = [memory EXCEPT ![b] = "stored"]
  /\ UNCHANGED <<content, emerging, events, view, client, clientVars, down, up>>

(* The player moves or turns, as PLAYERPOS tells.                          *)
Move ==
  /\ Disturb
  /\ \E v \in Views \ {view} : view' = v
  /\ UNCHANGED <<memory, content, emerging, events, client, clientVars, down, up>>

(* "Full map send is taking too long."                                     *)
RestartScan ==
  /\ Disturb
  /\ client' = [client EXCEPT !.nearest = 0]
  /\ UNCHANGED <<memory, content, emerging, events, view, clientVars, down, up>>

(* Server::SendBlock, for a mod.                                           *)
SendBlock(b) ==
  /\ Disturb
  /\ InMemory(b) /\ b \notin client.sent
  /\ down' = Send(down, BlockData(b))
  /\ UNCHANGED <<memory, content, emerging, events, view, client, clientVars, up>>

-----------------------------------------------------------------------------
(* The server handles packets.                                             *)

HandleUp(ch, type) ==
  /\ up[ch] # <<>> /\ Head(up[ch]).type = type
  /\ up' = [up EXCEPT ![ch] = Tail(@)]
  /\ UNCHANGED <<memory, emerging, view, clientVars, down, changes>>

GotBlocks ==
  /\ HandleUp(2, "got")
  /\ client' = GotBlock(client, Head(up[2]).block)
  /\ UNCHANGED <<content, events>>

DeletedBlocks ==
  /\ HandleUp(2, "deleted")
  /\ client' = SetBlockNotSent(client, Head(up[2]).block, FALSE)
  /\ UNCHANGED <<content, events>>

(* The node is set as the player predicted it.                             *)
Apply(b, k) ==
  /\ InMemory(b)
  /\ content' = [content EXCEPT ![b] = @ \cup {k}]
  /\ events' = Append(events, NodeEvent(b, k, {b}))

(* INTERACT_DIGGING_COMPLETED of a node in block "under": dug as expected, *)
(* or not allowed, or with another result.                                 *)
Dig ==
  /\ HandleUp(0, "dig")
  /\ LET p == Head(up[0]) IN
     \/ Apply(p.under, p.change) /\ client' = ResendBlockIfOnWire(client, p.under)
     \/ /\ client' = SetBlockNotSent(client, p.under, FALSE)
        /\ Apply(p.under, p.change) \/ UNCHANGED <<content, events>>

(* INTERACT_PLACE of a node in block "above", that points at "under", by a *)
(* player whose client predicts the result.                                *)
Place ==
  /\ HandleUp(0, "place")
  /\ LET p == Head(up[0]) IN
     /\ client' = SetBlocksNotSent(client, {p.above, p.under}, FALSE)
     /\ Apply(p.above, p.change) \/ UNCHANGED <<content, events>>

(* A player without the interact privilege.                                *)
PlaceNotAllowed ==
  /\ HandleUp(0, "place")
  /\ client' = SetBlockNotSent(client, Head(up[0]).above, FALSE)
  /\ UNCHANGED <<content, events>>

(* A player that is dead or too far away.                                  *)
PlaceIgnored ==
  /\ HandleUp(0, "place")
  /\ Head(up[0]).under = Head(up[0]).above \/ "border" \in Races
  /\ client' = SetBlockNotSent(client, Head(up[0]).under, FALSE)
  /\ UNCHANGED <<content, events>>

-----------------------------------------------------------------------------
(* The client.                                                             *)

HandleDown(ch, type) ==
  /\ down[ch] # <<>> /\ Head(down[ch]).type = type
  /\ down' = [down EXCEPT ![ch] = Tail(@)]
  /\ UNCHANGED <<serverVars, up, changes>>

(* Variant: what is shown already is not acknowledged again.               *)
BlockDataReceived_Once ==
  /\ HandleDown(2, "block")
  /\ LET p == Head(down[2]) IN
     /\ shown' = [shown EXCEPT ![p.block] = p.content]
     /\ acks' = [acks EXCEPT ![p.block] = IF shown[p.block] = NotLoaded THEN 1 ELSE @]

(* Client::handleCommand_BlockData: acknowledged when its mesh is made.    *)
BlockDataReceived ==
  /\ HandleDown(2, "block")
  /\ LET p == Head(down[2]) IN
     /\ shown' = [shown EXCEPT ![p.block] = p.content]
     /\ acks' = [acks EXCEPT ![p.block] = @ + 1]

(* Client::addNode, which finds no block or changes a node of it.          *)
NodeReceived(ch) ==
  /\ HandleDown(ch, "node")
  /\ LET p == Head(down[ch]) IN
     shown' = [shown EXCEPT ![p.block] = IF @ = NotLoaded THEN @ ELSE @ \cup {p.change}]
  /\ UNCHANGED acks

SendUp(ch, p) == up' = [up EXCEPT ![ch] = Append(@, p)]

(* A mesh with b in its ack_list is done.                                  *)
MeshDone(b) ==
  /\ acks[b] > 0
  /\ acks' = [acks EXCEPT ![b] = @ - 1]
  /\ SendUp(2, [type |-> "got", block |-> b])
  /\ UNCHANGED <<serverVars, shown, down, changes>>

(* Blocks in the mesh queue are in use and are not unloaded.               *)
MayForget(b) == shown[b] # NotLoaded /\ acks[b] = 0

Forget(b) ==
  /\ Disturb
  /\ MayForget(b)
  /\ shown' = [shown EXCEPT ![b] = NotLoaded]
  /\ SendUp(2, [type |-> "deleted", block |-> b])
  /\ UNCHANGED <<serverVars, acks, down>>

(* The player digs or places; the client shows the result at once.         *)
Predict(b) == shown' = [shown EXCEPT ![b] = @ \cup {NewChange}]

PlayerDigs(b) ==
  /\ Disturb
  /\ shown[b] # NotLoaded
  /\ Predict(b)
  /\ SendUp(0, [type |-> "dig", under |-> b, change |-> NewChange])
  /\ UNCHANGED <<serverVars, acks, down>>

PlayerPlaces(under, above) ==
  /\ Disturb
  /\ shown[under] # NotLoaded /\ shown[above] # NotLoaded
  /\ Predict(above)
  /\ SendUp(0, [type |-> "place", under |-> under, above |-> above, change |-> NewChange])
  /\ UNCHANGED <<serverVars, acks, down>>

-----------------------------------------------------------------------------
(* The loop of the server thread: what it scans, announces and handles.    *)
ScanStep == SendBlocks \/ EndPause

PacketStep ==
  \/ SendEvents
  \/ GotBlocks \/ DeletedBlocks \/ Dig \/ Place \/ PlaceNotAllowed \/ PlaceIgnored

EmergeStep ==
  \E b \in Blocks : EmergeFromDisk(b) \/ EmergeGenerated(b) \/ EmergeNothingNew(b)

ClientStep ==
  \/ BlockDataReceived
  \/ \E ch \in {0, 2} : NodeReceived(ch)
  \/ \E b \in Blocks : MeshDone(b)

Disturbance ==
  \/ Move \/ RestartScan
  \/ \E b \in Blocks :
       \/ SetNode(b) \/ ModifyBlock(b) \/ UnloadBlock(b) \/ SendBlock(b)
       \/ Forget(b) \/ PlayerDigs(b)
       \/ \E above \in Blocks : PlayerPlaces(b, above)

BTNext == ScanStep \/ PacketStep \/ EmergeStep \/ ClientStep \/ Disturbance

BTSpec == BTInit /\ [][BTNext]_btVars

(* The server thread, the emerge threads and the client keep running, and  *)
(* the network delivers; nothing makes anybody disturb.                    *)
BTFairness ==
  /\ WF_btVars(ScanStep) /\ WF_btVars(PacketStep)
  /\ WF_btVars(EmergeStep) /\ WF_btVars(ClientStep)

FairBTSpec == BTSpec /\ BTFairness

-----------------------------------------------------------------------------
(* The state is well formed: no more is sent than there are slots, and the *)
(* next scan starts within the range.                                      *)
BTTypeOK ==
  /\ memory \in [Blocks -> {"absent", "stored", "blank", "generated"}]
  /\ content \in [Blocks -> SUBSET Changes]
  /\ emerging \in [Blocks -> {"no", "disk_only", "generate"}]
  /\ view \in Views
  /\ client.sending \subseteq Blocks /\ client.sent \subseteq Blocks
  /\ client.sending \cap client.sent = {}
  /\ Cardinality(client.sending) <= MaxSimulSends
  /\ client.occ \subseteq Blocks /\ client.nearest \in 0..FullDMax
  /\ client.view \in Views /\ client.paused \in BOOLEAN
  /\ shown \in [Blocks -> {NotLoaded} \cup SUBSET Changes]
  /\ acks \in [Blocks -> Nat]
  /\ changes \in 0..MaxChanges

PacketBlocks(p) ==
  CASE p.type = "dig" -> {p.under}
    [] p.type = "place" -> {p.under, p.above}
    [] OTHER -> {p.block}

OnTheWay(b) ==
  \E ch \in {0, 2} : \/ \E i \in DOMAIN down[ch] : b \in PacketBlocks(down[ch][i])
                    \/ \E i \in DOMAIN up[ch] : b \in PacketBlocks(up[ch][i])

NothingToReport(b) == \A i \in DOMAIN events :
  b \notin events[i].modified_blocks \cup (IF events[i].type = "node" THEN {events[i].block} ELSE {})

(* A block that the server does not send again is the one the client has:  *)
(* once nothing about it is under way and no change waits to be announced, *)
(* the client shows it as it is, whatever it had predicted (clientiface.h, *)
(* m_blocks_sent).                                                         *)
SentIsShown ==
  \A b \in client.sent : NothingToReport(b) /\ ~OnTheWay(b) => shown[b] = content[b]

(* Every slot for sending is in use: its block, or its acknowledgement, or *)
(* the word that it was deleted, is under way.  A slot that waits for      *)
(* nothing would be lost for good, and with all of them the transfer.      *)
SendingIsOnWire ==
  \A b \in client.sending :
    \/ acks[b] > 0
    \/ \E i \in DOMAIN down[2] : down[2][i].type = "block" /\ down[2][i].block = b
    \/ \E i \in DOMAIN up[2] : up[2][i].block = b

(* What the client should see: in sight and in range, not hidden, and      *)
(* there or to be generated.                                               *)
Due(b) ==
  LET d == Distance[view][b] IN
  /\ b \in InSight[view]
  /\ d <= FullDMax
  /\ ~isBlockOccluded(b)
  /\ ~(InMemory(b) /\ d >= DOpt /\ isAir(b))
  /\ memory[b] \in {"stored", "generated"} \/ d <= DMaxGen

(* When the disturbances end, the client sees everything it should see as  *)
(* it is, although scans are cut short, occlusion is cached and blocks are *)
(* refused by the emerge queue.                                            *)
EventuallyShown == <>[](\A b \in Blocks : Due(b) => shown[b] = content[b])
=============================================================================
