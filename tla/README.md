# Luanti: a TLA+ model of its concurrent core

These modules specify the parts of Luanti (a C++ voxel game engine with a
client and a server) that are correct or wrong depending on the *order* of
events: packets that are lost and reordered, threads that take turns on a
queue, blocks of the map that are in memory, in the database and on the wire at
once, callbacks of mods that change what is being worked on. Every definition is
taken from the code; `PROJECT.json` names its lines.
TLC checks the properties on small instances, TLAPS proves some of them for all.

    tlc -workers 2 -config MCChannel.cfg MCReliableChannel     # a run
    tlapm ServerMapProofs.tla                                  # a proof

Contents: 1 inventory, 2 plan, 3 modules and the code, 4 runs, 5 fairness,
6 proofs, 7 what the checks found, 8 what is not modelled.

## 1. Inventory

A server has one *server thread* (`AsyncRunStep`, packet handlers, mods, all
under the environment lock), several *emerge threads*, and two threads of the
connection. A client has a main thread, mesh threads and the same two
connection threads.

    mods -> ServerEnvironment -> ServerMap <-> database
                  |                 ^  ^
                  | map events      |  | loads, generates
                  v                 |  |
      ClientInterface --requests--> EmergeManager (threads)
                  | BLOCKDATA, ADDNODE       GOTBLOCKS ^
                  v                                    |
      Connection (MTP) ===== UDP ===== Connection -> Client -> mesh threads

| Component | State | Operations | Interacts with | Hard | Correct when |
|---|---|---|---|---|---|
| MTP reliable channel (`network/mtp`) | next sequence numbers, packets sent and received, waiting commands, window | send command, allocate and put back numbers, send, resend, ack, reorder, reassemble | the send and the receive thread, UDP | loss, repetition, reordering, 16 bit numbers that wrap, three different window tests | everything is delivered once, in order, and in the end |
| MTP peers | `m_peers`, ids, use counts, half-open state, event queue | connect, set id, drop, time out, disconnect | Client and Server by events | freeing a peer other threads use; ids used again; events after the removal | freed exactly once, no event for a peer that is gone |
| MTP window control | loss and success counts, window size | `UpdateTimers` | the channel | integer ratio | the window grows and shrinks as loss demands |
| Encryption session | authentication data, keys, whether a session is pending or active | login, key exchange, activation, password change | packet handlers, the connection's threads | the order in which two sides with three threads each switch; resends across the switch | nothing sent is unreadable for the other side; both end up encrypting |
| Emerge queue | `m_blocks_enqueued`, `m_peer_queue_count`, a queue and an event per thread | enqueue with limits, merge, pop, cancel, callbacks, stop | server thread, mods, threads | signals, two mutexes, exceptions, shutdown | limits hold, each callback is called once, shutdown ends |
| Server map | sectors, database, `m_chunks_in_progress`, reference counts, modified marks | load, generate, edit, save, unload, delete | emerge threads, mods, database | the database and the mapgen work without the environment lock | loading and unloading cannot be seen; no edit is lost |
| Client interface: blocks | `m_blocks_sending`, `m_blocks_sent`, occlusion cache, nearest unsent distance | scan, send, ack, changes, deletions, resets for predictions | emerge queue, map events, client | acks that are not specific, caches, limits that cut a scan short | what counts as sent is shown; everything in sight is shown in the end |
| Client interface: states | client states, names, players in the game, saved data, accounts | packet handlers with `notifyEvent`, kick, deny, linger, disconnect | the connection's events, authentication, environment | packets in the wrong state, two logins that overlap, removal in three steps | players and clients in the game match, the user limit holds, saved data is the latest |
| Environment, active blocks | active block list, time, object list | activate, deactivate, step | map, mods | mods that change what is iterated | what is activated is deactivated |
| Active objects | objects by id, pending removals and deactivations, known-by counts, static data in blocks | add, remove, move, activate, deactivate, clear, tell clients | mods, map, clients | removal and block deletion in the middle of an update; ids used again | an entity exists once, as object or as static data; an id a client knows is the object it was told of |
| Inventories | lists of stacks, marks for sending, the client's copies | move, move somewhere, drop, craft, predict, send, revert | mods' callbacks, the client | callbacks that change what is moved; predictions the server refuses | items are neither lost nor doubled, callbacks' limits hold, the client is corrected |
| Node timers | multimap by time, iterator by position | set, remove, step | map blocks | two indexes of the same thing | both agree |
| Asynchronous Lua jobs | job and result queues, workers | queue, get result, stop | mods | workers that start and end | each job gives one result |
| Client: map, meshes, prediction | blocks, mesh queue, predicted nodes | receive, mesh, unload, predict | the server | predictions that the server refuses | see block transfer |
| Chat, bans, settings, definitions, rollback, HTTP | tables of records | add, look up, remove | server thread | little | see section 8 |
| Mapgens, lighting, liquids | node arrays | numeric passes | server map | data, not order | out of a model checker's reach |

`PROJECT.json` repeats the inventory file by file ("components") and lists 40
hazards, each at the line where it bites, with the properties that guard it or
the reason why none does yet.

## 2. Plan

The order follows what would hurt most: lost or confused packets, lost
callbacks, lost edits, what a player fails to see, then who is in the game, what
is encrypted, and what players and mods own.

| # | Module | State |
|---|---|---|
| 1 | `SeqNum`, `ReliablePacketBuffer`, `ReliableChannel`, refining `FifoDelivery` | done |
| 2 | `EmergeQueue` | done |
| 3 | `ServerMap`, refining `WorldMap` | done |
| 4 | `BlockTransfer` | done |
| 5 | `Peers`: ids, use counts, deletion, `DISCO`, the event queue | done |
| 6 | `EncryptedSession` | done |
| 7 | `ClientSession`, with the members of mod channels | done |
| 8 | `ActiveObjects`, with static data and block activation | done |
| 9 | `Inventories` | done |
| 10 | Proofs: the channel's history and `FifoDelivery`, the emerge queue, the map and `WorldMap`, peers, sessions, encryption, objects, inventories, the block transfer | done |
| 11 | `BlockTransfer` composed with `ServerMap` (ignored edit events, `emerge.cpp:614`); the half-open phase of a peer; unreliable splits | later |

`EmergeQueue`, `ServerMap` and `BlockTransfer` meet in a block: each has what
the others do with it as a free choice (`Emerge` is one step of the queue,
`ServerMap` has its details, `BlockTransfer` any time it takes). `Peers`,
`EncryptedSession` and `ClientSession` meet in a peer id in the same way.

Runs are few and each asks one question; a module gets one safety run, and one
liveness run where something must happen and the safety run is too large for it.

Each invariant that a run checks is stated by a theorem (section 6).

## 3. The modules and the code

### Reliable transport

`SeqNum` holds the arithmetic of u16 sequence numbers for any size of the number
space: `seqnum_higher`, `seqnum_in_window`, the two window comparisons of
`getOutgoingSequenceNumber` (`WindowExceeded`) and the window start that
`sendAsPacketReliable` computes with C's `%`, which keeps the sign
(`CRemainder`, `SentWindowStart`). `ReliablePacketBuffer` is the sorted list of
packets with `insert` (its refusals, its walk to the place, its test for a
number used twice) and `popSeqnum`.

`ReliableChannel` is one direction of one channel of a connected peer.

| Model | Code |
|---|---|
| `m_command_queue`, `queued_commands`, `queued_reliables`, `outgoing_reliables_sent`, `next_outgoing_seqnum`, `m_window_size` | members of `Connection`, `UDPPeer` and `Channel` of those names |
| `pc` | where `ConnectionSendThread::run` is: `runTimeouts`, the commands, `sendPackets` |
| `attempting`, `toadd` | `processReliableSendCommand` between two chunks; `Ping` shows that nobody else takes a number there |
| `resendReliable`, `UpdateTimers`, `Ping`, `RunCommandQueues` | the parts of `runTimeouts`, in any number before the last one |
| `AllocateChunk`, `QueuePackets`, `PutBackSequenceNumbers` | a turn of the loop, and its two ends |
| `Receive`, `checkIncomingBuffers` | `handlePacketType_Reliable`, and the loop that empties the buffer before the next packet is read |
| `ReceiveAck` | `handlePacketType_Control` on the sender's side; together with the send thread it changes the list under its own mutex, one action each |
| `net`, `acks` | the UDP network: sets, so that a packet in them may be delivered again, late or never |
| `log`, `received`, `idx` | history: what was numbered, what was processed; no guard of the code depends on them |

A packet's content is its command and its place in it. The one assumption on
the network is `InLifetime` (and its counterpart in `ReceiveAck`): a copy is not
delivered after more than half the number space of newer packets has been
processed. Without it no 16 bit protocol works; the code relies on it silently.
Timing is left out: a resend or a ping is possible at every turn.

`FifoDelivery` is what an application may expect: commands come out in the order
in which they went in, once each. `ImplementsFifo` says that the channel
implements it, `DeliversEverything` that it does so with fairness.

### Emerge queue

`EmergeQueue` has the tables of `EmergeManager`, the queue, event and program
counter of each `EmergeThread`, the queue mutex and the environment lock, and
the stages of the server: before `startThreads`, running, `stopThreads`, and the
shutdown hooks after it. An actor that holds one mutex and wants the other
waits in a state of its own, which is what `NoLockCycle` looks at. `Enqueue` is
`enqueueBlockEmergeEx` to the end of its critical section; `Signal`, after it, is
a step of its own, as it is in the code. `FindEmpty` and `WakeUp` are the two
halves of an unsuccessful pop. `cancelPendingItems` is `BeginCancel`,
`CancelNext` and `EndCancel`, with the mutex held from the first to the last.
What the thread does with the block is one step (`Emerge`), or ends the thread
(`EmergeThrows`): `ServerMap` has the details.

### Server map

`ServerMap` has the blocks in memory (content, generated, modified,
`m_refcount`) and in the database. A content is the number of the write it
stems from, so that an old content that comes back is noticed. An action is one
critical section of the environment lock; `ReadBlock` and the time in
`"makeChunk"` are outside of it, as in `EmergeThread::run`. `AreaEmerged`,
`MadeChunk` and `Finished` are `initBlockMake`, the generator and
`finishBlockMake` with `blitBackAll`. The generator is only said to fill what is
still `CONTENT_IGNORE` in its chunk.

`WorldMap` is the map as a mod sees it: one content per block, which changes
only when somebody writes, generates or deletes. `ServerMap` implements it with
`world[b]` = the content in memory, else in the database, else nothing.

The constant `Races` names what the code does not keep apart. The passing run
allows only `"mapgen error"`; every other one breaks a property (section 7), and
the proofs say which property needs which race to be absent.

### Block transfer

`BlockTransfer` has, for one client, `RemoteClient` (`client.sending`, `.sent`,
`.occ`, `.nearest`), the map events on their way to it, the packets in both
directions by channel, what the client shows and how many acknowledgements wait
for a mesh. `SendBlocks` is a whole call of `Server::SendBlocks` for the client,
with `GetNextBlocks` in it. The loops over distances are not transcribed:
`Verdict` says what would become of each block in range, `Stops` where the scan
is cut short (no slot left, emerge queue full), `Reached` what comes before
that, and `NewNearest` where the next scan starts. `Announce` is the choice between
a packet for a single node and a reset to "not sent". `Dig`, `Place`,
`PlaceNotAllowed` and `PlaceIgnored` are the ways the interaction handlers end,
with the blocks they send again; how the map checks the action is left out. The
client predicts (`PlayerDigs`, `PlayerPlaces`), meshes (`MeshDone`), and unloads
(`Forget`).

A content is a set of changes to different nodes: BLOCKDATA replaces it, ADDNODE
adds one. Visibility is data: `InSight`, `Rank`, `Distance` and `Hides` are
constants, per view of the player. The channels of BLOCKDATA and of
single nodes differ (2 and 0); in the passing runs both go in order
(`Races` without `"channels"`), which is what the comments in the code assume.

One module has the proofs about `ClientSession` and `BlockTransfer`, the two
halves of `clientiface.cpp`; hence the names `BTInit`, `BTNext`, `BTSpec`.

### Peers

`Peers` is `Connection::m_peers` of a server with the objects behind the ids:
their use counts, whether a deletion is pending, and what the send thread, the
receive thread and the server thread hold or remember of them (a `PeerHelper` is
a count, an id in a list is only a name). An action is what a thread does between
two locks. `deletePeer`, `Drop` and `DecUseCount` are taken apart where the
mutexes are; `freed` is history. Datagrams come from any address at any time.
`FreshIds` says whether `createPeer`, which picks a free id at random, may give
one that an event or a command still names.

### Encrypted session

`EncryptedSession` has both sides of one login, each with the packets it has
sent (all reliable, each may be sent again), its authentication and the state of
its keys: none, pending, active. A key is the set of secrets that went into it,
so that "the other side can read this" is the equality of two keys. A command
queue holds packets in their order, and whether an activation is among them: one
turn of the loop takes everything and activates at its end. The handlers
from `TOCLIENT_HELLO` to `TOCLIENT_NODEDEF` are actions of the main threads;
`RunCommands`, `sendPackets` and `ActivatePending` are the order in which the
send thread works, which decides what goes out in plain text. After the login
the player may change the password, which runs the same handlers again.

### Client session

`ClientSession` has the server's `m_clients` (states by `notifyEvent`), the
connected players of the environment with their objects, what is stored under a
name, the accounts and the members of a mod channel. Every handler is an action
that may come in any state, with the branches of the handler; `notifyEvent` is a
table, and an event that a state does not expect is an error. A client that
is denied is disconnected some steps later, its peer's removal comes after that,
and the player's object is removed in the next environment step.

### Active objects

`ActiveObjects` has the objects by id with their pending removal or
deactivation, known-by count and static block, the static data of each block
(stored and active), the blocks in memory and on disk, and what a client knows.
The environment lock is held throughout, but `pc` and `todo` show where an update
of the active blocks stands, because mods run between its parts and may do
anything to objects and blocks there. `deactivateFarObjects` and
`removeRemovedObjects` go object by object; saving, loading, generating and
unloading blocks, clearing (full and quick) and the shutdown are actions.
`LoadBlock` brings in a block from disk or a blank one, as an emerge thread does,
and `finishBlockMake` gives a new timestamp to any blocks in memory, and marks
others as modified, those of the border. There is no `generated` flag: generation
is asked for when any block of a chunk is not generated, so that it may run over
blocks that were there for long, and which ones is left open. Unloading looks at
no static data, but at the last use of the block. What that excludes and what it
lets through is in two names of `Races`: the guard of `UnloadBlock` tells the
static data of an object that is not to be saved and stays as it is
(`KeepsStaticData`, no time limit) from that of one which the next update stores,
moves or deletes. `created` and `alive` are history: the entities there have
been, and those that nobody removed.

### Inventories

`Inventories` has one player with the lists main, craft and craftresult and one
other inventory, on the server and as the client shows and remembers them. The
client sends an action and predicts it (`Predicted`); the server marks the lists
that the action names, refuses it or runs it. `IMoveAction::apply` is cut at its
callbacks: `BeginMove`, `allowMove` or `allowPut` and `allowTake`, for a swap the
same again with the directions exchanged, `PerformMove`, `ReportMove`; in each
callback mods may change a slot. "Move somewhere" runs this for slot after slot
(`MoveToNextSlot`, `Return`) with the u16 count and the `move_count` that the
code keeps in the action. `IDropAction` and `ICraftAction` are cut in the same
way. `SendInventory` sends the marked lists; `ReceiveInventory` keeps the others
as they are, predictions included. `booked` is history: what a mod would know
from the callbacks alone.

## 4. Runs

| Run | Instance | Shows |
|---|---|---|
| `channel` | 12 numbers, start at 10, receive window 6, send window 2 or 4, 4 commands of 3 chunks, a ping | order, nothing forgotten, no number confused with its earlier use, numbers put back, refinement of `FifoDelivery` |
| `channel_liveness` | 8 numbers, a command of 2 chunks, a ping, a network that loses | everything is delivered |
| `emerge` | 2 positions, a client, 2 threads, 3 requests, failures, callbacks that request | counts, callbacks once, generation honoured |
| `emerge_liveness` | as above, 2 requests, no failures, quiet callbacks | no lock cycle, callbacks are called, shutdown ends |
| `server_map` | 3 blocks in 2 chunks with shared borders and 2 columns, 2 threads, 2 writes, mapgen errors | references, clean means saved, chunks made once, nothing unsaved dropped, refinement of `WorldMap` |
| `blocks` | 3 blocks (opaque, air, neither), 2 views, 2 slots, 2 disturbances | sent means shown, no slot is lost |
| `blocks_liveness` | 2 blocks, one hiding the other, emerge queue of 1 | everything due is shown |
| `encryption` | four kinds of account, 2 password changes | nothing is unreadable, the client follows, both sides come to encrypt, sudo mode ends |
| `peers` | 2 addresses, 1 id, 2 peers, an event queue that fills at 1, a kick | no use after free, no leak, the server's clients follow, who is to leave does |
| `clients` | 2 peers, 2 names, 1 place, 2 changes of player data | players match clients, user limit, data kept, nobody lingers |
| `objects` | 2 ids, 2 entities (one not saved), 2 blocks, 1 client, 3 changes (by mods, or chunks generated) | an entity exists once, static data agrees, ids stay with their objects |
| `inventories` | main of 2 slots, craft, craftresult, another list, stacks of up to 2, a recipe with replacement, 2 events in all (actions or changes by mods) | books balance, limits hold, differences get corrected |

Why the bounds suffice. The channel starts a few numbers before the end of
its number space, so that the wrap falls into the window of every calculation;
three chunks with a window of two or four force numbers to be put back; twelve
packets and a ping are more than twelve numbers. The code's relation of the
constants is kept: the receive window is half the number space, the send window
at most half of that (2048 of 32768 in the code), a command less than a
receive window. A request, one that joins it, and one that meets the limit are three
requests; two threads allow the shortest queue to change between a push and the
signal. Two chunks with a common border and blocks in two columns are the
least in which a block is referenced twice and a sector empties. Two
disturbances let a change meet an acknowledgement or a scan that is under way;
three blocks let one be hidden, one be skipped and one be refused. Two password
changes are one after the first login and one after a change. A single id for
two peers makes every stale name name the wrong peer; three threads use it at
once. Two peers overlap their logins under the same name or for the last place;
a third name changes nothing (8.6 million states pass). Two
ids and two entities are the least for an id to be given again while a client
still knows it; three changes are an object added, moved and removed within one
update, or one that is stored, cleared and met by a generation. Stacks of two can be taken whole, in
part, or not at all; two slots tell the slots in use from the empty ones; two
events are a change in the middle of an action, or a second action on top of an
unconfirmed prediction.

Each module has a type invariant `TypeOK` (`BTTypeOK` in `BlockTransfer`). Where it is not proved (section 6) it
was checked by adding it to the run's configuration; it is left out of the runs
because it says nothing about the code that the others do not.

Deadlock is checked where the system has no end (`server_map`, `peers`, `clients`,
`objects`). The other instances may stop: bounded commands are delivered, bounded requests
are served, a client is up to date, a login is over, bounded actions are applied. For them
the liveness runs say that they stop only then; `EmergeQueue` ends in `Terminated`, and
`MCEmergeLiveness.cfg` passes with the deadlock check too (it is off so that a lost signal
shows as the property it breaks).

Each property has a variant of a definition (the operators marked "Variant" in
the modules) that a plausible bug would produce and under which TLC finds the
property violated: `FirstIsDue_Any`, `SentWindowStart_Next`,
`popBlockEmergeData_KeepCount`, `MayUnload_InUse`, `GotBlock_Always`...

## 5. Fairness

- *Channel.* The send and the receive thread loop as long as the connection
  exists: weak fairness of each stage. `runTimeouts` sends an unacknowledged
  packet again and again, so resending is strongly fair for each packet. A
  network that is handed the same packet for ever delivers a copy: strong
  fairness per packet and acknowledgement, the usual assumption, without which
  nothing can be delivered. Pings and window changes are not fair.
- *Emerge queue.* Every thread runs, and a mutex that becomes free again and
  again is taken in the end; the C++ mutexes do not promise the latter, but
  nobody here keeps one without pause. Nobody has to request or to stop.
- *Encryption.* Both sides handle packets and run their send threads, a packet
  that is unacknowledged is resent, and one that is sent again and again
  arrives: weak fairness of each (a step here stays possible until it is taken).
  The server goes on sending other packets, as `AsyncRunStep` does.
- *Peers.* The three threads loop; a thread that finds the lock taken gets it in
  the end (strong fairness of `HandleEvent` and `SendOutgoing`, which other
  steps disable for a while: unreliable packets wait for a peer's quota). Neither
  datagrams nor kicks are fair.
- *Clients.* `Server::step` disconnects clients that linger, and the removal of
  a peer that the connection has given up is handled. No client has to do
  anything, so that `NobodyLingers` holds against clients that fall silent.
- *Block transfer.* The server thread scans and handles packets in each step,
  the emerge threads and the client run, MTP delivers (section 3): weak fairness
  of these four. Disturbances are not fair and bounded, so that "in the end"
  means "after the last one".

## 6. Proofs

`ReliableChannelProofs` begins with the numbers: for every number space,
`seqnum_in_window` is a comparison of distances on the circle
(`WindowIsDistance`), two different numbers are comparable one way only
(`HigherIsTotal`), and the start that `sendAsPacketReliable` computes, whose
comment asks what it means, is the number half the number space back
(`SentWindowIsHalfSpace`). They need that the window is half the space
(`SeqNumAssumption`). Lemmas about `insert` say what it returns: a list of
packets, in order, with the new one and all others in it.

About the channel, for any number space, commands, windows and network:
- `ChannelTypes` (every number stays a u16) and `PutBackNeverFails` (the
  `FATAL_ERROR_IF` of `processReliableSendCommand` is unreachable), from
  `ChannelInv`: types, `AttemptOK` (what `attempting`, `pc` and `toadd` may be
  together) and `PutBackSucceeds` itself. Numbers are consecutive because only
  the send thread takes them, and a ping not between two chunks.
- `DeliveryInOrder`, `NothingForgotten`, `OutstandingBounded`,
  `HonestPeerTrusted`, from `HistoryInv`, which ties everything that can be
  somewhere to the history. A packet, wherever it is, has the number and the
  content of its place in `log` (`PacketsSound`, `Numbering`,
  `AttemptNumbered`); an acknowledgement means that the receiver has the packet
  (`AcksMeanTaken`); what waits at the receiver is ahead of the next number and
  within the window (`ReceiveBufferOK`); what is queued is the end of `log`
  (`QueueOK`); what is unacknowledged lies within half the number space and is
  sorted by place (`SentListOK`). The last is the core: `OutstandingBound`
  follows, and with it a number names one place only, so that the four window
  tests say what they are meant to say. `AttemptLimit` bounds the queue when a
  command is tried.
- `ChannelIsFifo`: the channel implements `FifoDelivery`, step by step. `FifoInv`
  adds that the chunks of one command are next to each other in `log`
  (`ChunksInLog`), the commands in their order (`CommandsInOrder`), and that the
  receiver has the first chunks of the command it is assembling (`Reassembly`).

The last five need `NumbersSuffice`: the longest command and the pings fit into
half the number space behind the packets that may be queued when it is tried.
The code does not check this; its constants keep it for up to 31745 chunks (a
command of more than 32767 is refused), and section 7 has what happens beyond.
The pings of a run count because each takes a number ahead of the queue.
TLC evaluates `NumbersSuffice` on the instances of the runs. `ChannelAssumption`
asks that a send window is at least 2 less than the receive window
(`setWindowSize` allows 2048 of 32768): with a window of 6 of 12 numbers
TLC finds `OutstandingBound` violated.

`EmergeQueueProofs`, for any positions, peers, limits, threads and requests:
- `QueueTypes`, `QueueCountsMatch`, from `QueueInv`. Entries and places in the
  queues are the same set, each place once (`QueuesMatch`), and counts are
  cardinalities of entries (`PeersCounted`). `LockKept` (who asks has the
  environment lock) is what makes every request be counted once.
- `GenerationKept`: permission to generate survives joining.
- `CallbacksAreCalledOnce`, if no position is over the map limits: a callback is
  new when its request is made (`RequestsFresh`), at one place until it is called
  (`OnePlace`), and at some place (`SomePlace`), since a thread takes an entry
  only when it has no callbacks left (`IdleThreads`). Threads that fail and
  callbacks that make requests are included.
- `NoMutexCycle`, if no thread fails and callbacks request nothing: a thread with
  the queue mutex has been told to stop, and by then the server thread has given
  the environment lock back (`LockInv`). Without either assumption it is false
  (section 7).

`ServerMapProofs`: for any map, chunks and threads,
- `LoadedIsUpToDate`: a block not marked as modified is what the database has,
  if no block is unloaded or deleted while a thread holds what it has read of
  it. `CleanInv` adds `ReadsAreFresh`: what a thread has read and
  nobody has loaded since is still in the database.
- `ChunkMadeByOneThread`: no chunk is generated by two threads at once, with no
  assumption on `Races`. `ChunksInv` needs nothing but the shape of the threads.
- `ChangesAreSaved`: a modified block leaves the memory only saved or deleted,
  if saves do not fail.
- `RefCountsAreExact`: a block's `m_refcount` is the number of threads that
  generate a chunk around it, if none is deleted while it is generated.
  `RefsInv` says so of blocks in memory, that there is nobody around those which
  are not, and that a thread has in its vmanip the area of its chunk
  (`AreasHeld`), since that is what it gives back in the end.
- `MapIsOneWorld`: the map implements `WorldMap`, step by step, if the races that
  `Apart` names are absent: the one of the run, a mapgen script that fails, is
  not among them. `WorldInv` puts the three invariants together and adds
  `VmanipsRight`: what a thread has in its vmanip is what the map shows, so that
  `blitBackAll` changes nothing but what the thread has generated.

`ServerMapAssumption` has of chunks what `initBlockMake` computes: each block
lies in the interior of one chunk, which is in the chunk's full area.

`PeersProofs`: for any number of peers, ids and addresses,
- `PeersTypeCorrect`, `NeverUsedAfterFree`, `NeverLeaked`: no thread reaches a
  freed peer, none is freed twice, and one that no thread can reach has been
  freed. The invariant counts: the use count of a peer is the number of
  helpers that hold it, and a peer out of the map is pending deletion until the
  last of them goes.
- `ServerFollowsPeers`, if ids are fresh: once it has handled all events, the
  server has a client for just the peers of the connection. `EventInv`: of each
  id one peer is added and then removed (`EventOrder`), and the server has, or
  has coming, what the connection has, unless a removal is coming (`Agreement`).
- `DiscoIsSentFirst`, if ids are fresh: a peer that is disconnected is told so
  before it is removed. `DiscoInv` follows the `DISCO` from the command to the
  queue of outgoing packets to the wire, and has what the send thread may have at
  hand in each part of its loop (`AtCommands`, `AtVisits`, `AtOutgoing`).

Ids are fresh (`FreshIds`) if one is given again only when nothing names the
peer that had it; the code takes a random id that is not in the map, and section
7 has what happens when an event or a command still names it.

`ClientInterfaceProofs`, of `ClientSession`, for any number of peers, names and
channels,
- `SessionTypes`: no handler raises an event that `notifyEvent` throws at,
  whatever packets come. The states in which a client waits for a handler are part
  of the invariant (`IInv`).
- `PlayersAreClients`: if no player is back before the object of the last
  session is gone, clients in the game and connected players are the same, and
  each name and each peer is there once.
- `UserLimitHolds`, with `CountedUpTo`: the check in `handleClientReady` is made
  in the step that adds the player.
- `PlayersKeepTheirData`: what a player did last is in the game or in the
  database, and a name gets one account, if no player is back before the object
  of the last session is gone and there is no default password. `DataInv` has
  the two halves for each name (`PlayedIsLatest`, `StoredIsLatest`), which is
  inductive only with `PlayersAreClients`, and that no login is left that would
  create an account at its end (`AccountsOnce`).

Of `BlockTransfer`, for any blocks, views, slots and number of disturbances,
- `SlotsAreInUse` (`SendingIsOnWire`), whatever the races: a slot is taken in the
  step that sends its block, the block leaves `down` with an acknowledgement
  owed, and this leaves `acks` as a packet (`OnWireReceived`, `OnWireStep`). The
  packet frees the slot. It is an invariant with the types of what is under way
  (`TransferTypes`).
- `SlotsSuffice` (`BTTypeOK`): a scan sends no more blocks than there are slots,
  although blocks near the player may take slots that others may not, and
  `room` counts by another limit. `SlotsLeft`: take the block
  that the scan sends last, the one with the most blocks before it; the scan did
  not stop there, so that the slots taken and the blocks before it left a slot.
- `SentBlocksAreShown` (`SentIsShown`), without the races: section 7 has what each
  of the three does. `SentIsShown` speaks of quiet moments only; `TransferInv`
  says of each block that is sent or being sent what the client *will* have once
  the packets that are under way have arrived (`WillHave`, `WillShow`): the block,
  with all that the server has of it except what is announced later, and nothing
  else but predictions that the server has still to judge (`UpToDate`). A block that
  is about to be reset, because the client forgot it or it changed as a whole
  (`Resets`), is excused. An event is taken from what is announced later and put
  in a packet, or resets the block (`EventKeeps`); `SendEvents` tells of all of them
  in one step, so that `UpToDate` has the number of events told, and `EventsKeep` goes
  through them with `UpTo`, an induction to a bound that is shown with the least
  number for which it would fail. TLC checked `TransferInv` on the run's instance (1.27 million states) before.

`BlockTransferAssumption` asks that there are finitely many blocks, that
`Border` and `InSight` are sets of them, and that the order of the scan and the
priorities are strict, the first one in keeping with the distance.

`EncryptedSessionProofs`: for every kind of account, if the server's key
generation does not fail (section 7 has what happens when it does),
- `WhatIsSentCanBeRead`: up to the first change of the password whatever is
  encrypted can be read by the side it is sent to, when it leaves and however
  late or often it comes.
- `ServerEncryptsFirst`: up to there a client that encrypts has a server that
  does, with the same keys.

Both follow from `LoginInv`. Packets come in order, so that the login of an
account is a fixed conversation: `Says` has the packets of each side, and `Login`
says that what was given to the channel and what waits in the command queue are
its beginning (`Spoken`), as long as what the side has handled calls for
(`Said`), and that what a side knows follows from how many packets it has handled
(`Known`). `Switch` has the order of the activations: the server is told to
encrypt only when it has the client's half of the exchange, by then the client
has the full key (`FullKeyInForce`, which compares the numbers of the
conversation), and the client encrypts only when it has read something encrypted.

`ActiveObjectsProofs`: for any objects, blocks and clients,
- `ObjectTypes`, `StaticDataFollows`: active static data in a block belongs to
  the object of its id, which points back at the block, with no assumption on
  limits or `Races`. It is inductive with the types and the fact that the
  shutdown goes through all objects.
- `IdsAreKept`: while every block has room (`RoomInBlocks`), an id that a client
  knows stands for the object it was told of, and the known-by counts are right.
- `EntitiesInOnePlace` (`OneCopy`): while every block has room, there are ids for
  what is activated (`RoomForIds`) and none of the four races of `KnownRaces`
  happens (`RacesApart`; each of them alone makes `OneCopy` false, see 7), an
  entity that nobody removed is in exactly one place, and one that was removed
  only where it will be dropped, generation of blocks with old objects included.
  `CopyInv` adds to the first invariant, for each entity: `OnePlace`,
  it is one object or stored in one block; `MapCopies`, what a block in memory
  stores is on disk too unless the block is marked as modified, what is stored of
  a removed entity is in a block that drops it, and not in one that is active
  already; `ObjectCopies`, an object that is gone and
  not removed has its static data in the block it points to; and `Phases`, what
  an update of the active blocks has still to do in each phase. Both room
  hypotheses hold in every state of `MCObjects.cfg`'s instance and both are
  needed: with one id, or with room for one object in a block, TLC finds entities
  lost, because `saveStaticToBlock` and `activateObjects` then drop them.

`InventoriesProofs`, for any lists, stacks, recipe, callbacks and number of
actions:
- `DifferencesAreCorrected`. The server marks what it changes (`ServerMarks`), a
  prediction touches only the lists that its action names (`PredictionFrame`),
  and the server marks these when it takes the action; that is all the argument
  needs, besides the order of the updates.
- `LimitsAreKept`, if no item is moved somewhere in its own list. `LimitsInv`
  has the type of what each phase works on (`Stocked`), the amounts in each phase
  of a move to anywhere (`Amounts`: what has moved and what is still to be asked
  for are no more than the count), and of a swap that it is of whole stacks as
  long as no callback has changed anything (`SwapStands`), and gets as far as
  every callback allowed it (`SwapAllowed`). It is inductive with `"same list"`
  too; then it says nothing of an action within one list, where a slot of the
  loop may be the source, and section 7 has what happens.
- `BooksAreBalanced`, if nothing changes in the callbacks of a drop. `BooksInv`
  adds to `LimitsInv` that the sum over an inventory's slots, and the replacements
  that wait for the end of a craft, are what is booked (`Balanced`), where a move that is
  done but not yet reported counts as told (`Ledger`); and that a drop is of a
  stack which is still there (`Held`). Each step is then a lemma of what it adds
  to the sum in one or two slots (`HoldingChange`, `MovedAmounts`,
  `InfiniteAmounts`); `AddedHolding` is what `addItem` on a list does, one slot
  after the other.

`InventoriesAssumption` asks for finitely many lists, with slots.
`MapThenSumSet` is a recursive definition over finite sets. What the proofs need
of it, that a sum can be taken apart at any element, is shown with the least set
for which it would fail (`LeastSubset`: strict inclusion of finite sets is well
founded), and not with an induction theorem, which takes an operator.

Only model-checked: everything temporal with fairness, which this prover does not
do (`EventuallyShown` and the other properties of the liveness runs); what a
change of the password does to the keys.

## 7. What the checks found

Each of these was found with TLC in an instance that is not among the runs, by
a small change of a configuration. The passing runs exclude it by the value of a
constant; a guard that the code does not have stands in an action only next to
its name in `Races` or to the constant named here.

Transport and encryption:

- A command that is longer than what is left of the number space
  (`SEQNUM_MAX = 15`, windows of 4, commands of 7 chunks): while nothing has been sent,
  numbers are given out without a look at the window. A command of nearly
  `MAX_RELIABLE_WINDOW_SIZE` chunks behind queued packets uses more than half the
  number space; `insert` then refuses a packet with a log line only, and it is
  never sent again: the channel stops for good if it is lost
  (`OutstandingBound`, `NoPacketForgotten`).
- `FreshIds = FALSE`: an id given again while an event or a `DISCONNECT_PEER`
  command still names it hits the new peer (`ServerAgrees`, `DiscoBeforeRemoval`).
- The keys after a change of the password (`KeysAgree` as an invariant with
  `PasswordChanges = 1`): the server runs the whole key setup of a login, with
  new keys from the new SRP session and a new ECDH_PUBKEY
  (`serverpackethandler.cpp:1840`), but the client's AcceptSudoMode
  (`clientpackethandler.cpp:618-631`) takes no new SRP key and mixes the new
  secret into its old one. The keys differ, and once the server uses its own,
  nothing it sends can be read. The comments at `serverpackethandler.cpp:1886`
  ("both sides derive ECDH+SRP combined keys before encryption starts") and
  `clientpackethandler.cpp:2450` ("symmetric activation") say otherwise.
- After that, the mechanism `startAuth` chose stays SRP on the server, so that
  it refuses every later change of the password.
- `KeygenResults = {FALSE}`: without an X25519 key pair the server activates
  encryption of an SRP session at once (a session by keypair stays plain, `Authenticated`); an AUTH_ACCEPT that is lost is sent again encrypted, which
  the client cannot read (`Decryptable`).
- `PatientPlayer = FALSE`: a password change that begins before both sides
  encrypt has its new keys activated by the old switch (`LeavesSudoMode`).

- Seen while modelling: `packet_loss/packets_successful` (`impl.cpp:792`) divides
  integers, so that most steps of the window size are never taken;
  `ReliableChannel` lets the window take any value.

Sessions:

- `QuickRejoin = TRUE`: a player who is back before the object of the last
  session is removed has data overwritten by what the old object saves
  (`DataKept`), though a comment orders the destruction (`server.cpp`, at 4205),
  and two connected players may have one name, since `getPlayer` stops at the first
  of that name (`serverenvironment.cpp:342`; the comment at 357 says "Name has to
  be unique").
- `DefaultPassword = TRUE`: two logins under a new name both create the account
  (`DataKept`; `serverpackethandler.cpp:1776` checks, 1505-1512 does not).
- A peer that leaves stays a member of its mod channels: nothing calls
  `leaveAllChannels` for it.

Objects and inventories:

- `Races = {"gone at shutdown"}`: an object removed by a mod just before the
  shutdown is stored all the same (`OneCopy`; `serverenvironment.cpp:1665`; the
  comment in `serveractiveobject.h` says that removal takes priority).
- `Races = {"generate uncleared"}`: `finishBlockMake` gives
  each block of the chunk the timestamp of now (`servermap.cpp:349`), also one
  that has stored objects from before a quick clear: a blank block, in which
  mods may add objects, or a generated one in a chunk of which another
  block was deleted. `activateBlock` (`serverenvironment.cpp:562`) then keeps them, and what
  was cleared is active again (`ClearedStayAway`, `OneCopy`), against what
  `docs/lua_api.md` (7051) says of the quick mode.
- `Races = {"unload unsaved"}`: an object with `static_save`
  turned off after it was saved is not saved again (`serverenvironment.cpp:1674`) and
  stays active as long as its block is in memory (1692), with its old static data
  there. `timerUpdate` unloads that block like any other and writes the static data;
  the deletion of the object then finds no entry of its id, and the entity
  comes back with its block (`DeletedLeaveNothing`, `OneCopy`; `docs/lua_api.md`, 9964; the
  path that `test_sao.cpp`, 256, leaves out).
- `Races = {"unload early"}`: a block that is unloaded with static data that the
  next steps would store, move or delete: between the deactivation of its objects
  and their storing, before the first update that sees a new object, which does not
  count as use of its block, or before an object that moved is saved again.
  The entity is lost or doubled (`OneCopy`).
- `MaxObjectsPerBlock = 1`: where an object cannot be stored it is deleted at
  once, though clients know it, against the comments at its definition and use
  (`IdsKept`). `storeActiveObject` does not look at the limit.
- `StaleIsOld`, `StaticExists` (in `MCActiveObjects`): a quick clear
  (`serverenvironment.cpp:562`) passes blocks with an undefined timestamp, and
  may clear what was stored after it; a deleted block loses `m_static_exists` of
  its objects, although a static copy of them is elsewhere (`l_env.cpp:1181`).
- `Races = {"same list"}` (lists of 3 slots): "move somewhere" into its own list
  moves out of the slots it fills; `move_count` exceeds what was asked, `count`
  wraps to 65535 and the `assert(move_count <= count)` fails
  (`WithinLimits`; `inventorymanager.cpp:296`).
- `Races = {"changed while dropped"}`: `allow_take` or `on_drop` that changes the
  stack: the stack is read again (`inventorymanager.cpp:742`), the amount is
  not, and `on_take` is told more than was taken (`BooksBalance`).
- Seen while modelling: an `allow_*` answer below -1 is cast to u32 and moves the
  whole stack (`inventorymanager.cpp:432`; excluded by `Answers`);
  `assert(allow_swap == did_swap)` fails if a callback empties the destination,
  and a stack is then swapped that no callback was asked about;
  `ICraftAction::apply` locks `list_main` before it looks whether there is one; an
  infinite source that is swapped with a full list loses the other stack.

Emerging, map and blocks:

- `OverLimit <- Pos1`: a block beyond the map limits is popped and its callbacks
  are not called; `core.emerge_area` promises EMERGE_CANCELLED
  (`EachCallbackOnce`).
- `Races <- SaveFails`: a block that could not be saved stays in memory unless
  all others of its sector are unloaded, when it is deleted with the sector
  (`NothingUnsavedDropped`).
- `Races` with `"channels"`: BLOCKDATA and ADDNODE take different channels; a
  node that overtakes its block is lost to a client that is told nothing more
  (`SentIsShown`).
- Emerge shutdown with `Reentrant = TRUE`: a callback of a cancelled block that
  calls `core.emerge_area` takes `m_queue_mutex`, which `cancelPendingItems`
  holds (`NoLockCycle` fails with 2 requests); and a request made while threads
  end may be given to one that has ended, since it keeps the shortest queue
  (its callback is lost, with 3 requests).
- `MayFail = TRUE`: callbacks of the thread that fails are lost; the server
  stops then, so that `EachCallbackOnce` excuses it. With 3 requests the server
  may not get that far (`NoLockCycle`, found by the proof, confirmed by TLC): the
  thread leaves its loop (`emerge.cpp:785`) while the server thread runs, and
  `cancelPendingItems` calls a callback, which waits for the environment lock,
  with `m_queue_mutex` in hand, for which a request of the server thread waits.
- `"unload while read"`: a thread reads a blob, the server loads, edits, saves
  and unloads the block, the thread puts its old blob into memory
  (`CleanMeansSaved`, `ImplementsWorldMap`). The unload timeout makes this
  unlikely.
- `"delete while read"`, `"delete while generated"`: a deleted block comes back
  from what a thread has read (`CleanMeansSaved`), or from a generator, whose
  references to it are gone (`RefsMatch`).
- `"edit while generated"`: an edit in the border of a chunk in progress is
  overwritten by the generator's copy (`ImplementsWorldMap`, with one thread and
  three writes).
- `"border"` (`Races <- AcrossBorder`): a placement is predicted in the block above, but the
  block under it is sent again when a player is dead or too far away
  (`SentIsShown`).
- `"unloaded"` (`Races <- Unloaded`): setting a node of a block that is not in memory fails,
  but its event is sent to clients that have the block (`SentIsShown`).
- `DMaxGen = 0` with `mid` absent and `far` in the database: each scan asks for
  `mid`, which nobody will generate, and sets `m_nearest_unsent_d` to its
  distance. With `DCullOpt = 0`, where a scan covers one distance, it never gets
  to `far`; with `DCullOpt = 2`, `far` stays in the occlusion cache, which is
  cleared only when that distance changes, after `near` is unloaded and hides it
  no more (`EventuallyShown` fails with three blocks and at most one
  disturbance; `clientiface.cpp:392`).

## 8. What is not modelled

- Left out for now: the composition in the plan, ABMs and LBMs, node timers and
  asynchronous jobs (each a small container that unit tests reach), the choice of
  the window size (`ReliableChannel` lets it be anything).
- Of the transport: unreliable packets, splits over them, the half-open phase in
  which a peer has no id, timing. Of the map: liquids, metadata, light across
  borders, decorations that reach into the border. Of the block
  transfer: several clients (they share only the map and the emerge queue),
  serialization, objects. Of peers: the end of the connection. Of sessions:
  bans, the contents of mod channels. Of objects: attachments, observers, a crash
  between the saving of two blocks, mods that clear objects from `on_deactivate`, or delete objects
  or blocks from `on_activate` while the other objects of a block are still to be
  activated (`ActivateObjects` is one step), an activation in the very second of
  a clear (`serverenvironment.cpp:562` compares whole seconds). Of
  inventories: resizing and removal of lists, craft callbacks that change things,
  the craft preview, inventories shared by players, rollback.
- Out of reach or without a question of order: map generators, lighting
  and liquid passes, mesh making, rendering, sound, GUI, text and settings
  parsing, databases and sockets as such, cryptographic arithmetic, vendored and
  generated code. In the models the network, the database and the generator are
  what the code in `src/` relies on.
- Most of the 337,000 lines of the repository are of this kind (vendored
  libraries, the renderer, GUI, map generators), so that the share of lines the
  modules cover stays small.
- Data races of C++ as such; where one is known it is a hazard with a note.
