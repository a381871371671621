------------------------------- MODULE Peers --------------------------------
(***************************************************************************)
(* The peers of a server's connection: how they are created, used by three *)
(* threads at once, asked to leave, timed out and freed, and what the      *)
(* server thread learns of it from the events.                             *)
(*                                                                         *)
(* A peer is named by its id in m_peers, in commands, in events and in     *)
(* lists the send thread keeps while it works; the object behind an id may *)
(* have gone, or be another one, when the name is used.  The ids here are  *)
(* few and are given again.                                                *)
(***************************************************************************)
EXTENDS Integers, Sequences, FiniteSets

CONSTANTS
    Addresses,     \* where datagrams come from
    Ids,           \* 2 .. MAX_UDP_PEERS - 1
    MaxPeers,      \* bound: peers ever created
    MaxEvents,     \* bound: events that wait when data is received
    MaxKicks,      \* bound: commands to disconnect a peer
    FreshIds       \* whether only ids that nothing names are given again

ASSUME PeersAssumption ==
    /\ MaxPeers \in Nat \ {0} /\ MaxEvents \in Nat \ {0} /\ MaxKicks \in Nat
    /\ FreshIds \in BOOLEAN
    /\ 0 \notin Ids

Objects == 1 .. MaxPeers
None == 0
Threads == {"send", "receive"}
Helpers == {"send", "send inner", "receive", "receive inner", "main"}

VARIABLES
    m_peers,            \* per id: the peer object, or None
    created,            \* peers created; their objects are 1 .. created
    object,             \* per object: its id and address
    half_open,          \* objects whose client has not used its id yet
    usage,              \* per object: m_usage
    pending_deletion,   \* objects with m_pending_deletion
    freed,              \* per object: how often it was deleted
    helper,             \* per PeerHelper: the object it holds, or None
    erased,             \* per thread: taken out of m_peers by deletePeer
    announced,          \* per thread: erased, and peerRemoved is queued
    events,             \* m_event_queue
    commands,           \* m_command_queue: ids of CONNCMD_DISCONNECT_PEER
    st,                 \* the send thread
    m_outgoing_queue,   \* ids with a DISCO that waits
    pending_disconnect, \* objects with m_pending_disconnect
    told,               \* objects that a DISCO was sent to
    rt,                 \* the receive thread
    kicks,              \* commands given to disconnect a peer
    clients             \* per id: the object its RemoteClient was created for

useVars == <<usage, pending_deletion, freed, helper>>
dropVars == <<erased, announced>>
sendVars == <<st, m_outgoing_queue, pending_disconnect, told>>
mapVars == <<m_peers, created, object>>
serverVars == <<kicks, clients>>
vars == <<mapVars, half_open, useVars, dropVars, events, commands, sendVars, rt, serverVars>>

Idle == [pc |-> "idle", id |-> None, from |-> None, knew |-> FALSE, what |-> "none"]

Init ==
    /\ m_peers = [id \in Ids |-> None]
    /\ created = 0 /\ object = << >> /\ half_open = {}
    /\ usage = [o \in Objects |-> 0] /\ pending_deletion = {}
    /\ freed = [o \in Objects |-> 0]
    /\ helper = [h \in Helpers |-> None]
    /\ erased = [t \in Threads |-> None] /\ announced = [t \in Threads |-> None]
    /\ events = << >> /\ commands = << >>
    /\ st = [pc |-> "timeouts", todo |-> {}, doomed |-> {}, id |-> None]
    /\ m_outgoing_queue = {} /\ pending_disconnect = {} /\ told = {}
    /\ rt = Idle /\ kicks = 0
    /\ clients = [id \in Ids |-> None]

-----------------------------------------------------------------------------
(* Use counts                                                              *)

\* getPeerNoEx: the lookup and the count are one step under m_peers_mutex.
getPeerNoEx(h, id) ==
    LET o == IF id \in Ids THEN m_peers[id] ELSE None IN
    /\ helper[h] = None
    /\ IF o # None /\ o \notin pending_deletion
       THEN /\ helper' = [helper EXCEPT ![h] = o]
            /\ usage' = [usage EXCEPT ![o] = @ + 1]
       ELSE UNCHANGED <<helper, usage>>
    /\ UNCHANGED <<pending_deletion, freed>>

\* Variant: the last user leaves it to Drop to free the peer.
LastUse_Never(o, uses) == FALSE

LastUse(o, uses) == uses = 0 /\ o \in pending_deletion

\* DecUseCount, when a PeerHelper ends.
Release(h) ==
    LET o == helper[h] IN
    /\ o # None
    /\ helper' = [helper EXCEPT ![h] = None]
    /\ usage' = [usage EXCEPT ![o] = @ - 1]
    /\ freed' = [freed EXCEPT ![o] = IF LastUse(o, usage[o] - 1) THEN @ + 1 ELSE @]
    /\ UNCHANGED pending_deletion

\* deletePeer takes the peer out of the map, tells the server, and drops it.
Erase(t, id) ==
    /\ erased[t] = None /\ announced[t] = None
    /\ m_peers' = [m_peers EXCEPT ![id] = None]
    /\ erased' = [erased EXCEPT ![t] = m_peers[id]]
    /\ UNCHANGED <<created, object, announced>>

PutRemoved(t) ==
    LET o == erased[t] IN
    /\ o # None
    /\ events' = Append(events, [type |-> "removed", id |-> object[o].id, peer |-> o])
    /\ erased' = [erased EXCEPT ![t] = None]
    /\ announced' = [announced EXCEPT ![t] = o]
    /\ UNCHANGED <<mapVars, half_open, useVars, commands, sendVars, rt, serverVars>>

\* Variant: the peer is freed although a thread uses it.
Unused_Always(o) == TRUE

\* Variant: Drop leaves it to the last user, where there is none.
Unused_Never(o) == FALSE

Unused(o) == usage[o] = 0

Drop(t) ==
    LET o == announced[t] IN
    /\ o # None
    /\ pending_deletion' = pending_deletion \cup {o}
    /\ freed' = [freed EXCEPT ![o] = IF Unused(o) THEN @ + 1 ELSE @]
    /\ announced' = [announced EXCEPT ![t] = None]
    /\ UNCHANGED <<mapVars, half_open, usage, helper, erased, events, commands,
                   sendVars, rt, serverVars>>

\* A thread that is not within deletePeer.
Free(t) == erased[t] = None /\ announced[t] = None

-----------------------------------------------------------------------------
(* The send thread                                                         *)

Known == {id \in Ids : m_peers[id] # None}
Goes(pc, todo) == st' = [st EXCEPT !.pc = pc, !.todo = todo]
SendFree == helper["send"] = None /\ Free("send")

\* The next peer of the list that the loops of runTimeouts and sendPackets
\* took at their start.
Visit ==
    /\ st.pc \in {"timeouts", "sendPackets"} /\ SendFree
    /\ \E id \in st.todo :
        /\ getPeerNoEx("send", id)
        /\ st' = [st EXCEPT !.todo = @ \ {id}, !.id = IF helper'["send"] = None THEN None ELSE id]
    /\ UNCHANGED <<mapVars, half_open, dropVars, events, commands,
                   m_outgoing_queue, pending_disconnect, told, rt, serverVars>>

\* runTimeouts: a peer that was silent for long is put down by its id.
CheckTimeout(timed_out) ==
    /\ st.pc = "timeouts" /\ Release("send")
    /\ st' = [st EXCEPT !.doomed = IF timed_out THEN @ \cup {st.id} ELSE @, !.id = None]
    /\ UNCHANGED <<mapVars, half_open, dropVars, events, commands,
                   m_outgoing_queue, pending_disconnect, told, rt, serverVars>>

\* sendPackets: likewise one that is to be disconnected.
CheckDisconnect ==
    /\ st.pc = "sendPackets"
    /\ st' = [st EXCEPT !.doomed = IF helper["send"] \in pending_disconnect
                                   THEN @ \cup {st.id} ELSE @, !.id = None]
    /\ Release("send")
    /\ UNCHANGED <<mapVars, half_open, dropVars, events, commands,
                   m_outgoing_queue, pending_disconnect, told, rt, serverVars>>

EndVisits ==
    /\ st.todo = {} /\ SendFree
    /\ \/ st.pc = "timeouts" /\ Goes("remove timed out", {})
       \/ st.pc = "sendPackets" /\ Goes("outgoing", m_outgoing_queue)
    /\ UNCHANGED <<mapVars, half_open, useVars, dropVars, events, commands,
                   m_outgoing_queue, pending_disconnect, told, rt, serverVars>>

RemoveDoomed ==
    /\ st.pc \in {"remove timed out", "remove disconnected"}
    /\ \E id \in st.doomed :
        /\ Erase("send", id)
        /\ st' = [st EXCEPT !.doomed = @ \ {id}]
    /\ UNCHANGED <<half_open, useVars, events, commands,
                   m_outgoing_queue, pending_disconnect, told, rt, serverVars>>

EndRemovals ==
    /\ st.doomed = {} /\ SendFree
    /\ \/ st.pc = "remove timed out" /\ Goes("commands", {})
       \/ st.pc = "remove disconnected" /\ Goes("timeouts", Known)
    /\ UNCHANGED <<mapVars, half_open, useVars, dropVars, events, commands,
                   m_outgoing_queue, pending_disconnect, told, rt, serverVars>>

\* disconnect_peer: a DISCO is queued, then the peer is looked up.
DisconnectPeer ==
    /\ st.pc = "commands" /\ SendFree /\ commands # << >>
    /\ commands' = Tail(commands)
    /\ m_outgoing_queue' = m_outgoing_queue \cup {Head(commands)}
    /\ getPeerNoEx("send", Head(commands))
    /\ UNCHANGED <<mapVars, half_open, dropVars, events, st, pending_disconnect,
                   told, rt, serverVars>>

SetPendingDisconnect ==
    /\ st.pc = "commands"
    /\ pending_disconnect' = pending_disconnect \cup {helper["send"]}
    /\ Release("send")
    /\ UNCHANGED <<mapVars, half_open, dropVars, events, commands, st,
                   m_outgoing_queue, told, rt, serverVars>>

EndCommands ==
    /\ st.pc = "commands" /\ SendFree /\ commands = << >>
    /\ Goes("sendPackets", Known)
    /\ UNCHANGED <<mapVars, half_open, useVars, dropVars, events, commands,
                   m_outgoing_queue, pending_disconnect, told, rt, serverVars>>

\* Unreliable packets leave while the peer has quota, each by its id again.
TakeOutgoing ==
    /\ st.pc = "outgoing" /\ SendFree
    /\ \E id \in st.todo :
        /\ getPeerNoEx("send", id)
        /\ st' = [st EXCEPT !.todo = @ \ {id}, !.id = IF helper'["send"] = None THEN None ELSE id]
        /\ m_outgoing_queue' = m_outgoing_queue \ {id}
    /\ UNCHANGED <<mapVars, half_open, dropVars, events, commands,
                   pending_disconnect, told, rt, serverVars>>

\* Variant: the peer is removed although its DISCO waits.
StillPending_Never(doomed, id) == doomed

\* A peer with an unreliable packet that waits is not removed yet.
StillPending(doomed, id) == doomed \ {id}

RequeueOutgoing ==
    /\ st.pc = "outgoing" /\ st.id # None /\ Release("send")
    /\ m_outgoing_queue' = m_outgoing_queue \cup {st.id}
    /\ st' = [st EXCEPT !.doomed = StillPending(@, st.id), !.id = None]
    /\ UNCHANGED <<mapVars, half_open, dropVars, events, commands,
                   pending_disconnect, told, rt, serverVars>>

\* rawSendAsPacket
SendOutgoing ==
    /\ st.pc = "outgoing" /\ helper["send"] # None /\ st.id # None
    /\ getPeerNoEx("send inner", st.id)
    /\ st' = [st EXCEPT !.id = None]
    /\ told' = told \cup ({helper'["send inner"]} \ {None})
    /\ UNCHANGED <<mapVars, half_open, dropVars, events, commands,
                   m_outgoing_queue, pending_disconnect, rt, serverVars>>

EndOutgoing ==
    /\ st.pc = "outgoing" /\ st.id = None
    /\ IF helper["send inner"] # None THEN Release("send inner") ELSE Release("send")
    /\ UNCHANGED <<mapVars, half_open, dropVars, events, commands, sendVars, rt, serverVars>>

EndSendPackets ==
    /\ st.pc = "outgoing" /\ st.todo = {} /\ SendFree
    /\ Goes("remove disconnected", {})
    /\ UNCHANGED <<mapVars, half_open, useVars, dropVars, events, commands,
                   m_outgoing_queue, pending_disconnect, told, rt, serverVars>>

SendThread ==
    \/ Visit \/ (\E timed_out \in BOOLEAN : CheckTimeout(timed_out)) \/ CheckDisconnect
    \/ EndVisits \/ RemoveDoomed \/ EndRemovals \/ PutRemoved("send") \/ Drop("send")
    \/ DisconnectPeer \/ SetPendingDisconnect \/ EndCommands
    \/ TakeOutgoing \/ RequeueOutgoing \/ SendOutgoing \/ EndOutgoing \/ EndSendPackets

-----------------------------------------------------------------------------
(* The receive thread                                                      *)

\* What still names an id.
Named(id) ==
    \/ clients[id] # None \/ id \in m_outgoing_queue \cup st.todo \cup st.doomed \cup {st.id}
    \/ \E i \in DOMAIN events : events[i].id = id
    \/ \E i \in DOMAIN commands : commands[i] = id
    \/ \E o \in 1 .. created :
        /\ object[o].id = id
        /\ \/ o \in {helper[h] : h \in Helpers}
           \/ o \in {erased[t] : t \in Threads} \cup {announced[t] : t \in Threads}

At(address) == {o \in 1 .. created : object[o].address = address}

\* lookupPeer
Looked(address) == {id \in Ids : m_peers[id] \in At(address) \ pending_deletion}

\* A datagram with an id this address was given, or without one.
Arrive(address, what) ==
    /\ rt.pc = "idle"
    /\ \/ \E o \in At(address) :
            rt' = [pc |-> "known", id |-> object[o].id, from |-> address, knew |-> TRUE,
                   what |-> what]
       \/ \E id \in Looked(address) :
            rt' = [pc |-> "known", id |-> id, from |-> address, knew |-> FALSE,
                   what |-> what]
    /\ UNCHANGED <<mapVars, half_open, useVars, dropVars, events, commands, sendVars, serverVars>>

\* Somebody new: a peer with any free id, and peerAdded under the same lock.
createPeer(address) ==
    /\ rt.pc = "idle" /\ Looked(address) = {} /\ created < MaxPeers
    /\ \E id \in Ids :
        /\ m_peers[id] = None /\ (FreshIds => ~Named(id))
        /\ created' = created + 1
        /\ object' = Append(object, [id |-> id, address |-> address])
        /\ m_peers' = [m_peers EXCEPT ![id] = created']
        /\ half_open' = half_open \cup {created'}
        /\ events' = Append(events, [type |-> "added", id |-> id, peer |-> created'])
        /\ rt' = [pc |-> "known", id |-> id, from |-> address, knew |-> FALSE, what |-> "data"]
    /\ UNCHANGED <<useVars, dropVars, commands, sendVars, serverVars>>

\* getFromBuffers: a packet that waited for its turn.
Unbuffer ==
    /\ rt.pc = "idle"
    /\ \E id \in Known :
        rt' = [pc |-> "known", id |-> id, from |-> object[m_peers[id]].address, knew |-> TRUE,
               what |-> "buffered"]
    /\ UNCHANGED <<mapVars, half_open, useVars, dropVars, events, commands, sendVars, serverVars>>

GetPeer ==
    /\ rt.pc = "known" /\ getPeerNoEx("receive", rt.id)
    /\ rt' = IF helper'["receive"] = None THEN Idle ELSE [rt EXCEPT !.pc = "check"]
    /\ UNCHANGED <<mapVars, half_open, dropVars, events, commands, sendVars, serverVars>>

\* The datagram comes from the peer's address, and without an id only until
\* the peer has used it.
Accepted ==
    \/ rt.what = "buffered"
    \/ /\ rt.from = object[helper["receive"]].address
       /\ rt.knew \/ helper["receive"] \in half_open

Refuse ==
    /\ rt.pc = "check" /\ ~Accepted /\ Release("receive")
    /\ rt' = Idle
    /\ UNCHANGED <<mapVars, half_open, dropVars, events, commands, sendVars, serverVars>>

\* SetFullyOpen, and processPacket looks the peer up again.
processPacket ==
    /\ rt.pc = "check" /\ Accepted
    /\ half_open' = IF rt.knew /\ rt.what # "buffered" THEN half_open \ {helper["receive"]}
                    ELSE half_open
    /\ getPeerNoEx("receive inner", rt.id)
    /\ rt' = [rt EXCEPT !.pc = CASE helper'["receive inner"] = None -> "return"
                                 [] rt.what = "DISCO" -> "disco"
                                 [] OTHER -> "deliver"]
    /\ UNCHANGED <<mapVars, dropVars, events, commands, sendVars, serverVars>>

\* CONTROLTYPE_DISCO
Disco ==
    /\ rt.pc = "disco" /\ Erase("receive", rt.id)
    /\ rt' = [rt EXCEPT !.pc = "return"]
    /\ UNCHANGED <<half_open, useVars, events, commands, sendVars, serverVars>>

EndProcessPacket ==
    /\ rt.pc \in {"deliver", "return"} /\ Free("receive")
    /\ Release("receive inner")
    /\ UNCHANGED <<mapVars, half_open, dropVars, events, commands, sendVars, rt, serverVars>>

\* A packet from the buffers is put into the queue when no helper is left.
EndGetFromBuffers ==
    /\ rt.pc = "deliver" /\ rt.what = "buffered" /\ helper["receive inner"] = None
    /\ Release("receive")
    /\ UNCHANGED <<mapVars, half_open, dropVars, events, commands, sendVars, rt, serverVars>>

Deliver ==
    /\ rt.pc = "deliver" /\ helper["receive inner"] = None
    /\ rt.what = "buffered" => helper["receive"] = None
    /\ Len(events) < MaxEvents
    /\ events' = Append(events, [type |-> "data", id |-> rt.id, peer |-> None])
    /\ rt' = IF rt.what = "buffered" THEN Idle ELSE [rt EXCEPT !.pc = "return"]
    /\ UNCHANGED <<mapVars, half_open, useVars, dropVars, commands, sendVars, serverVars>>

EndReceive ==
    /\ rt.pc = "return" /\ Free("receive") /\ helper["receive inner"] = None
    /\ Release("receive")
    /\ rt' = Idle
    /\ UNCHANGED <<mapVars, half_open, dropVars, events, commands, sendVars, serverVars>>

ReceiveWork ==
    \/ GetPeer \/ Refuse \/ processPacket \/ Disco \/ PutRemoved("receive")
    \/ Drop("receive") \/ EndProcessPacket \/ EndGetFromBuffers \/ Deliver \/ EndReceive

Network ==
    \/ \E address \in Addresses, what \in {"data", "DISCO"} : Arrive(address, what)
    \/ \E address \in Addresses : createPeer(address)
    \/ Unbuffer

-----------------------------------------------------------------------------
(* The server thread                                                       *)

CreateClient(e) ==
    IF clients[e.id] = None THEN [clients EXCEPT ![e.id] = e.peer] ELSE clients

\* Variant: deletingPeer leaves a client that is already known to be gone.
DeleteClient_Gone(e) ==
    IF m_peers[e.id] = None THEN clients ELSE [clients EXCEPT ![e.id] = None]

DeleteClient(e) == [clients EXCEPT ![e.id] = None]

\* peerAdded and deletingPeer; what a packet does to its client is not here.
HandleEvent ==
    LET e == Head(events) IN
    /\ events # << >> /\ helper["main"] = None
    /\ events' = Tail(events)
    /\ clients' = CASE e.type = "added" -> CreateClient(e)
                    [] e.type = "removed" -> DeleteClient(e)
                    [] OTHER -> clients
    /\ UNCHANGED <<mapVars, half_open, useVars, dropVars, commands, sendVars, rt, kicks>>

\* The server asks for the address or for the statistics of a peer.
GetPeerAddress ==
    /\ \E id \in Ids : clients[id] # None /\ getPeerNoEx("main", id)
    /\ UNCHANGED <<mapVars, half_open, dropVars, events, commands, sendVars, rt, serverVars>>

EndGetPeerAddress ==
    /\ Release("main")
    /\ UNCHANGED <<mapVars, half_open, dropVars, events, commands, sendVars, rt, serverVars>>

\* A client is denied, kicked, or lingers.
Kick ==
    /\ helper["main"] = None /\ kicks < MaxKicks
    /\ kicks' = kicks + 1
    /\ \E id \in Ids : clients[id] # None /\ commands' = Append(commands, id)
    /\ UNCHANGED <<mapVars, half_open, useVars, dropVars, events, sendVars, rt, clients>>

ServerThread == HandleEvent \/ GetPeerAddress \/ EndGetPeerAddress \/ Kick

Next == SendThread \/ ReceiveWork \/ Network \/ ServerThread

Spec == Init /\ [][Next]_vars

-----------------------------------------------------------------------------
(* Properties                                                              *)

Packets == {"none", "data", "DISCO", "buffered"}

Steps == {"timeouts", "remove timed out", "commands", "sendPackets", "outgoing",
          "remove disconnected"}

TypeOK ==
    /\ created \in 0 .. MaxPeers /\ kicks \in 0 .. MaxKicks
    /\ object \in Seq([id : Ids, address : Addresses]) /\ Len(object) = created
    /\ m_peers \in [Ids -> 0 .. created] /\ clients \in [Ids -> 0 .. created]
    /\ helper \in [Helpers -> 0 .. created]
    /\ erased \in [Threads -> 0 .. created] /\ announced \in [Threads -> 0 .. created]
    /\ half_open \cup pending_deletion \cup pending_disconnect \cup told \subseteq 1 .. created
    /\ usage \in [Objects -> Nat] /\ freed \in [Objects -> Nat]
    /\ events \in Seq([type : {"added", "removed", "data"}, id : Ids, peer : 0 .. created])
    /\ commands \in Seq(Ids) /\ m_outgoing_queue \subseteq Ids
    /\ st \in [pc : Steps, todo : SUBSET Ids, doomed : SUBSET Ids, id : Ids \cup {None}]
    /\ rt \in [pc : {"idle", "known", "check", "disco", "deliver", "return"},
               id : Ids \cup {None}, from : Addresses \cup {None}, knew : BOOLEAN,
               what : Packets]

\* The objects that a thread can still reach.
Reachable ==
    {m_peers[id] : id \in Ids} \cup {helper[h] : h \in Helpers}
        \cup {erased[t] : t \in Threads} \cup {announced[t] : t \in Threads}

\* No thread ever reaches a peer that was freed, and none is freed twice
\* (PeerHelper and Drop, used by three threads).
NoUseAfterFree ==
    \A o \in Objects : freed[o] <= IF o \in Reachable THEN 0 ELSE 1

\* A peer that nobody reaches any more has been freed (deletePeer, Drop and
\* DecUseCount share the work).
NoLeak == \A o \in 1 .. created : o \in Reachable \/ freed[o] = 1

\* Once the events are handled, the clients that peerAdded and deletingPeer
\* keep are the connection's peers, each for the peer it was made for.
ServerAgrees ==
    events = << >> /\ (\A t \in Threads : erased[t] = None) => clients = m_peers

\* A peer that sendPackets removes because the server disconnects it has been
\* sent its DISCO.
DiscoBeforeRemoval ==
    st.pc = "remove disconnected" =>
        \A id \in st.doomed : m_peers[id] \in told \cup {None}

\* The threads run, and the server thread comes back to its events.
\* Unreliable packets wait while a peer's quota is used up by others, which
\* were there before.
Fairness ==
    /\ WF_vars(SendThread) /\ WF_vars(ReceiveWork) /\ WF_vars(EndGetPeerAddress)
    /\ SF_vars(HandleEvent) /\ SF_vars(SendOutgoing)

FairSpec == Spec /\ Fairness

\* Whoever is disconnected, by either side, ends as a freed peer without a
\* client: again and again nobody is on the way out.
Leaves ==
    []<>(\A o \in pending_disconnect \cup pending_deletion :
            freed[o] = 1 /\ \A id \in Ids : clients[id] # o)
=============================================================================
