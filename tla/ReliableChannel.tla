-------------------------- MODULE ReliableChannel ---------------------------
(***************************************************************************)
(* One direction of one reliable channel of an MTP connection, between two *)
(* fully open peers: the sending side (UDPPeer, Channel and the loop of    *)
(* ConnectionSendThread), an unreliable network that may lose, duplicate   *)
(* and reorder, and the receiving side (ConnectionReceiveThread).          *)
(*                                                                         *)
(* A packet carries, besides its sequence number, its place idx in the     *)
(* channel's history; the code has no such field and no action decides     *)
(* anything by it except to say what the network may still deliver         *)
(* (InLifetime).  The payload of a packet is the command it belongs to and *)
(* its place among the command's chunks; command 0 is a PING.              *)
(***************************************************************************)
EXTENDS ReliablePacketBuffer

CONSTANTS SEQNUM_INITIAL,
          Windows,          \* sizes the send window may be adjusted to
          InitialWindow,    \* the send window a peer starts with
          MaxRequeued,      \* m_max_packets_requeued
          PacketQuota,      \* packets a channel may send per loop iteration
          ChunkCounts,      \* how many chunks a command may need
          NumCommands,      \* bound: commands the application submits
          NumPings          \* bound: pings that are due

ASSUME ChannelAssumption ==
    /\ SEQNUM_INITIAL \in SeqNums
    /\ Windows \subseteq Nat \ {0} /\ InitialWindow \in Windows
    /\ MaxRequeued \in Nat /\ PacketQuota \in Nat \ {0}
    /\ ChunkCounts \subseteq Nat \ {0}
    /\ \A n \in ChunkCounts : n < MAX_RELIABLE_WINDOW_SIZE  \* sanity_check
    /\ \A w \in Windows : w + 2 <= MAX_RELIABLE_WINDOW_SIZE  \* setWindowSize:
                                    \* at most MAX_RELIABLE_WINDOW_SIZE_SEND
    /\ NumCommands \in Nat /\ NumPings \in Nat

VARIABLES
    \* Connection and ConnectionSendThread
    m_command_queue,           \* commands the send thread has not seen
    pc,                        \* where ConnectionSendThread::run is
    attempting,                \* processReliableSendCommand is at work on the
                               \* first command of queued_commands ("run"), of
                               \* m_command_queue ("put"), or not ("no")
    toadd,                     \* its packets so far
    quota,                     \* m_increment_packets_remaining
    \* the sender's Channel
    queued_commands, queued_reliables, outgoing_reliables_sent,
    next_outgoing_seqnum, m_window_size,
    \* the wire
    net, acks,
    \* the receiver's Channel and ConnectionReceiveThread
    next_incoming_seqnum, incoming_reliables, incoming_splits, packet_queued,
    delivered,                 \* commands handed to the application
    \* history and bounds
    submitted,                 \* number of commands submitted
    log,                       \* payloads given a sequence number for good
    received,                  \* payloads processed by the receiver
    pings                      \* pings still to come

senderVars   == <<m_command_queue, pc, attempting, toadd, quota,
                  queued_commands, queued_reliables, outgoing_reliables_sent,
                  next_outgoing_seqnum, m_window_size, submitted, log, pings>>
receiverVars == <<next_incoming_seqnum, incoming_reliables, incoming_splits,
                  packet_queued, delivered, received>>
wireVars     == <<net, acks>>
vars         == <<senderVars, receiverVars, wireVars>>

Payload == [cmd : Nat, num : Nat, count : Nat]
Packet  == [seqnum : SeqNums, idx : Nat, payload : Payload]
Ack     == [seqnum : SeqNums, idx : Nat]
Command == [id : Nat, chunks : ChunkCounts]

PingPayload == [cmd |-> 0, num |-> 0, count |-> 1]

Init ==
    /\ m_command_queue = << >> /\ pc = "timeouts"
    /\ attempting = "no" /\ toadd = << >> /\ quota = 0
    /\ queued_commands = << >> /\ queued_reliables = << >>
    /\ outgoing_reliables_sent = << >>
    /\ next_outgoing_seqnum = SEQNUM_INITIAL
    /\ m_window_size = InitialWindow
    /\ net = {} /\ acks = {}
    /\ next_incoming_seqnum = SEQNUM_INITIAL
    /\ incoming_reliables = << >> /\ incoming_splits = {}
    /\ packet_queued = FALSE /\ delivered = << >>
    /\ submitted = 0 /\ log = << >> /\ received = << >> /\ pings = NumPings

-----------------------------------------------------------------------------
(* The application thread: Connection::Send puts a command into the queue. *)

Submit(n) ==
    /\ submitted < NumCommands
    /\ submitted' = submitted + 1
    /\ m_command_queue' =
           Append(m_command_queue, [id |-> submitted + 1, chunks |-> n])
    /\ UNCHANGED <<pc, attempting, toadd, quota, queued_commands,
                   queued_reliables, outgoing_reliables_sent,
                   next_outgoing_seqnum, m_window_size, log, pings,
                   receiverVars, wireVars>>

-----------------------------------------------------------------------------
(* Channel::getOutgoingSequenceNumber and ::putBackSequenceNumber          *)

\* Success does not depend on the packets that are queued but not yet sent.
SeqNumAvailable ==
    outgoing_reliables_sent # << >> =>
        ~WindowExceeded(next_outgoing_seqnum,
                        getFirstSeqnum(outgoing_reliables_sent), m_window_size)

NewPacket(payload) ==
    [seqnum |-> next_outgoing_seqnum,
     idx |-> Len(log) + Len(toadd), payload |-> payload]

Incremented(seqnum) == U16(seqnum + 1)

-----------------------------------------------------------------------------
(* ConnectionSendThread                                                    *)

\* sendAsPacketReliable: buffer for resending, then send.
sendAsPacketReliable(p, next_outgoing) ==
    /\ outgoing_reliables_sent' =
           insert(outgoing_reliables_sent, p, SentWindowStart(next_outgoing))
    /\ net' = net \cup {p}

\* runTimeouts: a packet that waited too long for its ack is sent again.
resendReliable(i) ==
    /\ pc = "timeouts"
    /\ net' = net \cup {outgoing_reliables_sent[i]}
    /\ UNCHANGED <<senderVars, receiverVars, acks>>

\* runTimeouts: Channel::UpdateTimers adjusts the window.
UpdateTimers ==
    /\ pc = "timeouts"
    /\ m_window_size' \in Windows
    /\ UNCHANGED <<m_command_queue, pc, attempting, toadd, quota,
                   queued_commands, queued_reliables, outgoing_reliables_sent,
                   next_outgoing_seqnum, submitted, log, pings,
                   receiverVars, wireVars>>

\* Variant: a PING from another thread than the send thread's.
Ping_OtherThread ==
    /\ pings > 0 /\ SeqNumAvailable
    /\ pings' = pings - 1
    /\ next_outgoing_seqnum' = Incremented(next_outgoing_seqnum)
    /\ log' = Append(log, PingPayload)
    /\ sendAsPacketReliable(NewPacket(PingPayload), next_outgoing_seqnum')
    /\ UNCHANGED <<m_command_queue, pc, attempting, toadd, quota,
                   queued_commands, queued_reliables, m_window_size, submitted,
                   receiverVars, acks>>

\* runTimeouts: a PING goes out through rawSendAsPacket, past the packets that
\* are queued; without a sequence number it is dropped.
Ping ==
    /\ pc = "timeouts" /\ pings > 0
    /\ pings' = pings - 1
    /\ IF ~SeqNumAvailable
       THEN UNCHANGED <<next_outgoing_seqnum, log, net,
                        outgoing_reliables_sent, queued_reliables>>
       ELSE LET p == NewPacket(PingPayload) IN
            /\ next_outgoing_seqnum' = Incremented(next_outgoing_seqnum)
            /\ log' = Append(log, PingPayload)
            /\ IF Len(outgoing_reliables_sent) < m_window_size
               THEN /\ sendAsPacketReliable(p, next_outgoing_seqnum')
                    /\ UNCHANGED queued_reliables
               ELSE /\ queued_reliables' = Append(queued_reliables, p)
                    /\ UNCHANGED <<net, outgoing_reliables_sent>>
    /\ UNCHANGED <<m_command_queue, pc, attempting, toadd, quota,
                   queued_commands, m_window_size, submitted,
                   receiverVars, acks>>

\* RunCommandQueues ends runTimeouts: one queued command is tried again.
RunCommandQueues ==
    /\ pc = "timeouts"
    /\ pc' = "commands"
    /\ attempting' = IF /\ queued_commands # << >>
                        /\ Len(queued_reliables) < MaxRequeued
                     THEN "run" ELSE "no"
    /\ UNCHANGED <<m_command_queue, toadd, quota, queued_commands,
                   queued_reliables, outgoing_reliables_sent,
                   next_outgoing_seqnum, m_window_size, submitted, log, pings,
                   receiverVars, wireVars>>

\* Variant: a new command is tried although others wait.
PutReliableSendCommand_Overtaking ==
    /\ pc = "commands" /\ attempting = "no" /\ m_command_queue # << >>
    /\ IF Len(queued_reliables) + 1 < m_window_size \div 2
       THEN /\ attempting' = "put"
            /\ UNCHANGED <<m_command_queue, queued_commands>>
       ELSE /\ queued_commands' = Append(queued_commands, Head(m_command_queue))
            /\ m_command_queue' = Tail(m_command_queue)
            /\ UNCHANGED attempting
    /\ UNCHANGED <<pc, toadd, quota, queued_reliables, outgoing_reliables_sent,
                   next_outgoing_seqnum, m_window_size, submitted, log, pings,
                   receiverVars, wireVars>>

\* PutReliableSendCommand for the next command of the queue.
PutReliableSendCommand ==
    /\ pc = "commands" /\ attempting = "no" /\ m_command_queue # << >>
    /\ IF /\ queued_commands = << >>
          /\ Len(queued_reliables) + 1 < m_window_size \div 2
       THEN /\ attempting' = "put"
            /\ UNCHANGED <<m_command_queue, queued_commands>>
       ELSE /\ queued_commands' = Append(queued_commands, Head(m_command_queue))
            /\ m_command_queue' = Tail(m_command_queue)
            /\ UNCHANGED attempting
    /\ UNCHANGED <<pc, toadd, quota, queued_reliables, outgoing_reliables_sent,
                   next_outgoing_seqnum, m_window_size, submitted, log, pings,
                   receiverVars, wireVars>>

\* The command that processReliableSendCommand works on.
Current == IF attempting = "run" THEN Head(queued_commands)
                                 ELSE Head(m_command_queue)

\* processReliableSendCommand, one turn of the loop over the chunks.
AllocateChunk ==
    /\ attempting # "no" /\ Len(toadd) < Current.chunks
    /\ SeqNumAvailable
    /\ toadd' = Append(toadd, NewPacket([cmd |-> Current.id,
                                         num |-> Len(toadd),
                                         count |-> Current.chunks]))
    /\ next_outgoing_seqnum' = Incremented(next_outgoing_seqnum)
    /\ UNCHANGED <<m_command_queue, pc, attempting, quota, queued_commands,
                   queued_reliables, outgoing_reliables_sent, m_window_size,
                   submitted, log, pings, receiverVars, wireVars>>

\* ... all chunks have a number: they are queued, the command is done.
QueuePackets ==
    /\ attempting # "no" /\ Len(toadd) = Current.chunks
    /\ queued_reliables' = queued_reliables \o toadd
    /\ log' = log \o [k \in 1 .. Len(toadd) |-> toadd[k].payload]
    /\ IF attempting = "run"
       THEN /\ queued_commands' = Tail(queued_commands)
            /\ UNCHANGED m_command_queue
       ELSE /\ m_command_queue' = Tail(m_command_queue)
            /\ UNCHANGED queued_commands
    /\ attempting' = "no" /\ toadd' = << >>
    /\ UNCHANGED <<pc, quota, outgoing_reliables_sent, next_outgoing_seqnum,
                   m_window_size, submitted, pings, receiverVars, wireVars>>

\* Variant: one number too many is put back.
PutBackSequenceNumbers_OneMore ==
    /\ attempting # "no" /\ Len(toadd) < Current.chunks
    /\ ~SeqNumAvailable
    /\ next_outgoing_seqnum' = Shift(next_outgoing_seqnum, -(Len(toadd) + 1))
    /\ attempting' = "no" /\ toadd' = << >>
    /\ IF attempting = "run"
       THEN UNCHANGED <<queued_commands, m_command_queue>>
       ELSE /\ queued_commands' = Append(queued_commands, Current)
            /\ m_command_queue' = Tail(m_command_queue)
    /\ UNCHANGED <<pc, quota, queued_reliables, outgoing_reliables_sent,
                   m_window_size, submitted, log, pings,
                   receiverVars, wireVars>>

\* ... a chunk has none: the numbers taken are put back, last one first, and
\* the command waits in queued_commands.
PutBackSequenceNumbers ==
    /\ attempting # "no" /\ Len(toadd) < Current.chunks
    /\ ~SeqNumAvailable
    /\ next_outgoing_seqnum' = IF toadd = << >> THEN next_outgoing_seqnum
                                                ELSE toadd[1].seqnum
    /\ IF attempting = "run"
       THEN UNCHANGED <<queued_commands, m_command_queue>>
       ELSE /\ queued_commands' = Append(queued_commands, Current)
            /\ m_command_queue' = Tail(m_command_queue)
    /\ attempting' = "no" /\ toadd' = << >>
    /\ UNCHANGED <<pc, quota, queued_reliables, outgoing_reliables_sent,
                   m_window_size, submitted, log, pings,
                   receiverVars, wireVars>>

\* run() turns to sendPackets when the command queue is empty.
EndCommands ==
    /\ pc = "commands" /\ attempting = "no" /\ m_command_queue = << >>
    /\ pc' = "send" /\ quota' = PacketQuota
    /\ UNCHANGED <<m_command_queue, attempting, toadd, queued_commands,
                   queued_reliables, outgoing_reliables_sent,
                   next_outgoing_seqnum, m_window_size, submitted, log, pings,
                   receiverVars, wireVars>>

MaySend == /\ queued_reliables # << >>
           /\ Len(outgoing_reliables_sent) < m_window_size
           /\ quota > 0

\* sendPackets, one turn of the loop over queued_reliables.
SendQueuedReliable ==
    /\ pc = "send" /\ MaySend
    /\ queued_reliables' = Tail(queued_reliables)
    /\ sendAsPacketReliable(Head(queued_reliables), next_outgoing_seqnum)
    /\ quota' = quota - 1
    /\ UNCHANGED <<m_command_queue, pc, attempting, toadd, queued_commands,
                   next_outgoing_seqnum, m_window_size, submitted, log, pings,
                   receiverVars, acks>>

EndSendPackets ==
    /\ pc = "send" /\ ~MaySend
    /\ pc' = "timeouts" /\ quota' = 0
    /\ UNCHANGED <<m_command_queue, attempting, toadd, queued_commands,
                   queued_reliables, outgoing_reliables_sent,
                   next_outgoing_seqnum, m_window_size, submitted, log, pings,
                   receiverVars, wireVars>>

\* handlePacketType_Control, CONTROLTYPE_ACK, on the sender's receive thread;
\* an ack that matches nothing only counts as too late.  (An ack is not
\* delivered after the number has come round to its next use.)
ReceiveAck(a) ==
    /\ Len(log) + Len(toadd) - a.idx <= MAX_RELIABLE_WINDOW_SIZE
    /\ HasSeqnum(outgoing_reliables_sent, a.seqnum)
    /\ outgoing_reliables_sent' = popSeqnum(outgoing_reliables_sent, a.seqnum)
    /\ UNCHANGED <<m_command_queue, pc, attempting, toadd, quota,
                   queued_commands, queued_reliables, next_outgoing_seqnum,
                   m_window_size, submitted, log, pings,
                   receiverVars, wireVars>>

-----------------------------------------------------------------------------
(* ConnectionReceiveThread                                                 *)

\* The chunks of p's command that are here once p is.
ChunksWith(payload) == {c \in incoming_splits : c.cmd = payload.cmd}
                           \cup {payload}

\* processPacket on what a reliable packet contains: a control packet, a whole
\* message (handlePacketType_Original) or a chunk of one (handlePacketType_Split
\* and IncomingSplitBuffer::insert).
ProcessPayload(payload) ==
    LET complete == Cardinality(ChunksWith(payload)) = payload.count IN
    /\ delivered' = IF payload.cmd # 0 /\ complete
                    THEN Append(delivered, payload.cmd) ELSE delivered
    /\ incoming_splits' = IF payload.cmd = 0 THEN incoming_splits
                          ELSE IF complete
                          THEN incoming_splits \ ChunksWith(payload)
                          ELSE incoming_splits \cup {payload}

\* The packet is the one to process now.
ProcessReliable(p) ==
    /\ next_incoming_seqnum' = Incremented(next_incoming_seqnum)
    /\ received' = Append(received, p.payload)
    /\ ProcessPayload(p.payload)

SendAck(p) == acks' = acks \cup {[seqnum |-> p.seqnum, idx |-> p.idx]}

\* A packet older than half the number space is no longer on its way.
InLifetime(p) == Len(received) - p.idx <= MAX_RELIABLE_WINDOW_SIZE

InReceiveWindow(p) ==
    seqnum_in_window(p.seqnum, next_incoming_seqnum, MAX_RELIABLE_WINDOW_SIZE)

IsDuplicateOfDifferentPacket(p) ==
    Corrupting(incoming_reliables, p, next_incoming_seqnum)

ToBuffer(p) == /\ p.seqnum # next_incoming_seqnum
               /\ ~IsDuplicateOfDifferentPacket(p)

\* handlePacketType_Reliable for the packet that is due, or (after the peer has
\* been put down for disconnection) for one that contradicts the buffer.
ReceiveNow(p) ==
    /\ InReceiveWindow(p)
    /\ ~ToBuffer(p)
    /\ SendAck(p)
    /\ incoming_reliables' =
           IF /\ incoming_reliables # << >>
              /\ getFirstSeqnum(incoming_reliables) = p.seqnum
           THEN Tail(incoming_reliables) ELSE incoming_reliables
    /\ ProcessReliable(p)

\* ... for a packet that comes too early: acknowledged and buffered.
ReceiveAhead(p) ==
    /\ InReceiveWindow(p)
    /\ ToBuffer(p)
    /\ SendAck(p)
    /\ incoming_reliables' = insert(incoming_reliables, p, next_incoming_seqnum)
    /\ UNCHANGED <<next_incoming_seqnum, received, delivered, incoming_splits>>

\* ... for a number outside of the window: an old packet is acknowledged again,
\* a future one is not.
ReceiveOutOfWindow(p) ==
    /\ ~InReceiveWindow(p)
    /\ IF seqnum_higher(p.seqnum, next_incoming_seqnum)
       THEN UNCHANGED acks ELSE SendAck(p)
    /\ UNCHANGED <<next_incoming_seqnum, incoming_reliables, received,
                   delivered, incoming_splits>>

Receive(p) ==
    /\ ~packet_queued /\ InLifetime(p)
    /\ ReceiveNow(p) \/ ReceiveAhead(p) \/ ReceiveOutOfWindow(p)
    /\ packet_queued' = TRUE
    /\ UNCHANGED <<senderVars, net>>

\* Variant: whatever is buffered first is processed.
FirstIsDue_Any == incoming_reliables # << >>

FirstIsDue == /\ incoming_reliables # << >>
              /\ getFirstSeqnum(incoming_reliables) = next_incoming_seqnum

\* checkIncomingBuffers: runs until it finds nothing before the next packet is
\* read from the socket.
checkIncomingBuffers ==
    /\ packet_queued
    /\ IF FirstIsDue
       THEN /\ incoming_reliables' = Tail(incoming_reliables)
            /\ ProcessReliable(Head(incoming_reliables))
            /\ UNCHANGED packet_queued
       ELSE /\ packet_queued' = FALSE
            /\ UNCHANGED <<incoming_reliables, next_incoming_seqnum, received,
                           delivered, incoming_splits>>
    /\ UNCHANGED <<senderVars, wireVars>>

-----------------------------------------------------------------------------
(* The network loses packets; a packet it keeps may arrive again.  It      *)
(* decides on a loss while the receive thread waits for the socket: what   *)
(* is lost meanwhile is as good as lost then, and fairness of receiving    *)
(* means the same for a thread that is busy between two packets.           *)

LosePacket(p) == /\ ~packet_queued
                 /\ net' = net \ {p}
                 /\ UNCHANGED <<senderVars, receiverVars, acks>>
LoseAck(a)    == acks' = acks \ {a} /\ UNCHANGED <<senderVars, receiverVars, net>>

SendThread ==
    \/ \E i \in DOMAIN outgoing_reliables_sent : resendReliable(i)
    \/ UpdateTimers \/ Ping \/ RunCommandQueues
    \/ PutReliableSendCommand
    \/ AllocateChunk \/ QueuePackets \/ PutBackSequenceNumbers
    \/ EndCommands
    \/ SendQueuedReliable \/ EndSendPackets

ReceiveThread == (\E p \in net : Receive(p)) \/ checkIncomingBuffers

Network == (\E p \in net : LosePacket(p)) \/ (\E a \in acks : LoseAck(a))

Endpoints ==
    \/ \E n \in ChunkCounts : Submit(n)
    \/ SendThread
    \/ \E a \in acks : ReceiveAck(a)
    \/ ReceiveThread

Next == Endpoints \/ Network

Spec == Init /\ [][Next]_vars

\* The same with a network that forgets nothing: a packet is lost by never
\* being delivered.  The endpoints can do whatever they can do in Spec, in far
\* fewer states, which is what the safety runs need.
KeepingSpec == Init /\ [][Endpoints]_vars

-----------------------------------------------------------------------------
(* Fairness.  Both threads loop for as long as the connection exists, a    *)
(* packet that stays unacknowledged is sent again and again, and a network *)
(* that is handed the same packet again and again lets one copy through.   *)

MaxIdx == NumCommands * Max(ChunkCounts) + NumPings - 1

Resending(k) == \E i \in DOMAIN outgoing_reliables_sent :
                    /\ outgoing_reliables_sent[i].idx = k
                    /\ resendReliable(i)

Fairness ==
    /\ WF_vars(RunCommandQueues) /\ WF_vars(PutReliableSendCommand)
    /\ WF_vars(AllocateChunk \/ QueuePackets \/ PutBackSequenceNumbers)
    /\ WF_vars(EndCommands) /\ WF_vars(SendQueuedReliable \/ EndSendPackets)
    /\ WF_vars(checkIncomingBuffers)
    /\ \A k \in 0 .. MaxIdx :
         /\ SF_vars(Resending(k))
         /\ SF_vars(\E p \in net : p.idx = k /\ Receive(p))
         /\ SF_vars(\E a \in acks : a.idx = k /\ ReceiveAck(a))

FairSpec == Spec /\ Fairness

-----------------------------------------------------------------------------
(* Correctness                                                             *)

\* Every variable has its type; in particular a sequence number never leaves
\* the range of u16 and a window never leaves the configured sizes.
TypeOK ==
    /\ m_command_queue \in Seq(Command) /\ queued_commands \in Seq(Command)
    /\ pc \in {"timeouts", "commands", "send"}
    /\ attempting \in {"no", "run", "put"}
    /\ toadd \in Seq(Packet) /\ queued_reliables \in Seq(Packet)
    /\ outgoing_reliables_sent \in Seq(Packet)
    /\ incoming_reliables \in Seq(Packet)
    /\ quota \in 0 .. PacketQuota
    /\ next_outgoing_seqnum \in SeqNums /\ next_incoming_seqnum \in SeqNums
    /\ m_window_size \in Windows
    /\ net \subseteq Packet /\ acks \subseteq Ack
    /\ incoming_splits \subseteq Payload /\ packet_queued \in BOOLEAN
    /\ delivered \in Seq(Nat) /\ submitted \in 0 .. NumCommands
    /\ log \in Seq(Payload) /\ received \in Seq(Payload)
    /\ pings \in 0 .. NumPings

\* What the code relies on and does not check: the longest command fits into half
\* the number space behind the packets that may be queued when it is tried, and
\* the pings that may overtake them.  (With the numbers of the code at most 1022
\* packets are queued then, which leaves 31745 of the 32767 chunks that
\* processReliableSendCommand accepts.)
QueueBounds == {0, MaxRequeued - 1} \cup {w \div 2 - 2 : w \in Windows}

NumbersSuffice ==
    /\ NumPings < MAX_RELIABLE_WINDOW_SIZE
    /\ \A n \in ChunkCounts, b \in QueueBounds :
          b + n + NumPings < MAX_RELIABLE_WINDOW_SIZE

\* The receiver processes the packets of the channel in the order in which the
\* sender numbered them, each once, without a gap and without confusing a
\* number with its use one revolution earlier or later, whatever the network
\* loses, repeats or reorders (handlePacketType_Reliable, checkIncomingBuffers).
InOrderDelivery ==
    /\ Len(received) <= Len(log)
    /\ \A k \in 1 .. Len(received) : received[k] = log[k]

HeldIn(list, k) == \E i \in DOMAIN list : list[i].idx = k

\* "Delivery of all RELIABLE packets shall be forced by ACKs" (internal.h): a
\* numbered packet is waiting to be sent, or kept for resending, or in the hands
\* of the receiver.  It breaks when insert() refuses the packet of
\* sendAsPacketReliable, or an ack removes a packet the receiver did not take.
NoPacketForgotten ==
    \A k \in 0 .. Len(log) - 1 :
        \/ k < Len(received)
        \/ HeldIn(incoming_reliables, k)
        \/ HeldIn(queued_reliables, k)
        \/ HeldIn(outgoing_reliables_sent, k)

\* Whenever the receiver is about to take a packet from the socket, no more
\* numbers are in use than it accepts ahead of the one it waits for; otherwise
\* it would take new packets for old ones.
OutstandingBound ==
    ~packet_queued =>
        Len(log) + Len(toadd) - Len(received) <= MAX_RELIABLE_WINDOW_SIZE

\* When a command runs out of numbers, giving back the ones it took finds each
\* to be the last one given out (FATAL_ERROR_IF in processReliableSendCommand).
PutBackSucceeds ==
    attempting # "no" =>
        \A k \in DOMAIN toadd :
            Shift(toadd[k].seqnum, Len(toadd) - k + 1) = next_outgoing_seqnum

\* An honest sender is never put down for "duplicated packet isn't same as
\* original one": no copy on the wire contradicts the receiver's buffer.
NoFalseCorruption ==
    \A p \in net : InLifetime(p) => ~IsDuplicateOfDifferentPacket(p)

\* The channel as the application sees it.
Delivery == INSTANCE FifoDelivery
                WITH Message   <- 1 .. NumCommands,
                     accepted  <- [k \in 1 .. submitted |-> k],
                     delivered <- delivered

\* The channel delivers the commands in order, once each, unmixed.
ImplementsFifo == Delivery!Spec

\* ... and each of them eventually.
DeliversEverything == Delivery!FairSpec
=============================================================================
