---------------------------- MODULE EmergeQueue -----------------------------
(***************************************************************************)
(* The queue of map blocks to be emerged (loaded or generated): the shared *)
(* table of EmergeManager, the queue of each EmergeThread, the two mutexes *)
(* involved and the completion callbacks of core.emerge_area.  What a      *)
(* thread does with a block while no queue is involved is ServerMap.       *)
(*                                                                         *)
(* The actors are the emerge threads and the server thread, which requests *)
(* blocks with the environment lock held and, as ~Server, stops the emerge *)
(* threads.  An actor that holds a mutex and needs the other one waits in  *)
(* a state of its own, so that lock cycles can be seen.                    *)
(***************************************************************************)
EXTENDS Integers, Sequences, FiniteSets

CONSTANTS Positions,
          OverLimit,             \* those beyond blockpos_over_max_limit
          Peers, PEER_ID_INEXISTENT,
          NumThreads,
          m_qlimit_total, m_qlimit_diskonly, m_qlimit_generate,
          NumRequests,           \* bound: requests made
          MayFail,               \* block data may be invalid
          Reentrant              \* a callback may call core.emerge_area

Threads == 1 .. NumThreads
ServerThread == NumThreads + 1
Actors  == Threads \cup {ServerThread}
None    == 0

ASSUME EmergeAssumption ==
    /\ OverLimit \subseteq Positions
    /\ PEER_ID_INEXISTENT \notin Peers
    /\ NumThreads \in Nat \ {0} /\ NumRequests \in Nat
    /\ {m_qlimit_total, m_qlimit_diskonly, m_qlimit_generate} \subseteq Nat
    /\ MayFail \in BOOLEAN /\ Reentrant \in BOOLEAN

VARIABLES
    m_blocks_enqueued,     \* position -> BlockEmergeData, partial
    m_peer_queue_count,
    m_block_queue,         \* of each thread
    m_queue_mutex,         \* the thread that keeps it, or None
    m_env_mutex,           \* the actor that keeps it, or None
    asking,                \* of each actor: the request it is about to make
    signalling,            \* of each actor: the thread it has to signal yet
    m_queue_event,         \* of each thread: signalled
    m_request_stop,        \* of each thread
    pc,                    \* of each thread
    bedata,                \* of each thread: what it popped
    main_pc,
    m_threads_active,
    m_async_fatal_error,   \* set when a thread fails; the server stops then
    requests,              \* number of requests made
    \* history
    accepted,              \* callbacks the queue has taken
    called,                \* how often each callback was called
    wanted                 \* positions accepted with BLOCK_EMERGE_ALLOW_GEN
                           \* and not processed with it since

queueVars  == <<m_blocks_enqueued, m_peer_queue_count, m_block_queue>>
threadVars == <<m_queue_event, m_request_stop, pc, bedata>>
mainVars   == <<main_pc, m_threads_active, m_async_fatal_error>>
callVars   == <<asking, signalling, requests>>
history    == <<accepted, called, wanted>>
vars == <<queueVars, threadVars, mainVars, callVars, history,
          m_queue_mutex, m_env_mutex>>

Flags       == {"BLOCK_EMERGE_ALLOW_GEN", "BLOCK_EMERGE_FORCE_QUEUE"}
RequestIds  == 1 .. NumRequests
Requesters  == Peers \cup {PEER_ID_INEXISTENT}
BlockEmergeData ==
    [flags : SUBSET Flags, peer_requested : Requesters, callbacks : Seq(RequestIds)]
NoData == [flags |-> {}, peer_requested |-> PEER_ID_INEXISTENT, callbacks |-> << >>]

NoRequest == [id |-> 0]

Init ==
    /\ m_blocks_enqueued = [p \in {} |-> NoData]
    /\ m_peer_queue_count = [r \in Requesters |-> 0]
    /\ m_block_queue = [t \in Threads |-> << >>]
    /\ m_queue_mutex = None /\ m_env_mutex = None
    /\ asking = [a \in Actors |-> NoRequest]
    /\ signalling = [a \in Actors |-> None]
    /\ m_queue_event = [t \in Threads |-> FALSE]
    /\ m_request_stop = [t \in Threads |-> FALSE]
    /\ pc = [t \in Threads |-> "not started"]
    /\ bedata = [t \in Threads |-> NoData]
    /\ main_pc = "first step" /\ m_threads_active = FALSE
    /\ m_async_fatal_error = FALSE
    /\ requests = 0
    /\ accepted = {} /\ called = [c \in RequestIds |-> 0] /\ wanted = {}

-----------------------------------------------------------------------------
(* EmergeManager                                                           *)

\* The limits of pushBlockEmergeData.
Admitted(peer, flags) ==
    LET count == m_peer_queue_count[peer] IN
    "BLOCK_EMERGE_FORCE_QUEUE" \notin flags =>
        /\ Cardinality(DOMAIN m_blocks_enqueued) < m_qlimit_total
        /\ IF peer # PEER_ID_INEXISTENT
           THEN count < IF "BLOCK_EMERGE_ALLOW_GEN" \in flags
                        THEN m_qlimit_generate ELSE m_qlimit_diskonly
           ELSE count * 2 < m_qlimit_total

\* Variant: the flags of a later request are not added.
MergedData_FirstFlags(old, flags, callbacks) ==
    [old EXCEPT !.callbacks = @ \o callbacks]

\* Variant: only the first request brings its callback.
MergedData_FirstCallback(old, flags, callbacks) ==
    [old EXCEPT !.flags = @ \cup flags]

MergedData(old, flags, callbacks) ==
    [old EXCEPT !.flags = @ \cup flags, !.callbacks = @ \o callbacks]

\* The thread with the shortest queue, the first one of several.
getOptimalThread(queue) ==
    CHOOSE t \in Threads :
        \A u \in Threads : \/ Len(queue[t]) < Len(queue[u])
                           \/ Len(queue[t]) = Len(queue[u]) /\ t <= u

NewData(r) == [flags |-> r.flags, peer_requested |-> r.peer, callbacks |-> r.callbacks]

Joined(r) == [m_blocks_enqueued EXCEPT ![r.pos] = MergedData(@, r.flags, r.callbacks)]

Added(r) ==
    [p \in DOMAIN m_blocks_enqueued \cup {r.pos} |->
        IF p = r.pos THEN NewData(r) ELSE m_blocks_enqueued[p]]

Counted(r) == [m_peer_queue_count EXCEPT ![r.peer] = @ + 1]

\* Variant: the thread to signal is looked for again, after the push.
Push_SignalsOther(a, r) ==
    IF r.pos \in DOMAIN m_blocks_enqueued
    THEN /\ m_blocks_enqueued' = Joined(r)
         /\ UNCHANGED <<m_peer_queue_count, m_block_queue, signalling>>
    ELSE /\ m_blocks_enqueued' = Added(r)
         /\ m_peer_queue_count' = Counted(r)
         /\ m_block_queue' = [m_block_queue EXCEPT
                ![getOptimalThread(m_block_queue)] = Append(@, r.pos)]
         /\ signalling' = [signalling EXCEPT ![a] = getOptimalThread(m_block_queue')]

\* pushBlockEmergeData and what enqueueBlockEmergeEx does under the mutex.
Push(a, r) ==
    IF r.pos \in DOMAIN m_blocks_enqueued
    THEN /\ m_blocks_enqueued' = Joined(r)
         /\ UNCHANGED <<m_peer_queue_count, m_block_queue, signalling>>
    ELSE LET t == getOptimalThread(m_block_queue) IN
         /\ m_blocks_enqueued' = Added(r)
         /\ m_peer_queue_count' = Counted(r)
         /\ m_block_queue' = [m_block_queue EXCEPT ![t] = Append(@, r.pos)]
         /\ signalling' = [signalling EXCEPT ![a] = t]

\* An actor that keeps the environment lock decides on a request: a client's
\* block (RemoteClient::GetNextBlocks, with or without generation), a block of
\* the active area (ServerMap::getBlockOrEmerge), or core.emerge_area.
Request(peer, pos, flags, callbacks) ==
    [id |-> requests + 1, pos |-> pos, peer |-> peer, flags |-> flags,
     callbacks |-> callbacks]

Requested(pos) ==
    {Request(peer, pos, flags, << >>) :
        peer \in Requesters, flags \in SUBSET {"BLOCK_EMERGE_ALLOW_GEN"}}
    \cup {Request(PEER_ID_INEXISTENT, pos, Flags, <<requests + 1>>)}

Ask(a, r) ==
    /\ m_env_mutex = a /\ asking[a] = NoRequest /\ signalling[a] = None
    /\ requests < NumRequests
    /\ requests' = requests + 1
    /\ asking' = [asking EXCEPT ![a] = r]
    /\ UNCHANGED <<queueVars, threadVars, mainVars, signalling, history,
                   m_queue_mutex, m_env_mutex>>

\* enqueueBlockEmergeEx, up to the end of the critical section.
Enqueue(a) ==
    /\ asking[a] # NoRequest /\ m_queue_mutex = None
    /\ LET r == asking[a] IN
       IF Admitted(r.peer, r.flags)
       THEN /\ Push(a, r)
            /\ accepted' = accepted \cup {r.callbacks[i] : i \in DOMAIN r.callbacks}
            /\ wanted' = IF "BLOCK_EMERGE_ALLOW_GEN" \in r.flags
                         THEN wanted \cup {r.pos} ELSE wanted
       ELSE UNCHANGED <<queueVars, signalling, accepted, wanted>>
    /\ asking' = [asking EXCEPT ![a] = NoRequest]
    /\ UNCHANGED <<threadVars, mainVars, requests, called,
                   m_queue_mutex, m_env_mutex>>

\* ... and thread->signal() after it.
Signal(a) ==
    /\ signalling[a] # None
    /\ m_queue_event' = [m_queue_event EXCEPT ![signalling[a]] = TRUE]
    /\ signalling' = [signalling EXCEPT ![a] = None]
    /\ UNCHANGED <<queueVars, m_request_stop, pc, bedata, mainVars, asking,
                   requests, history, m_queue_mutex, m_env_mutex>>

\* Variant: nobody is counted down.
popBlockEmergeData_KeepCount(pos) ==
    /\ m_blocks_enqueued' =
           [p \in DOMAIN m_blocks_enqueued \ {pos} |-> m_blocks_enqueued[p]]
    /\ UNCHANGED m_peer_queue_count

popBlockEmergeData(pos) ==
    /\ m_blocks_enqueued' =
           [p \in DOMAIN m_blocks_enqueued \ {pos} |-> m_blocks_enqueued[p]]
    /\ m_peer_queue_count' =
           [m_peer_queue_count EXCEPT ![m_blocks_enqueued[pos].peer_requested] = @ - 1]

-----------------------------------------------------------------------------
(* EmergeThread::run                                                       *)

Go(t, where) == pc' = [pc EXCEPT ![t] = where]

\* A thread pops the first position of its queue and the data of it.
PopFront(t) ==
    /\ m_block_queue' = [m_block_queue EXCEPT ![t] = Tail(@)]
    /\ popBlockEmergeData(Head(m_block_queue[t]))

\* The head of the loop: a thread that is to stop leaves.
EnterLoop(t) ==
    /\ pc[t] = "loop" /\ ~m_request_stop[t]
    /\ Go(t, "pop")
    /\ UNCHANGED <<queueVars, m_queue_event, m_request_stop, bedata, mainVars,
                   callVars, history, m_queue_mutex, m_env_mutex>>

LeaveLoop(t) ==
    /\ pc[t] = "loop" /\ m_request_stop[t]
    /\ Go(t, "exit")
    /\ UNCHANGED <<queueVars, m_queue_event, m_request_stop, bedata, mainVars,
                   callVars, history, m_queue_mutex, m_env_mutex>>

\* popBlockEmerge; the data of a position beyond the limits is dropped.
PopBlock(t) ==
    /\ pc[t] = "pop" /\ m_queue_mutex = None
    /\ m_block_queue[t] # << >>
    /\ PopFront(t)
    /\ LET pos == Head(m_block_queue[t]) IN
       /\ IF pos \in OverLimit
          THEN Go(t, "loop") /\ UNCHANGED bedata
          ELSE Go(t, "work") /\ bedata' = [bedata EXCEPT ![t] = m_blocks_enqueued[pos]]
       /\ wanted' = IF "BLOCK_EMERGE_ALLOW_GEN" \in m_blocks_enqueued[pos].flags
                    THEN wanted \ {pos} ELSE wanted
    /\ UNCHANGED <<m_queue_event, m_request_stop, mainVars, callVars,
                   accepted, called, m_queue_mutex, m_env_mutex>>

\* Variant: the event is reset before the wait.
FindEmpty_Reset(t) ==
    /\ pc[t] = "pop" /\ m_queue_mutex = None
    /\ m_block_queue[t] = << >>
    /\ Go(t, "wait")
    /\ m_queue_event' = [m_queue_event EXCEPT ![t] = FALSE]
    /\ UNCHANGED <<queueVars, m_request_stop, bedata, mainVars,
                   callVars, history, m_queue_mutex, m_env_mutex>>

FindEmpty(t) ==
    /\ pc[t] = "pop" /\ m_queue_mutex = None
    /\ m_block_queue[t] = << >>
    /\ Go(t, "wait")
    /\ UNCHANGED <<queueVars, m_queue_event, m_request_stop, bedata, mainVars,
                   callVars, history, m_queue_mutex, m_env_mutex>>

\* Event::wait
WakeUp(t) ==
    /\ pc[t] = "wait" /\ m_queue_event[t]
    /\ m_queue_event' = [m_queue_event EXCEPT ![t] = FALSE]
    /\ Go(t, "loop")
    /\ UNCHANGED <<queueVars, m_request_stop, bedata, mainVars, callVars,
                   history, m_queue_mutex, m_env_mutex>>

\* The block is loaded or generated, which takes the environment lock in
\* between (ServerMap).
Emerge(t) ==
    /\ pc[t] = "work" /\ m_env_mutex = None
    /\ Go(t, "callbacks")
    /\ UNCHANGED <<queueVars, m_queue_event, m_request_stop, bedata, mainVars,
                   callVars, history, m_queue_mutex, m_env_mutex>>

\* ... or a SerializationError or VersionMismatchException ends the loop.
EmergeThrows(t) ==
    /\ MayFail /\ pc[t] = "work" /\ m_env_mutex = None
    /\ m_async_fatal_error' = TRUE
    /\ Go(t, "exit")
    /\ bedata' = [bedata EXCEPT ![t] = NoData]
    /\ UNCHANGED <<queueVars, m_queue_event, m_request_stop, main_pc,
                   m_threads_active, callVars, history, m_queue_mutex, m_env_mutex>>

\* runCompletionCallbacks calls LuaEmergeAreaCallback, which takes the lock.
CallBack(t) ==
    /\ pc[t] = "callbacks" /\ m_env_mutex = None
    /\ bedata[t].callbacks # << >>
    /\ called' = [called EXCEPT ![Head(bedata[t].callbacks)] = @ + 1]
    /\ bedata' = [bedata EXCEPT ![t].callbacks = Tail(@)]
    /\ m_env_mutex' = t
    /\ Go(t, "in callback")
    /\ UNCHANGED <<queueVars, m_queue_event, m_request_stop, mainVars,
                   callVars, accepted, wanted, m_queue_mutex>>

AskFromCallback(t) ==
    /\ Reentrant /\ pc[t] = "in callback"
    /\ \E pos \in Positions :
           Ask(t, Request(PEER_ID_INEXISTENT, pos, Flags, <<requests + 1>>))

ReturnFromCallback(t) ==
    /\ pc[t] = "in callback"
    /\ asking[t] = NoRequest /\ signalling[t] = None
    /\ m_env_mutex' = None
    /\ Go(t, "callbacks")
    /\ UNCHANGED <<queueVars, m_queue_event, m_request_stop, bedata, mainVars,
                   callVars, history, m_queue_mutex>>

\* All callbacks are called: on with the loop that called for them.
EndCallbacks(t) ==
    /\ pc[t] = "callbacks" /\ bedata[t].callbacks = << >>
    /\ Go(t, IF m_queue_mutex = t THEN "cancel" ELSE "loop")
    /\ bedata' = [bedata EXCEPT ![t] = NoData]
    /\ UNCHANGED <<queueVars, m_queue_event, m_request_stop, mainVars,
                   callVars, history, m_queue_mutex, m_env_mutex>>

\* cancelPendingItems keeps the queue mutex until the queue is empty, through
\* the callbacks.
BeginCancel(t) ==
    /\ pc[t] = "exit" /\ m_queue_mutex = None
    /\ m_queue_mutex' = t
    /\ Go(t, "cancel")
    /\ UNCHANGED <<queueVars, m_queue_event, m_request_stop, bedata, mainVars,
                   callVars, history, m_env_mutex>>

CancelNext(t) ==
    /\ pc[t] = "cancel" /\ m_block_queue[t] # << >>
    /\ PopFront(t)
    /\ bedata' = [bedata EXCEPT ![t] = m_blocks_enqueued[Head(m_block_queue[t])]]
    /\ wanted' = wanted \ {Head(m_block_queue[t])}
    /\ Go(t, "callbacks")
    /\ UNCHANGED <<m_queue_event, m_request_stop, mainVars, callVars,
                   accepted, called, m_queue_mutex, m_env_mutex>>

EndCancel(t) ==
    /\ pc[t] = "cancel" /\ m_block_queue[t] = << >>
    /\ m_queue_mutex' = None
    /\ Go(t, "stopped")
    /\ UNCHANGED <<queueVars, m_queue_event, m_request_stop, bedata, mainVars,
                   callVars, history, m_env_mutex>>

Thread(t) ==
    \/ EnterLoop(t) \/ LeaveLoop(t) \/ PopBlock(t) \/ FindEmpty(t) \/ WakeUp(t)
    \/ Emerge(t) \/ EmergeThrows(t)
    \/ CallBack(t) \/ AskFromCallback(t) \/ ReturnFromCallback(t)
    \/ EndCallbacks(t) \/ BeginCancel(t) \/ CancelNext(t) \/ EndCancel(t)
    \/ Enqueue(t) \/ Signal(t)

-----------------------------------------------------------------------------
(* The server thread, and ~Server once the thread has ended                *)

\* Variant: the emerge threads are stopped before the server thread.
LockEnvironment_WhileStopping ==
    /\ m_env_mutex = None /\ requests < NumRequests
    /\ m_env_mutex' = ServerThread
    /\ UNCHANGED <<queueVars, threadVars, mainVars, callVars, history,
                   m_queue_mutex>>

\* startThreads, in the first step of the server, which may make requests
\* before.
StartThreads ==
    /\ main_pc = "first step" /\ m_env_mutex # ServerThread
    /\ main_pc' = "running" /\ m_threads_active' = TRUE
    /\ pc' = [t \in Threads |-> "loop"]
    /\ UNCHANGED <<m_async_fatal_error, queueVars, m_queue_event, m_request_stop, bedata, callVars,
                   history, m_queue_mutex, m_env_mutex>>

\* Requests stop with the server thread, until the shutdown hooks of ~Server.
LockEnvironment ==
    /\ main_pc \in {"first step", "running", "stopped"} /\ m_env_mutex = None
    /\ requests < NumRequests
    /\ m_env_mutex' = ServerThread
    /\ UNCHANGED <<queueVars, threadVars, mainVars, callVars, history,
                   m_queue_mutex>>

AskFromStep == \E pos \in Positions : \E r \in Requested(pos) : Ask(ServerThread, r)

UnlockEnvironment ==
    /\ m_env_mutex = ServerThread
    /\ asking[ServerThread] = NoRequest /\ signalling[ServerThread] = None
    /\ m_env_mutex' = None
    /\ UNCHANGED <<queueVars, threadVars, mainVars, callVars, history,
                   m_queue_mutex>>

\* stopThreads: first every thread is asked to stop, each before it is
\* signalled.
StopThread(t) ==
    /\ main_pc \in {"running", "stopping"} /\ m_env_mutex # ServerThread
    /\ signalling[ServerThread] = None
    /\ t = Cardinality({u \in Threads : m_request_stop[u]}) + 1
    /\ main_pc' = "stopping"
    /\ m_request_stop' = [m_request_stop EXCEPT ![t] = TRUE]
    /\ signalling' = [signalling EXCEPT ![ServerThread] = t]
    /\ UNCHANGED <<m_async_fatal_error, queueVars, m_queue_event, pc, bedata, m_threads_active,
                   asking, requests, history, m_queue_mutex, m_env_mutex>>

\* ... then each is waited for.
JoinThreads ==
    /\ main_pc = "stopping" /\ signalling[ServerThread] = None
    /\ \A t \in Threads : m_request_stop[t] /\ pc[t] = "stopped"
    /\ main_pc' = "stopped" /\ m_threads_active' = FALSE
    /\ UNCHANGED <<m_async_fatal_error, queueVars, threadVars, callVars, history,
                   m_queue_mutex, m_env_mutex>>

Main ==
    \/ StartThreads \/ LockEnvironment \/ AskFromStep \/ UnlockEnvironment
    \/ Enqueue(ServerThread) \/ Signal(ServerThread)
    \/ (\E t \in Threads : StopThread(t)) \/ JoinThreads

\* The end of ~Server, as far as the emerge threads are concerned.
Terminated ==
    /\ main_pc = "stopped" /\ m_env_mutex = None
    /\ UNCHANGED vars

Next == Main \/ (\E t \in Threads : Thread(t)) \/ Terminated

Spec == Init /\ [][Next]_vars

-----------------------------------------------------------------------------
(* Fairness: every thread runs, and a mutex that is free again and again   *)
(* is taken in the end, also under contention.  Nobody has to make a       *)
(* request, to fail or to stop the server.                                 *)

ThreadRuns(t) ==
    \/ EnterLoop(t) \/ LeaveLoop(t) \/ PopBlock(t) \/ FindEmpty(t) \/ WakeUp(t)
    \/ Emerge(t)
    \/ CallBack(t) \/ ReturnFromCallback(t) \/ EndCallbacks(t)
    \/ BeginCancel(t) \/ CancelNext(t) \/ EndCancel(t)
    \/ Enqueue(t) \/ Signal(t)

ServerRuns ==
    \/ StartThreads \/ UnlockEnvironment \/ Enqueue(ServerThread) \/ Signal(ServerThread)
    \/ main_pc = "stopping" /\ (\E t \in Threads : StopThread(t))
    \/ JoinThreads

Fairness == SF_vars(ServerRuns) /\ \A t \in Threads : SF_vars(ThreadRuns(t))

FairSpec == Spec /\ Fairness

-----------------------------------------------------------------------------
(* Correctness                                                             *)

TypeOK ==
    /\ DOMAIN m_blocks_enqueued \subseteq Positions
    /\ \A p \in DOMAIN m_blocks_enqueued : m_blocks_enqueued[p] \in BlockEmergeData
    /\ m_peer_queue_count \in [Requesters -> Nat]
    /\ m_block_queue \in [Threads -> Seq(Positions)]
    /\ m_queue_mutex \in Threads \cup {None}
    /\ m_env_mutex \in Actors \cup {None}
    /\ signalling \in [Actors -> Threads \cup {None}]
    /\ m_queue_event \in [Threads -> BOOLEAN]
    /\ m_request_stop \in [Threads -> BOOLEAN]
    /\ bedata \in [Threads -> BlockEmergeData]
    /\ requests \in 0 .. NumRequests
    /\ accepted \subseteq RequestIds /\ called \in [RequestIds -> Nat]
    /\ wanted \subseteq Positions

EntriesOf(peer) ==
    {p \in DOMAIN m_blocks_enqueued : m_blocks_enqueued[p].peer_requested = peer}

Places(p) == {at \in Threads \X (1 .. NumRequests) :
                 /\ at[2] <= Len(m_block_queue[at[1]])
                 /\ m_block_queue[at[1]][at[2]] = p}

\* Every entry is counted for the peer that asked for it first, whoever joins
\* the request later and however it ends, so that the limits of a peer mean
\* what they say (m_peer_queue_count; popBlockEmergeData's assert), and a
\* position has an entry exactly as long as it is in the queue of exactly one
\* thread, so that a thread that pops a position always finds its data (the
\* result of popBlockEmergeData is ignored and bedata would stay unset).
CountsMatch ==
    /\ \A peer \in Requesters :
        m_peer_queue_count[peer] = Cardinality(EntriesOf(peer))
    /\ \A p \in Positions :
        Cardinality(Places(p)) = IF p \in DOMAIN m_blocks_enqueued THEN 1 ELSE 0

CallbacksIn(data) == {data.callbacks[i] : i \in DOMAIN data.callbacks}

\* "this will be called for each block emerged", and cancelled blocks are
\* reported as well (docs/lua_api.md on core.emerge_area): a callback that was
\* accepted waits in one entry or is with one thread, or has been called once,
\* unless invalid data ended a thread, which also stops the server.
\* LuaEmergeAreaCallback counts its calls down and deletes the state they share
\* at the last one, so that neither a call too few nor one too many will do.
EachCallbackOnce ==
    ~m_async_fatal_error => \A c \in accepted :
        called[c]
        + Cardinality({p \in DOMAIN m_blocks_enqueued :
                          c \in CallbacksIn(m_blocks_enqueued[p])})
        + Cardinality({t \in Threads : c \in CallbacksIn(bedata[t])}) = 1

\* A request that allows generation is not served by one that does not, even
\* if it joins its entry (the flags are added up in pushBlockEmergeData).
GenerationHonoured ==
    \A p \in wanted :
        /\ p \in DOMAIN m_blocks_enqueued
        /\ "BLOCK_EMERGE_ALLOW_GEN" \in m_blocks_enqueued[p].flags

\* Nobody waits for the environment lock with the queue mutex in hand while the
\* one who has the environment lock waits for the queue mutex.
NoLockCycle ==
    (/\ m_queue_mutex # None /\ m_env_mutex # None
     /\ asking[m_env_mutex] # NoRequest)
    => bedata[m_queue_mutex].callbacks = << >> /\ m_env_mutex # m_queue_mutex

\* Every callback accepted while the threads run is called in the end: no
\* signal is lost between a queue found empty and the wait for it.
EveryCallbackCalled ==
    \A c \in RequestIds :
        (c \in accepted /\ m_threads_active) ~> called[c] > 0

\* "Stop all emerge activity and finish off mapgen callbacks" (~Server):
\* stopThreads comes to an end, no thread sleeps through the request to stop,
\* and no callback is left to call then.
StopsInTheEnd ==
    main_pc = "stopping" ~>
        main_pc = "stopped" /\ \A c \in accepted : called[c] > 0
=============================================================================
