--------------------------- MODULE ClientSession ----------------------------
(***************************************************************************)
(* The sessions of a server: peers that log in under a name, join the      *)
(* game, are kicked or time out, and the players, stored data, accounts    *)
(* and mod channels that follow them.                                      *)
(*                                                                         *)
(* All of it runs in the server thread, a packet or an event at a time.    *)
(* What makes it hard is that any packet may come in any state, that       *)
(* several peers may log in under one name, and that a client, its player  *)
(* and its object are removed at three different times.                    *)
(***************************************************************************)
EXTENDS Integers, Sequences, FiniteSets, SequencesExt

CONSTANTS
    Peers,            \* ids that the connection gives, and gives again
    Names,            \* player names
    Bypass,           \* the admin, and names that mods let in when it is full
    Channels,         \* names of mod channels
    MaxUsers,         \* max_users
    DefaultPassword,  \* whether new names log in with default_password
    QuickRejoin,      \* whether a player may be back before the object is gone
    MaxPlays          \* bound: changes of player data

ASSUME ClientSessionAssumption ==
    /\ IsFiniteSet(Peers) /\ 0 \notin Peers
    /\ Bypass \subseteq Names
    /\ MaxUsers \in Nat /\ MaxPlays \in Nat
    /\ DefaultPassword \in BOOLEAN /\ QuickRejoin \in BOOLEAN

PEER_ID_INEXISTENT == 0
NoName == "no name"

VARIABLES
    m_clients,   \* per peer: its RemoteClient, or NoClient
    leaving,     \* peers that the connection was told to disconnect
    m_players,   \* the players of the environment, in the order they joined
    db,          \* per name: the change that the player database has, or 0
    accounts,    \* per name: how often its account was created
    channels,    \* m_registered_channels: the consumers of each
    registered,  \* the channels among them that exist
    plays,       \* history: changes of player data so far
    latest       \* history: per name, the last change of its player

vars == <<m_clients, leaving, m_players, db, accounts, channels, registered,
          plays, latest>>
chanVars == <<channels, registered>>
storeVars == <<m_players, db, plays, latest>>

Client(state, name, mech, chosen_mech, create_player) ==
    [state |-> state, name |-> name, mech |-> mech, chosen_mech |-> chosen_mech,
     create_player |-> create_player]

NoClient == Client("none", NoName, "NONE", "NONE", FALSE)
Created == Client("Created", NoName, "NONE", "NONE", FALSE)
Denied == Client("Denied", NoName, "NONE", "NONE", FALSE)

Init ==
    /\ m_clients = [p \in Peers |-> NoClient] /\ leaving = {}
    /\ m_players = << >> /\ db = [n \in Names |-> 0]
    /\ accounts = [n \in Names |-> 0]
    /\ channels = [c \in Channels |-> {}] /\ registered = {}
    /\ plays = 0 /\ latest = [n \in Names |-> 0]

-----------------------------------------------------------------------------
(* Client states                                                           *)

\* Where an event leads; everything else is a ClientStateError.
Transitions ==
    {<<"Created", "Hello", "HelloSent">>,
     <<"HelloSent", "AuthAccept", "AwaitingInit2">>,
     <<"AwaitingInit2", "GotInit2", "InitDone">>,
     <<"InitDone", "SetDefinitionsSent", "DefinitionsSent">>,
     <<"DefinitionsSent", "SetClientReady", "Active">>,
     <<"Active", "SudoSuccess", "SudoMode">>,
     <<"SudoMode", "SudoLeave", "Active">>}

\* Denied clients ignore events; SetDenied and Disconnect are in Deny and
\* PeerRemoved.
notifyEvent(state, event) ==
    IF state = "Denied" THEN state
    ELSE IF \E t \in Transitions : t[1] = state /\ t[2] = event
         THEN (CHOOSE t \in Transitions : t[1] = state /\ t[2] = event)[3]
         ELSE "ClientStateError"

InGame == {"Active", "SudoMode"}
HasDefinitions == {"InitDone", "DefinitionsSent"} \cup InGame
Lingering == {"Denied", "Created", "HelloSent", "AwaitingInit2"}

ActiveClients == {p \in Peers : m_clients[p].state \in InGame}

\* event() with the fields that the handler or the state change sets.
Event(p, event, client) ==
    m_clients' = [m_clients EXCEPT
        ![p] = [client EXCEPT !.state = notifyEvent(m_clients[p].state, event)]]

LeaveAllChannels(p) == [c \in Channels |-> channels[c] \ {p}]

\* DenyAccess.  What a denied client told the server is of no more use.
Deny(p) ==
    /\ m_clients' = [m_clients EXCEPT ![p] = Denied]
    /\ leaving' = leaving \cup {p}
    /\ channels' = LeaveAllChannels(p)
    /\ UNCHANGED registered

-----------------------------------------------------------------------------
(* Players                                                                 *)

Connected(i) == m_players[i].peer # PEER_ID_INEXISTENT

\* getPlayer(name): the first of that name, if it is connected.
PlayerNamed(name, match_invalid_peer) ==
    LET found == {i \in DOMAIN m_players : m_players[i].name = name} IN
    {i \in found : /\ \A j \in found : i <= j
                   /\ match_invalid_peer \/ Connected(i)}

PlayerOf(p) == {i \in DOMAIN m_players : m_players[i].peer = p}

\* isUserLimitReached and checkUserLimit
UserLimitReached(name) ==
    Cardinality(ActiveClients) >= MaxUsers /\ name \notin Bypass

\* The game changes a player: inventory, position, attributes.
Play(i) ==
    /\ Connected(i) /\ plays < MaxPlays
    /\ plays' = plays + 1
    /\ m_players' = [m_players EXCEPT ![i].data = plays', ![i].modified = TRUE]
    /\ latest' = [latest EXCEPT ![m_players[i].name] = plays']
    /\ UNCHANGED <<m_clients, leaving, db, accounts, chanVars>>

\* saveLoadedPlayers, every server_map_save_interval.
saveLoadedPlayers ==
    LET unsaved(n) == {i \in DOMAIN m_players : m_players[i].name = n /\ m_players[i].modified}
        last(S) == CHOOSE i \in S : \A j \in S : j <= i
    IN
    /\ db' = [n \in Names |-> IF unsaved(n) = {} THEN db[n]
                              ELSE m_players[last(unsaved(n))].data]
    /\ m_players' = [i \in DOMAIN m_players |-> [m_players[i] EXCEPT !.modified = FALSE]]
    /\ UNCHANGED <<m_clients, leaving, accounts, chanVars, plays, latest>>

\* Variant: players are only saved periodically.
savePlayer_Not(i) == db

savePlayer(i) == [db EXCEPT ![m_players[i].name] = m_players[i].data]

\* removeRemovedObjects, which waits until no client knows the object.
RemoveObject(i) ==
    /\ ~Connected(i)
    /\ db' = savePlayer(i)
    /\ m_players' = RemoveAt(m_players, i)
    /\ UNCHANGED <<m_clients, leaving, accounts, chanVars, plays, latest>>

-----------------------------------------------------------------------------
(* Events of the connection                                                *)

peerAdded(p) ==
    /\ m_clients[p] = NoClient
    /\ m_clients' = [m_clients EXCEPT ![p] = Created]
    /\ UNCHANGED <<leaving, storeVars, accounts, chanVars>>

\* The player outlives the client until its object is removed.
disconnected(p) ==
    [i \in DOMAIN m_players |->
        IF m_players[i].peer = p THEN [m_players[i] EXCEPT !.peer = PEER_ID_INEXISTENT]
        ELSE m_players[i]]

\* The peer has left, timed out or was disconnected.
deletingPeer(p) ==
    /\ m_clients[p] # NoClient
    /\ m_players' = disconnected(p)
    /\ m_clients' = [m_clients EXCEPT ![p] = NoClient]
    /\ leaving' = leaving \ {p}
    /\ UNCHANGED <<db, accounts, chanVars, plays, latest>>

-----------------------------------------------------------------------------
(* Packets of the login                                                    *)

\* Which way to log in the client is offered.
Offered(name) ==
    IF accounts[name] = 0 /\ ~DefaultPassword THEN "FIRST_SRP" ELSE "SRP"

\* TOSERVER_INIT.  "acceptable" stands for versions, the form of the name,
\* bans and mods.
handleInit(p, name, acceptable) ==
    /\ m_clients[p].state = "Created"
    /\ LET known == {i \in PlayerNamed(name, TRUE) : Connected(i)} IN
       IF acceptable /\ known = {} /\ ~UserLimitReached(name)
       THEN /\ Event(p, "Hello", Client("", name, Offered(name), "NONE",
                                        accounts[name] = 0 /\ DefaultPassword))
            /\ UNCHANGED <<leaving, chanVars>>
       ELSE Deny(p)
    /\ UNCHANGED <<storeVars, accounts>>

BeatenToIt(name) == accounts[name] > 0

\* TOSERVER_FIRST_SRP registers a new name, or ends sudo mode with a new
\* password; acceptable are passwords that may be empty or are not.
handleFirstSrp(p, acceptable) ==
    LET client == m_clients[p] IN
    \/ /\ client.state = "HelloSent"
       /\ IF acceptable /\ client.mech = "FIRST_SRP" /\ ~BeatenToIt(client.name)
          THEN /\ accounts' = [accounts EXCEPT ![client.name] = @ + 1]
               /\ m_clients' = [m_clients EXCEPT ![p].mech = "SRP"]
               /\ UNCHANGED <<leaving, chanVars>>
          ELSE Deny(p) /\ UNCHANGED accounts
       /\ UNCHANGED storeVars
    \/ /\ client.state = "SudoMode"
       /\ Event(p, "SudoLeave", client)
       /\ UNCHANGED <<leaving, storeVars, accounts, chanVars>>

\* TOSERVER_SRP_BYTES_A starts a login, or a login for sudo mode.
handleSrpBytesA(p, acceptable) ==
    LET client == m_clients[p] IN
    /\ client.state \in {"HelloSent", "Active"}
    /\ IF acceptable /\ client.chosen_mech = "NONE" /\ client.mech = "SRP"
       THEN /\ m_clients' = [m_clients EXCEPT ![p].chosen_mech = "SRP"]
            /\ UNCHANGED <<leaving, chanVars>>
       ELSE client.state = "HelloSent" /\ Deny(p)
    /\ UNCHANGED <<storeVars, accounts>>

\* TOSERVER_SRP_BYTES_M ends it.
handleSrpBytesM(p, answer) ==
    LET client == m_clients[p]
        done == [client EXCEPT !.chosen_mech = "NONE", !.create_player = FALSE]
    IN
    \/ /\ client.state = "HelloSent"
       /\ IF answer = "right" /\ client.chosen_mech = "SRP"
          THEN /\ Event(p, "AuthAccept", done)
               /\ accounts' = IF client.create_player
                              THEN [accounts EXCEPT ![client.name] = @ + 1] ELSE accounts
               /\ UNCHANGED <<leaving, chanVars>>
          ELSE Deny(p) /\ UNCHANGED accounts
       /\ UNCHANGED storeVars
    \/ /\ client.state = "Active" /\ client.chosen_mech = "SRP"
       /\ CASE answer = "right" -> Event(p, "SudoSuccess", done) /\ UNCHANGED <<leaving, chanVars>>
            [] answer = "wrong" -> /\ m_clients' = [m_clients EXCEPT ![p] = done]
                                   /\ UNCHANGED <<leaving, chanVars>>
            [] answer = "malformed" -> Deny(p)
       /\ UNCHANGED <<storeVars, accounts>>

\* TOSERVER_INIT2
handleInit2(p) ==
    LET sent == notifyEvent(notifyEvent(m_clients[p].state, "GotInit2"), "SetDefinitionsSent") IN
    /\ m_clients[p].state = "AwaitingInit2"
    /\ m_clients' = [m_clients EXCEPT ![p].state = sent]
    /\ UNCHANGED <<leaving, storeVars, accounts, chanVars>>

\* Variant: the limit is only looked at when the login starts.
IsFull_Early(name) == FALSE

IsFull(name) == UserLimitReached(name)

\* Variant: whether the name is in the game was seen when the login started.
MayEmerge_AsAtInit(p, name) == PlayerOf(p) = {}

\* emergePlayer
MayEmerge(p, name) == PlayerNamed(name, FALSE) = {} /\ PlayerOf(p) = {}

\* The object of the last session has been removed, or need not be.
ObjectRemoved(name) == QuickRejoin \/ \A i \in PlayerNamed(name, TRUE) : Connected(i)

\* TOSERVER_CLIENT_READY; a client in the game that sends it again is denied.
handleClientReady(p) ==
    LET client == m_clients[p]
        player == [name |-> client.name, peer |-> p, data |-> db[client.name],
                   modified |-> db[client.name] = 0]
    IN
    /\ client.state \in HasDefinitions /\ ObjectRemoved(client.name)
    /\ IF ~IsFull(client.name) /\ MayEmerge(p, client.name)
       THEN /\ m_players' = Append(m_players, player)
            /\ Event(p, "SetClientReady", client)
            /\ UNCHANGED <<leaving, chanVars>>
       ELSE Deny(p) /\ UNCHANGED m_players
    /\ UNCHANGED <<db, accounts, plays, latest>>

-----------------------------------------------------------------------------
(* In the game                                                             *)

\* A mod or the shutdown kicks a player.
Kick(p) ==
    /\ PlayerOf(p) # {} /\ Deny(p)
    /\ UNCHANGED <<storeVars, accounts>>

handleModChannelJoin(p, c) ==
    /\ m_clients[p].state \in InGame
    /\ registered' = registered \cup {c}
    /\ channels' = [channels EXCEPT ![c] = @ \cup {p}]
    /\ UNCHANGED <<m_clients, leaving, storeVars, accounts>>

\* A channel without consumers is removed.
handleModChannelLeave(p, c) ==
    /\ m_clients[p].state \in InGame /\ c \in registered
    /\ channels' = [channels EXCEPT ![c] = @ \ {p}]
    /\ registered' = IF channels'[c] = {} THEN registered \ {c} ELSE registered
    /\ UNCHANGED <<m_clients, leaving, storeVars, accounts>>

\* Variant: only clients that were denied count as lingering.
LingersIn_Denied(state) == state = "Denied"

LingersIn(state) == state \in Lingering

\* ClientInterface::step, for a client older than LINGER_TIMEOUT.
DisconnectLingering(p) ==
    /\ LingersIn(m_clients[p].state)
    /\ leaving' = leaving \cup {p}
    /\ UNCHANGED <<m_clients, storeVars, accounts, chanVars>>

-----------------------------------------------------------------------------

Packet(p) ==
    \/ \E n \in Names, ok \in BOOLEAN : handleInit(p, n, ok)
    \/ \E ok \in BOOLEAN :
        handleFirstSrp(p, ok) \/ handleSrpBytesA(p, ok)
    \/ \E answer \in {"right", "wrong", "malformed"} : handleSrpBytesM(p, answer)
    \/ handleInit2(p) \/ handleClientReady(p)
    \/ \E c \in Channels : handleModChannelJoin(p, c) \/ handleModChannelLeave(p, c)

Next ==
    \/ \E p \in Peers :
        \/ peerAdded(p) \/ deletingPeer(p) \/ Packet(p)
        \/ Kick(p) \/ DisconnectLingering(p)
    \/ \E i \in DOMAIN m_players : Play(i) \/ RemoveObject(i)
    \/ saveLoadedPlayers

Spec == Init /\ [][Next]_vars

\* The server looks for lingering clients every second, and the connection
\* disconnects whom it was told to (Peers, Leaves).
Fairness ==
    \A p \in Peers :
        /\ WF_vars(DisconnectLingering(p))
        /\ WF_vars(p \in leaving /\ deletingPeer(p))

FairSpec == Spec /\ Fairness

-----------------------------------------------------------------------------
(* Properties                                                              *)

States == {"none", "Denied", "Created", "HelloSent", "AwaitingInit2", "DefinitionsSent"}
              \cup InGame
Mechs == {"NONE", "FIRST_SRP", "SRP"}

RemoteClient ==
    [state : States, name : Names \cup {NoName}, mech : Mechs,
     chosen_mech : {"NONE", "SRP"}, create_player : BOOLEAN]
RemotePlayer ==
    [name : Names, peer : Peers \cup {PEER_ID_INEXISTENT}, data : Nat, modified : BOOLEAN]

\* Every variable has its type; no handler raises an event that the state of
\* its client does not expect (notifyEvent throws a ClientStateError).
TypeOK ==
    /\ m_clients \in [Peers -> RemoteClient] /\ leaving \subseteq Peers
    /\ \A p \in Peers : m_clients[p].state \notin {"none", "Denied", "Created"}
                            => m_clients[p].name \in Names
    /\ m_players \in Seq(RemotePlayer)
    /\ db \in [Names -> Nat] /\ latest \in [Names -> Nat] /\ plays \in Nat
    /\ accounts \in [Names -> Nat]
    /\ channels \in [Channels -> SUBSET Peers] /\ registered \subseteq Channels

\* "Name has to be unique", and non-zero peer ids too (addPlayer, which
\* compares with the first player of the name only).
PlayersUnique ==
    \A i, j \in DOMAIN m_players : i # j /\ Connected(i) /\ Connected(j) =>
        /\ m_players[i].name # m_players[j].name
        /\ m_players[i].peer # m_players[j].peer

\* Clients in the game are those with a connected player of their name; a
\* player of a denied client is there until the peer is gone, in no channel.
PlayersMatchClients ==
    /\ PlayersUnique
    /\ \A p \in Peers :
        LET client == m_clients[p] IN
        /\ client.state \in InGame =>
            \E i \in PlayerOf(p) : m_players[i].name = client.name
        /\ PlayerOf(p) # {} => client.state \in InGame \cup {"Denied"}
        /\ client.state = "Denied" => \A c \in Channels : p \notin channels[c]

\* "Since only active clients count for the user limit, two could race the
\* join process" (handleCommand_ClientReady): no more players are in the game
\* than max_users lets in, however many were logging in.
UserLimit ==
    Cardinality({p \in ActiveClients : m_clients[p].name \notin Bypass}) <= MaxUsers

\* Who plays has the data of the last session, what nobody plays is stored as
\* it was left, and nobody registers a name a second time.
DataKept ==
    /\ \A i \in DOMAIN m_players : m_players[i].data = latest[m_players[i].name]
    /\ \A n \in Names : (\A i \in DOMAIN m_players : m_players[i].name # n) => db[n] = latest[n]
    /\ \A n \in Names : accounts[n] <= 1

\* Clients that are denied or do not get through the login are gone in the end.
NobodyLingers ==
    \A p \in Peers : m_clients[p].state \in Lingering ~> m_clients[p].state \notin Lingering
=============================================================================
