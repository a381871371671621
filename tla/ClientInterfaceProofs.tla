----------------------- MODULE ClientInterfaceProofs -----------------------
(***************************************************************************)
(* Theorems about ClientSession: no handler raises an event that the state *)
(* of its client does not expect, the clients in the game are those with a *)
(* player, and the user limit holds, for any number of peers, names and    *)
(* mod channels.  What a player has is kept until it is back.              *)
(*                                                                         *)
(* Theorems about BlockTransfer: each slot for sending is in use, no more  *)
(* blocks are sent at a time than there are slots, and, without the three  *)
(* races, what counts as sent is what the client shows, for any number of  *)
(* blocks, slots and changes.                                              *)
(***************************************************************************)
EXTENDS ClientSession, BlockTransfer, FiniteSetTheorems, SequenceTheorems,
        WellFoundedInduction, TLAPS

\* The events that the handlers raise, in the states in which they do.
LEMMA Expected ==
    /\ notifyEvent("Created", "Hello") = "HelloSent"
    /\ notifyEvent("HelloSent", "AuthAccept") = "AwaitingInit2"
    /\ notifyEvent("AwaitingInit2", "GotInit2") = "InitDone"
    /\ notifyEvent("InitDone", "SetDefinitionsSent") = "DefinitionsSent"
    /\ notifyEvent("DefinitionsSent", "SetClientReady") = "Active"
    /\ notifyEvent("Active", "SudoSuccess") = "SudoMode"
    /\ notifyEvent("SudoMode", "SudoLeave") = "Active"
<1> DEFINE Leads(s, e, u) == <<s, e, u>> \in Transitions
                             /\ \A t \in Transitions : t[1] = s /\ t[2] = e => t = <<s, e, u>>
<1>1. ASSUME NEW s, NEW e, NEW u, Leads(s, e, u), s # "Denied"
      PROVE  notifyEvent(s, e) = u
  <2>1. <<s, e, u>>[1] = s /\ <<s, e, u>>[2] = e /\ <<s, e, u>>[3] = u
    OBVIOUS
  <2> DEFINE c == CHOOSE t \in Transitions : t[1] = s /\ t[2] = e
  <2>2. c \in Transitions /\ c[1] = s /\ c[2] = e
    BY <1>1, <2>1
  <2>3. c = <<s, e, u>>
    BY <1>1, <2>2
  <2> QED BY <1>1, <2>1, <2>2, <2>3 DEF notifyEvent
<1>2. Leads("Created", "Hello", "HelloSent")
  BY DEF Transitions
<1>3. Leads("HelloSent", "AuthAccept", "AwaitingInit2")
  BY DEF Transitions
<1>4. Leads("AwaitingInit2", "GotInit2", "InitDone")
  BY DEF Transitions
<1>5. Leads("InitDone", "SetDefinitionsSent", "DefinitionsSent")
  BY DEF Transitions
<1>6. Leads("DefinitionsSent", "SetClientReady", "Active")
  BY DEF Transitions
<1>7. Leads("Active", "SudoSuccess", "SudoMode")
  BY DEF Transitions
<1>8. Leads("SudoMode", "SudoLeave", "Active")
  BY DEF Transitions
<1> HIDE DEF Leads
<1> QED BY <1>1, <1>2, <1>3, <1>4, <1>5, <1>6, <1>7, <1>8

LEMMA LeastNumber ==
    ASSUME NEW T \in SUBSET Nat, T # {}
    PROVE  \E m \in T : \A k \in T : m <= k
<1>1. PICK m \in T : \A k \in T : ~(<<k, m>> \in OpToRel(<, Nat))
  BY NatLessThanWellFounded, WFMin
<1>2. ASSUME NEW k \in T PROVE m <= k
  <2>1. ~(k < m)
    BY <1>1 DEF OpToRel
  <2> QED BY <2>1
<1> QED BY <1>2

LEMMA RemoveAtProperties ==
    ASSUME NEW S, NEW s \in Seq(S), NEW i \in DOMAIN s
    PROVE  /\ RemoveAt(s, i) \in Seq(S)
           /\ Len(RemoveAt(s, i)) = Len(s) - 1
           /\ \A k \in 1 .. Len(s) - 1 :
                RemoveAt(s, i)[k] = s[IF k < i THEN k ELSE k + 1]
<1> DEFINE a == SubSeq(s, 1, i - 1)
           b == SubSeq(s, i + 1, Len(s))
<1>1. i \in 1 .. Len(s) /\ Len(s) \in Nat /\ \A k \in 1 .. Len(s) : s[k] \in S
  OBVIOUS
<1>2. /\ a \in Seq(S) /\ Len(a) = i - 1
      /\ \A k \in 1 .. i - 1 : a[k] = s[k]
  <2>1. \A k \in 1 .. i - 1 : s[k] \in S
    BY <1>1
  <2>2. /\ a \in Seq(S) /\ Len(a) = IF 1 <= i - 1 THEN i - 1 - 1 + 1 ELSE 0
        /\ \A k \in 1 .. i - 1 - 1 + 1 : a[k] = s[1 + k - 1]
    BY <1>1, <2>1, SubSeqProperties
  <2> HIDE DEF a
  <2> QED BY <1>1, <2>2
<1>3. /\ b \in Seq(S) /\ Len(b) = Len(s) - i
      /\ \A k \in 1 .. Len(s) - i : b[k] = s[i + k]
  <2>1. \A k \in i + 1 .. Len(s) : s[k] \in S
    BY <1>1
  <2>2. /\ b \in Seq(S) /\ Len(b) = IF i + 1 <= Len(s) THEN Len(s) - (i + 1) + 1 ELSE 0
        /\ \A k \in 1 .. Len(s) - (i + 1) + 1 : b[k] = s[(i + 1) + k - 1]
    BY <1>1, <2>1, SubSeqProperties
  <2> HIDE DEF b
  <2> QED BY <1>1, <2>2
<1> HIDE DEF a, b
<1>4. /\ a \o b \in Seq(S) /\ Len(a \o b) = Len(a) + Len(b)
      /\ \A k \in 1 .. Len(a) + Len(b) :
            (a \o b)[k] = IF k <= Len(a) THEN a[k] ELSE b[k - Len(a)]
  BY <1>2, <1>3, ConcatProperties
<1>5. RemoveAt(s, i) = a \o b
  BY DEF RemoveAt, a, b
<1>6. Len(a) + Len(b) = Len(s) - 1
  BY <1>1, <1>2, <1>3
<1>7. ASSUME NEW k \in 1 .. Len(s) - 1
      PROVE  (a \o b)[k] = s[IF k < i THEN k ELSE k + 1]
  <2>1. CASE k < i
    BY <1>1, <1>2, <1>4, <1>6, <2>1
  <2>2. CASE ~(k < i)
    <3>1. k - Len(a) \in 1 .. Len(s) - i /\ i + (k - Len(a)) = k + 1 /\ ~(k <= Len(a))
      BY <1>1, <1>2, <2>2
    <3>2. (a \o b)[k] = b[k - Len(a)]
      BY <1>4, <1>6, <3>1
    <3> QED BY <1>3, <2>2, <3>1, <3>2
  <2> QED BY <2>1, <2>2
<1> QED BY <1>4, <1>5, <1>6, <1>7

-----------------------------------------------------------------------------
(* Types                                                                   *)

\* A client in the game has a player of its name, so that CLIENT_READY is
\* refused when it comes again.
HasPlayer ==
    \A p \in Peers : m_clients[p].state \in InGame =>
        \E i \in PlayerOf(p) : m_players[i].name = m_clients[p].name

LEMMA DenyTypes ==
    ASSUME TypeOK, NEW p \in Peers, Deny(p)
    PROVE  /\ m_clients' \in [Peers -> RemoteClient] /\ leaving' \subseteq Peers
           /\ \A q \in Peers : m_clients'[q].state \notin {"none", "Denied", "Created"}
                                  => m_clients'[q].name \in Names
           /\ channels' \in [Channels -> SUBSET Peers] /\ registered' \subseteq Channels
<1>1. Denied \in RemoteClient /\ Denied.state = "Denied"
  BY DEF Denied, Client, RemoteClient, States, Mechs
<1> QED BY <1>1 DEF TypeOK, Deny, LeaveAllChannels

\* A step that changes one client and nothing else of it.
LEMMA ClientTypes ==
    ASSUME TypeOK, NEW p \in Peers, NEW c \in RemoteClient,
           c.state \in {"none", "Denied", "Created"} \/ c.name \in Names,
           m_clients' = [m_clients EXCEPT ![p] = c]
    PROVE  /\ m_clients' \in [Peers -> RemoteClient]
           /\ \A q \in Peers : m_clients'[q].state \notin {"none", "Denied", "Created"}
                                  => m_clients'[q].name \in Names
BY DEF TypeOK

LEMMA InitTypes ==
    ASSUME TypeOK, NEW p \in Peers, NEW n \in Names, NEW ok \in BOOLEAN, handleInit(p, n, ok)
    PROVE  TypeOK'
<1> USE DEF handleInit
<1> DEFINE c == [Client("", n, Offered(n), "NONE", accounts[n] = 0 /\ DefaultPassword)
                    EXCEPT !.state = "HelloSent"]
<1>1. CASE Deny(p)
  BY <1>1, DenyTypes DEF TypeOK, storeVars
<1>2. CASE Event(p, "Hello", Client("", n, Offered(n), "NONE",
                                   accounts[n] = 0 /\ DefaultPassword))
           /\ UNCHANGED <<leaving, chanVars>>
  <2>1. m_clients' = [m_clients EXCEPT ![p] = c]
    BY <1>2, Expected DEF Event
  <2>2. c \in RemoteClient /\ c.name = n
    BY DEF Client, RemoteClient, States, Mechs, Offered, InGame
  <2> QED BY <1>2, <2>1, <2>2, ClientTypes DEF TypeOK, storeVars, chanVars
<1> QED BY <1>1, <1>2

LEMMA FirstSrpTypes ==
    ASSUME TypeOK, NEW p \in Peers, NEW ok \in BOOLEAN, handleFirstSrp(p, ok)
    PROVE  TypeOK'
<1>0. m_clients[p] \in RemoteClient
  BY DEF TypeOK
<1>1. CASE Deny(p) /\ UNCHANGED storeVars /\ UNCHANGED accounts
  BY <1>1, DenyTypes DEF TypeOK, storeVars
<1>2. CASE /\ m_clients[p].state = "HelloSent"
           /\ accounts' = [accounts EXCEPT ![m_clients[p].name] = @ + 1]
           /\ m_clients' = [m_clients EXCEPT ![p].mech = "SRP"]
           /\ UNCHANGED <<leaving, chanVars, storeVars>>
  <2> DEFINE c == [m_clients[p] EXCEPT !.mech = "SRP"]
  <2>1. m_clients' = [m_clients EXCEPT ![p] = c]
    BY <1>2
  <2>2. c \in RemoteClient /\ c.name \in Names
    BY <1>0, <1>2 DEF TypeOK, RemoteClient, Mechs
  <2>3. accounts' \in [Names -> Nat]
    <3>1. m_clients[p].name \in Names /\ accounts \in [Names -> Nat]
      BY <1>2 DEF TypeOK
    <3> QED BY <1>2, <3>1
  <2> QED BY <1>2, <2>1, <2>2, <2>3, ClientTypes DEF TypeOK, storeVars, chanVars
<1>3. CASE /\ m_clients[p].state = "SudoMode"
           /\ Event(p, "SudoLeave", m_clients[p])
           /\ UNCHANGED <<leaving, storeVars, accounts, chanVars>>
  <2> DEFINE c == [m_clients[p] EXCEPT !.state = "Active"]
  <2>1. m_clients' = [m_clients EXCEPT ![p] = c]
    BY <1>3, Expected DEF Event
  <2>2. c \in RemoteClient /\ c.name \in Names
    BY <1>0, <1>3 DEF TypeOK, RemoteClient, States, InGame
  <2> QED BY <1>3, <2>1, <2>2, ClientTypes DEF TypeOK, storeVars, chanVars
<1> QED BY <1>1, <1>2, <1>3 DEF handleFirstSrp

LEMMA SrpBytesATypes ==
    ASSUME TypeOK, NEW p \in Peers, NEW ok \in BOOLEAN, handleSrpBytesA(p, ok)
    PROVE  TypeOK'
<1>0. m_clients[p] \in RemoteClient
  BY DEF TypeOK
<1>1. CASE Deny(p)
  BY <1>1, DenyTypes DEF TypeOK, storeVars, handleSrpBytesA
<1>2. CASE /\ m_clients[p].state \in {"HelloSent", "Active"}
           /\ m_clients' = [m_clients EXCEPT ![p].chosen_mech = "SRP"]
           /\ UNCHANGED <<leaving, chanVars>>
  <2> DEFINE c == [m_clients[p] EXCEPT !.chosen_mech = "SRP"]
  <2>1. m_clients' = [m_clients EXCEPT ![p] = c]
    BY <1>2
  <2>2. c \in RemoteClient /\ c.name \in Names
    BY <1>0, <1>2 DEF TypeOK, RemoteClient
  <2> QED BY <1>2, <2>1, <2>2, ClientTypes DEF TypeOK, storeVars, chanVars, handleSrpBytesA
<1> QED BY <1>1, <1>2 DEF handleSrpBytesA

LEMMA SrpBytesMTypes ==
    ASSUME TypeOK, NEW p \in Peers, NEW answer \in {"right", "wrong", "malformed"},
           handleSrpBytesM(p, answer)
    PROVE  TypeOK'
<1> DEFINE done == [m_clients[p] EXCEPT !.chosen_mech = "NONE", !.create_player = FALSE]
<1>0. m_clients[p] \in RemoteClient
  BY DEF TypeOK
<1>1. CASE Deny(p) /\ UNCHANGED <<storeVars, accounts>>
  BY <1>1, DenyTypes DEF TypeOK, storeVars
<1>2. CASE /\ m_clients[p].state = "HelloSent"
           /\ Event(p, "AuthAccept", done)
           /\ accounts' = IF m_clients[p].create_player
                          THEN [accounts EXCEPT ![m_clients[p].name] = @ + 1] ELSE accounts
           /\ UNCHANGED <<leaving, chanVars, storeVars>>
  <2> DEFINE c == [done EXCEPT !.state = "AwaitingInit2"]
  <2>1. m_clients' = [m_clients EXCEPT ![p] = c]
    BY <1>2, Expected DEF Event
  <2>2. c \in RemoteClient /\ c.name \in Names
    BY <1>0, <1>2 DEF TypeOK, RemoteClient, States
  <2>3. accounts' \in [Names -> Nat]
    <3>1. m_clients[p].name \in Names /\ accounts \in [Names -> Nat]
      BY <1>2 DEF TypeOK
    <3> QED BY <1>2, <3>1
  <2> QED BY <1>2, <2>1, <2>2, <2>3, ClientTypes DEF TypeOK, storeVars, chanVars
<1>3. CASE /\ m_clients[p].state = "Active"
           /\ Event(p, "SudoSuccess", done)
           /\ UNCHANGED <<leaving, chanVars, storeVars, accounts>>
  <2> DEFINE c == [done EXCEPT !.state = "SudoMode"]
  <2>1. m_clients' = [m_clients EXCEPT ![p] = c]
    BY <1>3, Expected DEF Event
  <2>2. c \in RemoteClient /\ c.name \in Names
    BY <1>0, <1>3 DEF TypeOK, RemoteClient, States, InGame
  <2> QED BY <1>3, <2>1, <2>2, ClientTypes DEF TypeOK, storeVars, chanVars
<1>4. CASE /\ m_clients[p].state = "Active"
           /\ m_clients' = [m_clients EXCEPT ![p] = done]
           /\ UNCHANGED <<leaving, chanVars, storeVars, accounts>>
  <2>2. done \in RemoteClient /\ done.name \in Names
    BY <1>0, <1>4 DEF TypeOK, RemoteClient, States, InGame
  <2> QED BY <1>4, <2>2, ClientTypes DEF TypeOK, storeVars, chanVars
<1> QED BY <1>1, <1>2, <1>3, <1>4 DEF handleSrpBytesM

LEMMA Init2Types ==
    ASSUME TypeOK, NEW p \in Peers, handleInit2(p)
    PROVE  TypeOK'
<1> DEFINE c == [m_clients[p] EXCEPT !.state = "DefinitionsSent"]
<1>1. m_clients' = [m_clients EXCEPT ![p] = c]
  BY Expected DEF handleInit2
<1>2. c \in RemoteClient /\ c.name \in Names
  BY ZenonT(30) DEF TypeOK, RemoteClient, States, handleInit2
<1> QED BY <1>1, <1>2, ClientTypes DEF TypeOK, storeVars, chanVars, handleInit2

LEMMA ClientReadyTypes ==
    ASSUME TypeOK, HasPlayer, NEW p \in Peers, handleClientReady(p)
    PROVE  TypeOK'
<1> DEFINE name == m_clients[p].name
           player == [name |-> name, peer |-> p, data |-> db[name], modified |-> db[name] = 0]
<1>0. m_clients[p] \in RemoteClient
  BY DEF TypeOK
<1>1. CASE Deny(p) /\ UNCHANGED m_players
  BY <1>1, DenyTypes DEF TypeOK, handleClientReady
<1>2. CASE /\ MayEmerge(p, name)
           /\ m_players' = Append(m_players, player)
           /\ Event(p, "SetClientReady", m_clients[p])
           /\ UNCHANGED <<leaving, chanVars>>
  <2> DEFINE c == [m_clients[p] EXCEPT !.state = "Active"]
  <2>1. m_clients[p].state = "DefinitionsSent"
    BY <1>0, <1>2 DEF handleClientReady, HasDefinitions, RemoteClient, States, MayEmerge,
                      HasPlayer, InGame
  <2>2. m_clients' = [m_clients EXCEPT ![p] = c]
    BY <1>2, <2>1, Expected DEF Event
  <2>3. name \in Names
    BY <2>1 DEF TypeOK
  <2>4. c \in RemoteClient /\ c.name \in Names
    BY <1>0, <2>3 DEF RemoteClient, States, InGame
  <2>5. player \in RemotePlayer
    BY <2>3 DEF TypeOK, RemotePlayer
  <2>6. m_players' \in Seq(RemotePlayer)
    BY <1>2, <2>5, AppendProperties DEF TypeOK
  <2> QED BY <1>2, <2>2, <2>4, <2>6, ClientTypes DEF TypeOK, chanVars, handleClientReady
<1> QED BY <1>1, <1>2 DEF handleClientReady

LEMMA TypeStep == ASSUME TypeOK, HasPlayer, [Next]_vars PROVE TypeOK'
<1>1. ASSUME NEW p \in Peers, peerAdded(p)
      PROVE  TypeOK'
  <2>1. Created \in RemoteClient /\ Created.state = "Created"
    BY DEF Created, Client, RemoteClient, States, Mechs
  <2> QED BY <1>1, <2>1, ClientTypes DEF TypeOK, peerAdded, storeVars, chanVars
<1>2. ASSUME NEW p \in Peers, deletingPeer(p)
      PROVE  TypeOK'
  <2>1. NoClient \in RemoteClient /\ NoClient.state = "none"
    BY DEF NoClient, Client, RemoteClient, States, Mechs
  <2>2. m_players' \in Seq(RemotePlayer)
    <3>1. \A i \in DOMAIN m_players : m_players[i] \in RemotePlayer
      BY DEF TypeOK
    <3>2. \A i \in DOMAIN m_players :
              [m_players[i] EXCEPT !.peer = PEER_ID_INEXISTENT] \in RemotePlayer
      BY <3>1 DEF RemotePlayer
    <3>3. DOMAIN m_players = 1 .. Len(m_players) /\ Len(m_players) \in Nat
      BY DEF TypeOK
    <3>4. m_players' \in [1 .. Len(m_players) -> RemotePlayer]
      BY <1>2, <3>1, <3>2, <3>3 DEF deletingPeer, disconnected
    <3> QED BY <3>3, <3>4
  <2> QED BY <1>2, <2>1, <2>2, ClientTypes DEF TypeOK, deletingPeer, chanVars
<1>3. ASSUME NEW p \in Peers, Packet(p)
      PROVE  TypeOK'
  <2>1. ASSUME NEW c \in Channels, handleModChannelJoin(p, c) \/ handleModChannelLeave(p, c)
        PROVE  TypeOK'
    <3>1. channels' \in [Channels -> SUBSET Peers] /\ registered' \subseteq Channels
      <4>1. channels[c] \cup {p} \subseteq Peers /\ channels[c] \ {p} \subseteq Peers
        BY DEF TypeOK
      <4>2. CASE handleModChannelJoin(p, c)
        BY <4>1, <4>2 DEF TypeOK, handleModChannelJoin
      <4>3. CASE handleModChannelLeave(p, c)
        BY <4>1, <4>3 DEF TypeOK, handleModChannelLeave
      <4> QED BY <2>1, <4>2, <4>3
    <3>2. UNCHANGED <<m_clients, leaving, storeVars, accounts>>
      BY <2>1 DEF handleModChannelJoin, handleModChannelLeave
    <3> QED BY <3>1, <3>2 DEF TypeOK, storeVars
  <2> QED BY <1>3, <2>1, InitTypes, FirstSrpTypes, SrpBytesATypes, SrpBytesMTypes, Init2Types,
             ClientReadyTypes DEF Packet
<1>4. ASSUME NEW p \in Peers, Kick(p)
      PROVE  TypeOK'
  BY <1>4, DenyTypes DEF TypeOK, Kick, storeVars
<1>5. ASSUME NEW p \in Peers, DisconnectLingering(p)
      PROVE  TypeOK'
  BY <1>5 DEF TypeOK, DisconnectLingering, storeVars, chanVars
<1>6. ASSUME NEW i \in DOMAIN m_players, Play(i)
      PROVE  TypeOK'
  <2>1. m_players[i] \in RemotePlayer /\ plays' \in Nat
    BY <1>6 DEF TypeOK, Play
  <2>2. [m_players[i] EXCEPT !.data = plays', !.modified = TRUE] \in RemotePlayer
    BY <2>1 DEF RemotePlayer
  <2>3. m_players' = [m_players EXCEPT ![i] = [m_players[i] EXCEPT !.data = plays', !.modified = TRUE]]
    BY <1>6 DEF Play
  <2>4. m_players' \in Seq(RemotePlayer)
    BY <2>2, <2>3 DEF TypeOK
  <2>5. latest' \in [Names -> Nat]
    BY <1>6, <2>1 DEF TypeOK, Play
  <2> QED BY <1>6, <2>1, <2>4, <2>5 DEF TypeOK, Play, chanVars
<1>7. ASSUME NEW i \in DOMAIN m_players, RemoveObject(i)
      PROVE  TypeOK'
  <2>1. m_players' \in Seq(RemotePlayer)
    BY <1>7, RemoveAtProperties DEF TypeOK, RemoveObject
  <2>2. m_players[i] \in RemotePlayer
    BY DEF TypeOK
  <2>3. db' \in [Names -> Nat]
    BY <1>7, <2>2 DEF TypeOK, RemoveObject, savePlayer, RemotePlayer
  <2> QED BY <1>7, <2>1, <2>3 DEF TypeOK, RemoveObject, chanVars
<1>8. ASSUME saveLoadedPlayers
      PROVE  TypeOK'
  <2>1. \A i \in DOMAIN m_players : m_players[i] \in RemotePlayer
    BY DEF TypeOK
  <2>2. DOMAIN m_players = 1 .. Len(m_players) /\ Len(m_players) \in Nat
    BY DEF TypeOK
  <2>3. m_players' \in Seq(RemotePlayer)
    <3>1. \A i \in DOMAIN m_players : [m_players[i] EXCEPT !.modified = FALSE] \in RemotePlayer
      BY <2>1 DEF RemotePlayer
    <3>2. m_players' \in [1 .. Len(m_players) -> RemotePlayer]
      BY <1>8, <2>2, <3>1 DEF saveLoadedPlayers
    <3> QED BY <2>2, <3>2
  <2>4. db' \in [Names -> Nat]
    <3> DEFINE unsaved(n) == {i \in DOMAIN m_players : m_players[i].name = n /\ m_players[i].modified}
    <3>1. ASSUME NEW n \in Names, unsaved(n) # {}
          PROVE  \E i \in unsaved(n) : \A j \in unsaved(n) : j <= i
      <4> DEFINE back == {Len(m_players) - i : i \in unsaved(n)}
      <4>1. unsaved(n) \subseteq 1 .. Len(m_players)
        BY <2>2
      <4>2. back \in SUBSET Nat /\ back # {}
        BY <2>2, <3>1, <4>1
      <4>3. PICK least \in back : \A k \in back : least <= k
        BY <4>2, LeastNumber
      <4>4. PICK i \in unsaved(n) : least = Len(m_players) - i
        BY <4>3
      <4>5. \A j \in unsaved(n) : Len(m_players) - i <= Len(m_players) - j
        BY <4>3, <4>4
      <4> QED BY <2>2, <4>1, <4>4, <4>5
    <3>2. ASSUME NEW n \in Names
          PROVE  (IF unsaved(n) = {} THEN db[n]
                  ELSE m_players[CHOOSE i \in unsaved(n) : \A j \in unsaved(n) : j <= i].data) \in Nat
      <4>1. CASE unsaved(n) = {}
        BY <4>1 DEF TypeOK
      <4>2. CASE unsaved(n) # {}
        <5> DEFINE i == CHOOSE i \in unsaved(n) : \A j \in unsaved(n) : j <= i
        <5>1. i \in unsaved(n)
          BY <3>1, <4>2
        <5>2. m_players[i].data \in Nat
          BY <2>1, <5>1 DEF RemotePlayer
        <5> QED BY <4>2, <5>2
      <4> QED BY <4>1, <4>2
    <3>3. db' = [n \in Names |-> IF unsaved(n) = {} THEN db[n]
                  ELSE m_players[CHOOSE i \in unsaved(n) : \A j \in unsaved(n) : j <= i].data]
      BY <1>8 DEF saveLoadedPlayers
    <3> HIDE DEF unsaved
    <3> QED BY <3>2, <3>3
  <2> QED BY <1>8, <2>3, <2>4 DEF TypeOK, saveLoadedPlayers, chanVars
<1>9. CASE UNCHANGED vars
  BY <1>9 DEF TypeOK, vars
<1> QED BY <1>1, <1>2, <1>3, <1>4, <1>5, <1>6, <1>7, <1>8, <1>9 DEF Next

-----------------------------------------------------------------------------
(* Clients and players                                                     *)

ClientOfPlayer ==
    \A p \in Peers : PlayerOf(p) # {} => m_clients[p].state \in InGame \cup {"Denied"}

PeersOnce ==
    \A i, j \in DOMAIN m_players :
        i # j /\ Connected(i) => m_players[i].peer # m_players[j].peer

DeniedLeft ==
    \A p \in Peers : m_clients[p].state = "Denied" => \A c \in Channels : p \notin channels[c]

\* While an object that waits for its removal keeps its name.
NamesOnce ==
    \A i, j \in DOMAIN m_players : i # j => m_players[i].name # m_players[j].name

IInv == TypeOK /\ HasPlayer /\ ClientOfPlayer /\ PeersOnce /\ DeniedLeft

\* What most steps do: clients stay in the game or out of it, players keep
\* their names and peers.
KeepsClients ==
    \A p \in Peers :
        /\ m_clients'[p].state \in InGame =>
            m_clients[p].state \in InGame /\ m_clients'[p].name = m_clients[p].name
        /\ m_clients[p].state \in InGame \cup {"Denied"} =>
            m_clients'[p].state \in InGame \cup {"Denied"}

KeepsPlayers ==
    /\ DOMAIN m_players' = DOMAIN m_players
    /\ \A i \in DOMAIN m_players : /\ m_players'[i].name = m_players[i].name
                                   /\ m_players'[i].peer = m_players[i].peer

LEMMA Keeping ==
    ASSUME HasPlayer, ClientOfPlayer, PeersOnce, KeepsClients, KeepsPlayers
    PROVE  HasPlayer' /\ ClientOfPlayer' /\ PeersOnce' /\ (NamesOnce => NamesOnce')
BY DEF HasPlayer, ClientOfPlayer, PeersOnce, NamesOnce, KeepsClients, KeepsPlayers, PlayerOf, Connected

LEMMA DenyKeeps ==
    ASSUME TypeOK, NEW p \in Peers, Deny(p), DeniedLeft,
           m_clients[p].state # "none"
    PROVE  KeepsClients /\ DeniedLeft'
<1>1. Denied.state = "Denied" /\ "Denied" \notin InGame
  BY DEF Denied, Client, InGame
<1> QED BY <1>1 DEF TypeOK, Deny, KeepsClients, DeniedLeft, LeaveAllChannels

\* The steps that neither add nor remove a client or a player.
OtherStep ==
    \/ \E p \in Peers :
        \/ peerAdded(p) \/ Kick(p) \/ DisconnectLingering(p)
        \/ \E n \in Names, ok \in BOOLEAN : handleInit(p, n, ok)
        \/ \E ok \in BOOLEAN : handleFirstSrp(p, ok) \/ handleSrpBytesA(p, ok)
        \/ \E answer \in {"right", "wrong", "malformed"} : handleSrpBytesM(p, answer)
        \/ handleInit2(p)
        \/ \E c \in Channels : handleModChannelJoin(p, c) \/ handleModChannelLeave(p, c)
    \/ \E i \in DOMAIN m_players : Play(i)
    \/ saveLoadedPlayers
    \/ UNCHANGED vars

LEMMA OtherSteps ==
    ASSUME IInv, OtherStep
    PROVE  KeepsClients /\ KeepsPlayers /\ DeniedLeft'
<1> USE DEF IInv
<1>0. /\ \A p \in Peers : m_clients[p] \in RemoteClient
      /\ m_clients \in [Peers -> RemoteClient] /\ channels \in [Channels -> SUBSET Peers]
  BY DEF TypeOK
<1>1. ASSUME NEW p \in Peers, peerAdded(p)
      PROVE  KeepsClients /\ KeepsPlayers /\ DeniedLeft'
  BY <1>0, <1>1 DEF peerAdded, KeepsClients, KeepsPlayers, DeniedLeft, NoClient, Created, Client,
                    InGame, storeVars, chanVars
<1>2. ASSUME NEW p \in Peers, Kick(p)
      PROVE  KeepsClients /\ KeepsPlayers /\ DeniedLeft'
  <2>1. m_clients[p].state # "none"
    BY <1>2 DEF Kick, ClientOfPlayer, InGame
  <2> QED BY <1>2, <2>1, DenyKeeps DEF Kick, KeepsPlayers, storeVars
<1>3. ASSUME NEW p \in Peers, DisconnectLingering(p)
      PROVE  KeepsClients /\ KeepsPlayers /\ DeniedLeft'
  BY <1>3 DEF DisconnectLingering, KeepsClients, KeepsPlayers, DeniedLeft, storeVars, chanVars
<1>4. ASSUME NEW p \in Peers, NEW n \in Names, NEW ok \in BOOLEAN, handleInit(p, n, ok)
      PROVE  KeepsClients /\ KeepsPlayers /\ DeniedLeft'
  <2>1. KeepsPlayers
    BY <1>4 DEF handleInit, KeepsPlayers, storeVars
  <2>2. CASE Deny(p)
    BY <1>4, <2>1, <2>2, DenyKeeps DEF handleInit
  <2>3. CASE /\ Event(p, "Hello", Client("", n, Offered(n), "NONE",
                                         accounts[n] = 0 /\ DefaultPassword))
             /\ UNCHANGED <<leaving, chanVars>>
    <3>1. m_clients[p].state = "Created"
      BY <1>4 DEF handleInit
    <3>2. m_clients'[p].state = "HelloSent" /\ \A q \in Peers \ {p} : m_clients'[q] = m_clients[q]
      BY <1>0, <2>3, <3>1, Expected DEF Event, Client
    <3> QED BY <2>1, <2>3, <3>1, <3>2 DEF KeepsClients, DeniedLeft, InGame, chanVars
  <2> QED BY <1>4, <2>2, <2>3 DEF handleInit
<1>5. ASSUME NEW p \in Peers, NEW ok \in BOOLEAN, handleFirstSrp(p, ok)
      PROVE  KeepsClients /\ KeepsPlayers /\ DeniedLeft'
  <2>1. KeepsPlayers
    BY <1>5 DEF handleFirstSrp, KeepsPlayers, storeVars
  <2>2. CASE Deny(p) /\ m_clients[p].state = "HelloSent"
    BY <2>1, <2>2, DenyKeeps
  <2>3. CASE /\ m_clients' = [m_clients EXCEPT ![p].mech = "SRP"]
             /\ UNCHANGED <<leaving, chanVars>>
    <3>1. /\ m_clients'[p].state = m_clients[p].state /\ m_clients'[p].name = m_clients[p].name
          /\ \A q \in Peers \ {p} : m_clients'[q] = m_clients[q]
      BY <1>0, <2>3 DEF RemoteClient
    <3> QED BY <2>1, <2>3, <3>1 DEF KeepsClients, DeniedLeft, chanVars
  <2>4. CASE /\ m_clients[p].state = "SudoMode" /\ Event(p, "SudoLeave", m_clients[p])
             /\ UNCHANGED <<leaving, storeVars, accounts, chanVars>>
    <3>1. /\ m_clients'[p].state = "Active" /\ m_clients'[p].name = m_clients[p].name
          /\ \A q \in Peers \ {p} : m_clients'[q] = m_clients[q]
      BY <1>0, <2>4, Expected DEF Event, RemoteClient
    <3> QED BY <2>1, <2>4, <3>1 DEF KeepsClients, DeniedLeft, chanVars, InGame
  <2> QED BY <1>5, <2>2, <2>3, <2>4 DEF handleFirstSrp
<1>6. ASSUME NEW p \in Peers, NEW ok \in BOOLEAN, handleSrpBytesA(p, ok)
      PROVE  KeepsClients /\ KeepsPlayers /\ DeniedLeft'
  <2>1. KeepsPlayers
    BY <1>6 DEF handleSrpBytesA, KeepsPlayers, storeVars
  <2>2. CASE Deny(p) /\ m_clients[p].state = "HelloSent"
    BY <2>1, <2>2, DenyKeeps
  <2>3. CASE /\ m_clients' = [m_clients EXCEPT ![p].chosen_mech = "SRP"]
             /\ UNCHANGED <<leaving, chanVars>>
    <3>1. /\ m_clients'[p].state = m_clients[p].state /\ m_clients'[p].name = m_clients[p].name
          /\ \A q \in Peers \ {p} : m_clients'[q] = m_clients[q]
      BY <1>0, <2>3 DEF RemoteClient
    <3> QED BY <2>1, <2>3, <3>1 DEF KeepsClients, DeniedLeft, chanVars
  <2> QED BY <1>6, <2>2, <2>3 DEF handleSrpBytesA
<1>7. ASSUME NEW p \in Peers, NEW answer \in {"right", "wrong", "malformed"},
             handleSrpBytesM(p, answer)
      PROVE  KeepsClients /\ KeepsPlayers /\ DeniedLeft'
  <2> DEFINE done == [m_clients[p] EXCEPT !.chosen_mech = "NONE", !.create_player = FALSE]
  <2>1. KeepsPlayers
    BY <1>7 DEF handleSrpBytesM, KeepsPlayers, storeVars
  <2>2. CASE Deny(p) /\ m_clients[p].state \in {"HelloSent", "Active"}
    BY <2>1, <2>2, DenyKeeps
  <2>3. CASE /\ m_clients[p].state = "HelloSent" /\ Event(p, "AuthAccept", done)
             /\ UNCHANGED <<leaving, chanVars>>
    <3>1. /\ m_clients'[p].state = "AwaitingInit2"
          /\ \A q \in Peers \ {p} : m_clients'[q] = m_clients[q]
      BY <1>0, <2>3, Expected DEF Event, RemoteClient
    <3> QED BY <2>1, <2>3, <3>1 DEF KeepsClients, DeniedLeft, chanVars, InGame
  <2>4. CASE /\ m_clients[p].state = "Active" /\ Event(p, "SudoSuccess", done)
             /\ UNCHANGED <<leaving, chanVars>>
    <3>1. /\ m_clients'[p].state = "SudoMode" /\ m_clients'[p].name = m_clients[p].name
          /\ \A q \in Peers \ {p} : m_clients'[q] = m_clients[q]
      BY <1>0, <2>4, Expected DEF Event, RemoteClient
    <3> QED BY <2>1, <2>4, <3>1 DEF KeepsClients, DeniedLeft, chanVars, InGame
  <2>5. CASE /\ m_clients' = [m_clients EXCEPT ![p] = done]
             /\ UNCHANGED <<leaving, chanVars>>
    <3>1. /\ m_clients'[p].state = m_clients[p].state /\ m_clients'[p].name = m_clients[p].name
          /\ \A q \in Peers \ {p} : m_clients'[q] = m_clients[q]
      BY <1>0, <2>5 DEF RemoteClient
    <3> QED BY <2>1, <2>5, <3>1 DEF KeepsClients, DeniedLeft, chanVars
  <2> QED BY <1>7, <2>2, <2>3, <2>4, <2>5 DEF handleSrpBytesM
<1>8. ASSUME NEW p \in Peers, handleInit2(p)
      PROVE  KeepsClients /\ KeepsPlayers /\ DeniedLeft'
  <2>1. /\ m_clients[p].state = "AwaitingInit2" /\ m_clients'[p].state = "DefinitionsSent"
        /\ \A q \in Peers \ {p} : m_clients'[q] = m_clients[q]
    BY <1>0, <1>8, Expected DEF handleInit2, RemoteClient
  <2> QED BY <1>8, <2>1 DEF handleInit2, KeepsClients, KeepsPlayers, DeniedLeft, chanVars, InGame,
                            storeVars
<1>9. ASSUME NEW p \in Peers, NEW c \in Channels,
             handleModChannelJoin(p, c) \/ handleModChannelLeave(p, c)
      PROVE  KeepsClients /\ KeepsPlayers /\ DeniedLeft'
  <2>1. KeepsClients /\ KeepsPlayers
    BY <1>9 DEF handleModChannelJoin, handleModChannelLeave, KeepsClients, KeepsPlayers, storeVars
  <2>2. m_clients[p].state # "Denied" /\ m_clients' = m_clients
    BY <1>9 DEF handleModChannelJoin, handleModChannelLeave, InGame
  <2>3. \A d \in Channels : channels'[d] \subseteq channels[d] \cup {p}
    BY <1>0, <1>9 DEF handleModChannelJoin, handleModChannelLeave
  <2> QED BY <2>1, <2>2, <2>3 DEF DeniedLeft
<1>10. ASSUME NEW i \in DOMAIN m_players, Play(i)
       PROVE  KeepsClients /\ KeepsPlayers /\ DeniedLeft'
  <2>1. \A j \in DOMAIN m_players : m_players[j] \in RemotePlayer
    BY DEF TypeOK
  <2>2. KeepsPlayers
    BY <1>10, <2>1 DEF Play, KeepsPlayers, RemotePlayer
  <2> QED BY <1>10, <2>2 DEF Play, KeepsClients, DeniedLeft, chanVars
<1>11. ASSUME saveLoadedPlayers
       PROVE  KeepsClients /\ KeepsPlayers /\ DeniedLeft'
  <2>1. \A j \in DOMAIN m_players : m_players[j] \in RemotePlayer
    BY DEF TypeOK
  <2>2. KeepsPlayers
    BY <1>11, <2>1 DEF saveLoadedPlayers, KeepsPlayers, RemotePlayer
  <2> QED BY <1>11, <2>2 DEF saveLoadedPlayers, KeepsClients, DeniedLeft, chanVars
<1>12. CASE UNCHANGED vars
  BY <1>12 DEF vars, KeepsClients, KeepsPlayers, DeniedLeft
<1> QED BY <1>1, <1>2, <1>3, <1>4, <1>5, <1>6, <1>7, <1>8, <1>9, <1>10, <1>11, <1>12 DEF OtherStep

LEMMA Removal ==
    ASSUME IInv, NEW i \in DOMAIN m_players, RemoveObject(i)
    PROVE  /\ HasPlayer' /\ ClientOfPlayer' /\ PeersOnce' /\ DeniedLeft'
           /\ NamesOnce => NamesOnce'
<1> USE DEF IInv
<1> DEFINE at(k) == IF k < i THEN k ELSE k + 1
<1>0. m_players \in Seq(RemotePlayer) /\ i \in 1 .. Len(m_players) /\ Len(m_players) \in Nat
  BY DEF TypeOK
<1>1. /\ m_players' \in Seq(RemotePlayer) /\ Len(m_players') = Len(m_players) - 1
      /\ \A k \in 1 .. Len(m_players) - 1 : m_players'[k] = m_players[at(k)]
  BY <1>0, RemoveAtProperties DEF RemoveObject
<1>2. DOMAIN m_players' = 1 .. Len(m_players) - 1
  BY <1>0, <1>1
<1>3. \A k \in DOMAIN m_players' : at(k) \in DOMAIN m_players /\ m_players'[k] = m_players[at(k)]
  BY <1>0, <1>1, <1>2
<1>4. \A k, l \in DOMAIN m_players' : k # l => at(k) # at(l)
  BY <1>0, <1>2
<1>5. \A j \in DOMAIN m_players : j # i => \E k \in DOMAIN m_players' : at(k) = j
  <2> TAKE j \in DOMAIN m_players
  <2>1. CASE j < i
    BY <1>0, <1>2, <2>1
  <2>2. CASE j > i
    <3>1. j - 1 \in DOMAIN m_players' /\ at(j - 1) = j
      BY <1>0, <1>2, <2>2
    <3> QED BY <3>1
  <2> QED BY <1>0, <2>1, <2>2
<1>6. ~Connected(i) /\ m_clients' = m_clients /\ channels' = channels
  BY DEF RemoveObject, chanVars
<1> HIDE DEF at
<1>7. HasPlayer'
  <2> SUFFICES ASSUME NEW p \in Peers, m_clients[p].state \in InGame
               PROVE  \E k \in PlayerOf(p)' : m_players'[k].name = m_clients[p].name
    BY <1>6 DEF HasPlayer
  <2>1. PICK j \in PlayerOf(p) : m_players[j].name = m_clients[p].name
    BY DEF HasPlayer
  <2>2. j # i
    BY <1>6, <2>1, ClientSessionAssumption DEF PlayerOf, Connected, PEER_ID_INEXISTENT
  <2>3. PICK k \in DOMAIN m_players' : at(k) = j
    BY <1>5, <2>1, <2>2 DEF PlayerOf
  <2> QED BY <1>3, <2>1, <2>3 DEF PlayerOf
<1>8. ClientOfPlayer'
  BY <1>3, <1>6 DEF ClientOfPlayer, PlayerOf
<1>9. PeersOnce' /\ (NamesOnce => NamesOnce')
  BY <1>3, <1>4 DEF PeersOnce, NamesOnce, Connected
<1>10. DeniedLeft'
  BY <1>6 DEF DeniedLeft
<1> QED BY <1>7, <1>8, <1>9, <1>10

LEMMA Deletion ==
    ASSUME IInv, NEW p \in Peers, deletingPeer(p)
    PROVE  /\ HasPlayer' /\ ClientOfPlayer' /\ PeersOnce' /\ DeniedLeft'
           /\ NamesOnce => NamesOnce'
<1> USE DEF IInv
<1>1. /\ DOMAIN m_players' = DOMAIN m_players
      /\ \A i \in DOMAIN m_players :
            /\ m_players'[i].name = m_players[i].name
            /\ m_players'[i].peer = IF m_players[i].peer = p THEN PEER_ID_INEXISTENT
                                    ELSE m_players[i].peer
  <2>1. \A i \in DOMAIN m_players : m_players[i] \in RemotePlayer
    BY DEF TypeOK
  <2> QED BY <2>1 DEF deletingPeer, disconnected, RemotePlayer
<1>2. m_clients'[p].state = "none" /\ \A q \in Peers \ {p} : m_clients'[q] = m_clients[q]
  BY DEF deletingPeer, TypeOK, NoClient, Client
<1>3. p # PEER_ID_INEXISTENT
  BY ClientSessionAssumption DEF PEER_ID_INEXISTENT
<1>4. \A q \in Peers \ {p} : PlayerOf(q)' = PlayerOf(q)
  BY <1>1, ClientSessionAssumption DEF PlayerOf, PEER_ID_INEXISTENT
<1>5. PlayerOf(p)' = {}
  BY <1>1, <1>3 DEF PlayerOf
<1>6. HasPlayer'
  BY <1>1, <1>2, <1>4 DEF HasPlayer, InGame, PlayerOf
<1>7. ClientOfPlayer'
  BY <1>2, <1>4, <1>5 DEF ClientOfPlayer
<1>8. PeersOnce' /\ (NamesOnce => NamesOnce')
  BY <1>1 DEF PeersOnce, NamesOnce, Connected, PEER_ID_INEXISTENT
<1>9. DeniedLeft'
  BY <1>2 DEF DeniedLeft, deletingPeer, chanVars
<1> QED BY <1>6, <1>7, <1>8, <1>9

\* getPlayer(name, true) finds a player whenever there is one of the name.
LEMMA NamedIsFound ==
    ASSUME TypeOK, NEW i \in DOMAIN m_players
    PROVE  PlayerNamed(m_players[i].name, TRUE) # {}
<1> DEFINE found == {j \in DOMAIN m_players : m_players[j].name = m_players[i].name}
<1>1. found \in SUBSET Nat /\ found # {}
  BY DEF TypeOK
<1>2. PICK j \in found : \A k \in found : j <= k
  BY <1>1, LeastNumber
<1>3. j \in PlayerNamed(m_players[i].name, TRUE)
  BY <1>2 DEF PlayerNamed
<1> QED BY <1>3

LEMMA Joining ==
    ASSUME IInv, NEW p \in Peers, handleClientReady(p)
    PROVE  /\ HasPlayer' /\ ClientOfPlayer' /\ PeersOnce' /\ DeniedLeft'
           /\ ~QuickRejoin /\ NamesOnce => NamesOnce'
<1> USE DEF IInv
<1> DEFINE name == m_clients[p].name
           player == [name |-> name, peer |-> p, data |-> db[name], modified |-> db[name] = 0]
           n == Len(m_players)
<1>0. /\ m_players \in Seq(RemotePlayer) /\ n \in Nat /\ DOMAIN m_players = 1 .. n
      /\ m_clients[p] \in RemoteClient /\ m_clients[p].state \in HasDefinitions
      /\ m_clients \in [Peers -> RemoteClient]
  BY DEF TypeOK, handleClientReady
<1>1. CASE Deny(p) /\ UNCHANGED m_players
  <2>1. KeepsClients /\ DeniedLeft'
    BY <1>0, <1>1, DenyKeeps DEF HasDefinitions, InGame
  <2>2. KeepsPlayers
    BY <1>1 DEF KeepsPlayers
  <2> QED BY <2>1, <2>2, Keeping
<1>2. CASE /\ MayEmerge(p, name)
           /\ m_players' = Append(m_players, player)
           /\ Event(p, "SetClientReady", m_clients[p])
           /\ UNCHANGED <<leaving, chanVars>>
  <2>1. m_clients[p].state = "DefinitionsSent"
    BY <1>0, <1>2 DEF HasDefinitions, RemoteClient, States, MayEmerge, HasPlayer, InGame
  <2>2. /\ m_clients'[p].state = "Active" /\ m_clients'[p].name = name
        /\ \A q \in Peers \ {p} : m_clients'[q] = m_clients[q]
    BY <1>0, <1>2, <2>1, Expected DEF Event, RemoteClient
  <2>3. /\ DOMAIN m_players' = 1 .. n + 1
        /\ \A i \in 1 .. n : m_players'[i] = m_players[i]
        /\ m_players'[n + 1].name = name /\ m_players'[n + 1].peer = p
    BY <1>0, <1>2
  <2>4. \A i \in 1 .. n : m_players[i].peer # p
    BY <1>0, <1>2 DEF MayEmerge, PlayerOf
  <2>5. p # PEER_ID_INEXISTENT
    BY ClientSessionAssumption DEF PEER_ID_INEXISTENT
  <2>6. HasPlayer'
    <3> SUFFICES ASSUME NEW q \in Peers, m_clients'[q].state \in InGame
                 PROVE  \E i \in PlayerOf(q)' : m_players'[i].name = m_clients'[q].name
      BY DEF HasPlayer
    <3>1. CASE q = p
      BY <1>0, <2>2, <2>3, <3>1 DEF PlayerOf
    <3>2. CASE q # p
      BY <1>0, <2>2, <2>3, <3>2 DEF PlayerOf, HasPlayer
    <3> QED BY <3>1, <3>2
  <2>7. ClientOfPlayer'
    BY <1>0, <2>2, <2>3 DEF ClientOfPlayer, PlayerOf, InGame
  <2>8. PeersOnce'
    BY <1>0, <2>3, <2>4, <2>5 DEF PeersOnce, Connected
  <2>9. DeniedLeft'
    BY <1>2, <2>2 DEF DeniedLeft, chanVars
  <2>10. ASSUME ~QuickRejoin, NamesOnce
         PROVE  NamesOnce'
    <3>1. \A i \in 1 .. n : m_players[i].name # name
      <4> SUFFICES ASSUME NEW i \in 1 .. n, m_players[i].name = name
                   PROVE  FALSE
        OBVIOUS
      <4>1. PICK j \in PlayerNamed(name, TRUE) : TRUE
        BY <1>0, NamedIsFound
      <4>2. Connected(j)
        BY <2>10, <4>1 DEF handleClientReady, ObjectRemoved
      <4>3. j \in PlayerNamed(name, FALSE)
        BY <4>1, <4>2 DEF PlayerNamed
      <4> QED BY <1>2, <4>3 DEF MayEmerge
    <3> QED BY <1>0, <2>3, <2>10, <3>1 DEF NamesOnce
  <2> QED BY <2>6, <2>7, <2>8, <2>9, <2>10
<1> QED BY <1>1, <1>2 DEF handleClientReady

-----------------------------------------------------------------------------

LEMMA StepKeepsIInv ==
    ASSUME IInv, [Next]_vars
    PROVE  IInv' /\ (~QuickRejoin /\ NamesOnce => NamesOnce')
<1>1. TypeOK'
  BY TypeStep DEF IInv
<1>2. CASE OtherStep
  BY <1>1, <1>2, OtherSteps, Keeping DEF IInv
<1>3. CASE \E i \in DOMAIN m_players : RemoveObject(i)
  BY <1>1, <1>3, Removal DEF IInv
<1>4. CASE \E p \in Peers : deletingPeer(p)
  BY <1>1, <1>4, Deletion DEF IInv
<1>5. CASE \E p \in Peers : handleClientReady(p)
  BY <1>1, <1>5, Joining DEF IInv
<1> QED BY <1>2, <1>3, <1>4, <1>5 DEF Next, Packet, OtherStep

LEMMA InitIInv == Init => IInv /\ NamesOnce
<1> SUFFICES ASSUME Init PROVE IInv /\ NamesOnce
  OBVIOUS
<1>1. NoClient \in RemoteClient /\ NoClient.state = "none"
  BY DEF NoClient, Client, RemoteClient, States, Mechs
<1>2. TypeOK
  BY <1>1 DEF Init, TypeOK
<1>3. m_players = << >> /\ DOMAIN m_players = {}
  BY DEF Init
<1> QED BY <1>1, <1>2, <1>3 DEF Init, IInv, HasPlayer, ClientOfPlayer, PeersOnce, DeniedLeft,
                              NamesOnce, PlayerOf, InGame

\* Every variable keeps its type; in particular no packet, in whatever state
\* it comes, makes a handler raise an event that notifyEvent throws at.
THEOREM SessionTypes == Spec => []TypeOK
<1>1. IInv /\ [Next]_vars => IInv'
  BY StepKeepsIInv
<1>2. IInv => TypeOK
  BY DEF IInv
<1> QED BY InitIInv, <1>1, <1>2, PTL DEF Spec

\* Clients in the game and connected players are the same, each name and each
\* peer once, if an object is gone before its player is back.
THEOREM PlayersAreClients == ~QuickRejoin => (Spec => []PlayersMatchClients)
<1> SUFFICES ASSUME ~QuickRejoin PROVE Spec => []PlayersMatchClients
  OBVIOUS
<1> DEFINE J == IInv /\ NamesOnce
<1>1. Init => J
  BY InitIInv
<1>2. J /\ [Next]_vars => J'
  BY StepKeepsIInv
<1>3. J => PlayersMatchClients
  BY DEF IInv, NamesOnce, PlayersMatchClients, PlayersUnique, HasPlayer, ClientOfPlayer,
         PeersOnce, DeniedLeft
<1> HIDE DEF J
<1> QED BY <1>1, <1>2, <1>3, PTL DEF Spec

-----------------------------------------------------------------------------
(* The user limit                                                          *)

\* Whom UserLimit counts.
Counted == {p \in ActiveClients : m_clients[p].name \notin Bypass}

CountedUpTo == Cardinality(Counted) <= MaxUsers

LEMMA Fewer ==
    ASSUME CountedUpTo, Counted' \subseteq Counted
    PROVE  CountedUpTo'
<1>1. IsFiniteSet(Counted)
  BY ClientSessionAssumption, FS_Subset DEF Counted, ActiveClients
<1>2. Cardinality(Counted') <= Cardinality(Counted) /\ Cardinality(Counted') \in Nat
  BY <1>1, FS_Subset, FS_CardinalityType
<1>3. Cardinality(Counted) \in Nat /\ MaxUsers \in Nat
  BY <1>1, FS_CardinalityType, ClientSessionAssumption
<1> QED BY <1>2, <1>3 DEF CountedUpTo

LEMMA KeepsCounted == ASSUME KeepsClients PROVE Counted' \subseteq Counted
BY DEF KeepsClients, Counted, ActiveClients

\* Only CLIENT_READY adds to those who are counted, and looks at them first.
LEMMA ReadyCounted ==
    ASSUME IInv, CountedUpTo, NEW p \in Peers, handleClientReady(p)
    PROVE  CountedUpTo'
<1> USE DEF IInv
<1> DEFINE name == m_clients[p].name
<1>0. /\ m_clients[p] \in RemoteClient /\ m_clients[p].state \in HasDefinitions
      /\ m_clients \in [Peers -> RemoteClient]
  BY DEF TypeOK, handleClientReady
<1>1. CASE Deny(p)
  <2>1. KeepsClients
    BY <1>0, <1>1, DenyKeeps DEF HasDefinitions, InGame
  <2> QED BY <2>1, KeepsCounted, Fewer
<1>2. CASE /\ ~UserLimitReached(name) /\ MayEmerge(p, name)
           /\ Event(p, "SetClientReady", m_clients[p])
  <2>1. m_clients[p].state = "DefinitionsSent"
    BY <1>0, <1>2 DEF HasDefinitions, RemoteClient, States, MayEmerge, HasPlayer, InGame
  <2>2. /\ m_clients'[p].name = name
        /\ \A q \in Peers \ {p} : m_clients'[q] = m_clients[q]
    BY <1>0, <1>2, <2>1, Expected DEF Event, RemoteClient
  <2>3. Counted' \subseteq Counted \cup {p}
    BY <2>2 DEF Counted, ActiveClients
  <2>4. CASE name \in Bypass
    <3>1. Counted' \subseteq Counted
      BY <2>2, <2>3, <2>4 DEF Counted
    <3> QED BY <3>1, Fewer
  <2>5. CASE Cardinality(ActiveClients) < MaxUsers
    <3>1. IsFiniteSet(ActiveClients) /\ Counted \cup {p} \subseteq ActiveClients \cup {p}
      BY ClientSessionAssumption, FS_Subset DEF Counted, ActiveClients
    <3>2. /\ IsFiniteSet(ActiveClients \cup {p})
          /\ Cardinality(ActiveClients \cup {p}) <= Cardinality(ActiveClients) + 1
      <4>1. /\ IsFiniteSet(ActiveClients \cup {p})
            /\ Cardinality(ActiveClients \cup {p}) =
                 IF p \in ActiveClients THEN Cardinality(ActiveClients)
                 ELSE Cardinality(ActiveClients) + 1
        BY <3>1, FS_AddElement
      <4>2. Cardinality(ActiveClients) \in Nat
        BY <3>1, FS_CardinalityType
      <4> QED BY <4>1, <4>2
    <3>3. /\ Cardinality(Counted') <= Cardinality(ActiveClients \cup {p})
          /\ IsFiniteSet(Counted')
      BY <2>3, <3>1, <3>2, FS_Subset
    <3>4. /\ Cardinality(Counted') \in Nat /\ Cardinality(ActiveClients) \in Nat
          /\ Cardinality(ActiveClients \cup {p}) \in Nat /\ MaxUsers \in Nat
      BY <3>1, <3>2, <3>3, FS_CardinalityType, ClientSessionAssumption
    <3> QED BY <2>5, <3>2, <3>3, <3>4 DEF CountedUpTo
  <2>6. name \in Bypass \/ Cardinality(ActiveClients) < MaxUsers
    <3>1. Cardinality(ActiveClients) \in Nat /\ MaxUsers \in Nat
      BY ClientSessionAssumption, FS_Subset, FS_CardinalityType DEF ActiveClients
    <3> QED BY <1>2, <3>1 DEF UserLimitReached
  <2> QED BY <2>4, <2>5, <2>6
<1> QED BY <1>1, <1>2 DEF handleClientReady, IsFull

\* However many logins overlap, no more are in the game than max_users lets
\* in, but for the names that may always join.
THEOREM UserLimitHolds == Spec => []UserLimit
<1>1. Init => CountedUpTo
  <2> SUFFICES ASSUME Init PROVE CountedUpTo
    OBVIOUS
  <2>1. Counted = {}
    BY DEF Init, Counted, ActiveClients, NoClient, Client, InGame
  <2> QED BY <2>1, FS_EmptySet, ClientSessionAssumption DEF CountedUpTo
<1>2. IInv /\ CountedUpTo /\ [Next]_vars => CountedUpTo'
  <2> SUFFICES ASSUME IInv, CountedUpTo, [Next]_vars PROVE CountedUpTo'
    OBVIOUS
  <2>1. CASE OtherStep
    BY <2>1, OtherSteps, KeepsCounted, Fewer
  <2>2. CASE \E i \in DOMAIN m_players : RemoveObject(i)
    BY <2>2, KeepsCounted, Fewer DEF RemoveObject, KeepsClients
  <2>3. CASE \E p \in Peers : deletingPeer(p)
    <3> PICK p \in Peers : deletingPeer(p)
      BY <2>3
    <3>1. m_clients'[p].state = "none" /\ \A q \in Peers \ {p} : m_clients'[q] = m_clients[q]
      BY DEF deletingPeer, IInv, TypeOK, NoClient, Client
    <3>2. Counted' \subseteq Counted
      BY <3>1 DEF Counted, ActiveClients, InGame
    <3> QED BY <3>2, Fewer
  <2>4. CASE \E p \in Peers : handleClientReady(p)
    BY <2>4, ReadyCounted
  <2> QED BY <2>1, <2>2, <2>3, <2>4 DEF Next, Packet, OtherStep
<1>3. CountedUpTo => UserLimit
  BY DEF CountedUpTo, Counted, UserLimit
<1>4. IInv /\ [Next]_vars => IInv'
  BY StepKeepsIInv
<1> QED BY InitIInv, <1>1, <1>2, <1>3, <1>4, PTL DEF Spec

-----------------------------------------------------------------------------
(* The data of the players                                                 *)

\* What is in the game is the last that was done in it, and what is not is
\* in the database.
PlayedIsLatest == \A i \in DOMAIN m_players : m_players[i].data = latest[m_players[i].name]

StoredIsLatest ==
    \A n \in Names : (\A i \in DOMAIN m_players : m_players[i].name # n) => db[n] = latest[n]

\* Without a default password no login creates an account at its end.
AccountsOnce ==
    /\ \A n \in Names : accounts[n] <= 1
    /\ \A p \in Peers : ~m_clients[p].create_player

DataInv == PlayedIsLatest /\ StoredIsLatest /\ AccountsOnce

\* No step makes a client that is to create its account, and only
\* TOSERVER_FIRST_SRP creates one, of a name that has none.
LEMMA AccountsStep ==
    ASSUME ~DefaultPassword, IInv, AccountsOnce, [Next]_vars
    PROVE  AccountsOnce'
<1> USE DEF IInv
<1>0. /\ m_clients \in [Peers -> RemoteClient] /\ accounts \in [Names -> Nat]
      /\ \A p \in Peers : m_clients[p] \in RemoteClient /\ m_clients[p].create_player = FALSE
  BY DEF TypeOK, AccountsOnce, RemoteClient
<1>1. ASSUME NEW p \in Peers, NEW c, c.create_player = FALSE, m_clients' = [m_clients EXCEPT ![p] = c]
      PROVE  \A q \in Peers : ~m_clients'[q].create_player
  BY <1>0, <1>1
<1>2. ASSUME NEW p \in Peers, Deny(p)
      PROVE  \A q \in Peers : ~m_clients'[q].create_player
  BY <1>1, <1>2 DEF Deny, Denied, Client
<1>3. ASSUME NEW p \in Peers, NEW event, NEW c \in RemoteClient, c.create_player = FALSE,
             Event(p, event, c)
      PROVE  \A q \in Peers : ~m_clients'[q].create_player
  <2> DEFINE d == [c EXCEPT !.state = notifyEvent(m_clients[p].state, event)]
  <2>1. m_clients' = [m_clients EXCEPT ![p] = d] /\ d.create_player = FALSE
    BY <1>3 DEF Event, RemoteClient
  <2> HIDE DEF d
  <2> QED BY <1>1, <2>1
<1>4. ASSUME NEW p \in Peers, peerAdded(p) \/ deletingPeer(p) \/ Kick(p)
      PROVE  AccountsOnce'
  <2>1. Created.create_player = FALSE /\ NoClient.create_player = FALSE
    BY DEF Created, NoClient, Client
  <2>2. UNCHANGED accounts
    BY <1>4 DEF peerAdded, deletingPeer, Kick
  <2> QED BY <1>1, <1>2, <1>4, <2>1, <2>2 DEF AccountsOnce, peerAdded, deletingPeer, Kick
<1>5. ASSUME NEW p \in Peers, NEW n \in Names, NEW ok \in BOOLEAN, handleInit(p, n, ok)
      PROVE  AccountsOnce'
  <2> DEFINE c == Client("", n, Offered(n), "NONE", accounts[n] = 0 /\ DefaultPassword)
             d == [c EXCEPT !.state = notifyEvent(m_clients[p].state, "Hello")]
  <2>1. d.create_player = FALSE
    BY DEF Client
  <2>2. Event(p, "Hello", c) => m_clients' = [m_clients EXCEPT ![p] = d]
    BY DEF Event
  <2>3. (Event(p, "Hello", c) \/ Deny(p)) /\ UNCHANGED accounts
    BY <1>5 DEF handleInit
  <2> HIDE DEF c, d
  <2> QED BY <1>1, <1>2, <2>1, <2>2, <2>3 DEF AccountsOnce
<1>6. ASSUME NEW p \in Peers, NEW ok \in BOOLEAN, handleFirstSrp(p, ok)
      PROVE  AccountsOnce'
  <2>1. CASE Deny(p) /\ UNCHANGED accounts
    BY <1>2, <2>1 DEF AccountsOnce
  <2>2. CASE /\ m_clients[p].state = "HelloSent" /\ ~BeatenToIt(m_clients[p].name)
             /\ accounts' = [accounts EXCEPT ![m_clients[p].name] = @ + 1]
             /\ m_clients' = [m_clients EXCEPT ![p].mech = "SRP"]
    <3> DEFINE c == [m_clients[p] EXCEPT !.mech = "SRP"]
    <3>1. c.create_player = FALSE /\ m_clients' = [m_clients EXCEPT ![p] = c]
      BY <1>0, <2>2 DEF RemoteClient
    <3>2. m_clients[p].name \in Names /\ accounts[m_clients[p].name] = 0
      BY <1>0, <2>2 DEF TypeOK, BeatenToIt
    <3>3. \A n \in Names : accounts'[n] = IF n = m_clients[p].name THEN 1 ELSE accounts[n]
      BY <1>0, <2>2, <3>2
    <3> HIDE DEF c
    <3> QED BY <1>1, <3>1, <3>3 DEF AccountsOnce
  <2>3. CASE Event(p, "SudoLeave", m_clients[p]) /\ UNCHANGED accounts
    BY <1>0, <1>3, <2>3 DEF AccountsOnce
  <2> QED BY <1>6, <2>1, <2>2, <2>3 DEF handleFirstSrp
<1>7. ASSUME NEW p \in Peers, NEW ok \in BOOLEAN, handleSrpBytesA(p, ok)
      PROVE  AccountsOnce'
  <2>1. CASE Deny(p)
    BY <1>2, <1>7, <2>1 DEF AccountsOnce, handleSrpBytesA
  <2>2. CASE m_clients' = [m_clients EXCEPT ![p].chosen_mech = "SRP"]
    <3> DEFINE c == [m_clients[p] EXCEPT !.chosen_mech = "SRP"]
    <3>1. c.create_player = FALSE /\ m_clients' = [m_clients EXCEPT ![p] = c]
      BY <1>0, <2>2 DEF RemoteClient
    <3> HIDE DEF c
    <3> QED BY <1>1, <1>7, <3>1 DEF AccountsOnce, handleSrpBytesA
  <2> QED BY <1>7, <2>1, <2>2 DEF handleSrpBytesA
<1>8. ASSUME NEW p \in Peers, NEW answer \in {"right", "wrong", "malformed"},
             handleSrpBytesM(p, answer)
      PROVE  AccountsOnce'
  <2> DEFINE done == [m_clients[p] EXCEPT !.chosen_mech = "NONE", !.create_player = FALSE]
  <2>1. done \in RemoteClient /\ done.create_player = FALSE
    BY <1>0 DEF RemoteClient
  <2>2. UNCHANGED accounts
    BY <1>0, <1>8 DEF handleSrpBytesM
  <2>3. \/ Deny(p) \/ m_clients' = [m_clients EXCEPT ![p] = done]
        \/ Event(p, "AuthAccept", done) \/ Event(p, "SudoSuccess", done)
    BY <1>8 DEF handleSrpBytesM
  <2> HIDE DEF done
  <2>4. CASE Deny(p)
    BY <1>2, <2>2, <2>4 DEF AccountsOnce
  <2>5. CASE m_clients' = [m_clients EXCEPT ![p] = done]
    BY <1>1, <2>1, <2>2, <2>5 DEF AccountsOnce
  <2>6. CASE Event(p, "AuthAccept", done) \/ Event(p, "SudoSuccess", done)
    BY <1>3, <2>1, <2>2, <2>6 DEF AccountsOnce
  <2> QED BY <2>3, <2>4, <2>5, <2>6
<1>9. ASSUME NEW p \in Peers, handleInit2(p)
      PROVE  AccountsOnce'
  <2> DEFINE c == [m_clients[p] EXCEPT !.state =
                    notifyEvent(notifyEvent(m_clients[p].state, "GotInit2"), "SetDefinitionsSent")]
  <2>1. c.create_player = FALSE /\ m_clients' = [m_clients EXCEPT ![p] = c] /\ UNCHANGED accounts
    BY <1>0, <1>9 DEF RemoteClient, handleInit2
  <2> HIDE DEF c
  <2> QED BY <1>1, <2>1 DEF AccountsOnce
<1>10. ASSUME NEW p \in Peers, handleClientReady(p)
       PROVE  AccountsOnce'
  <2>1. (Deny(p) \/ Event(p, "SetClientReady", m_clients[p])) /\ UNCHANGED accounts
    BY <1>10 DEF handleClientReady
  <2> QED BY <1>0, <1>2, <1>3, <2>1 DEF AccountsOnce
<1>11. CASE /\ UNCHANGED <<m_clients, accounts>>
  BY <1>11 DEF AccountsOnce
<1>12. ASSUME NEW p \in Peers, DisconnectLingering(p)
                 \/ \E c \in Channels : handleModChannelJoin(p, c) \/ handleModChannelLeave(p, c)
       PROVE  UNCHANGED <<m_clients, accounts>>
  BY <1>12 DEF DisconnectLingering, handleModChannelJoin, handleModChannelLeave
<1>13. ASSUME saveLoadedPlayers \/ \E i \in DOMAIN m_players : Play(i) \/ RemoveObject(i)
       PROVE  UNCHANGED <<m_clients, accounts>>
  BY <1>13 DEF saveLoadedPlayers, Play, RemoveObject
<1> QED BY <1>4, <1>5, <1>6, <1>7, <1>8, <1>9, <1>10, <1>11, <1>12, <1>13 DEF Next, Packet, vars

\* The game goes on with a player.
LEMMA PlayKeepsData ==
    ASSUME TypeOK, NamesOnce, PlayedIsLatest, StoredIsLatest,
           NEW i \in DOMAIN m_players, Play(i)
    PROVE  PlayedIsLatest' /\ StoredIsLatest'
<1>0. /\ \A j \in DOMAIN m_players : m_players[j] \in RemotePlayer
      /\ latest \in [Names -> Nat]
  BY DEF TypeOK
<1>1. PICK name : name = m_players[i].name
  OBVIOUS
<1>2. /\ DOMAIN m_players' = DOMAIN m_players
      /\ \A j \in DOMAIN m_players \ {i} : m_players'[j] = m_players[j]
      /\ m_players'[i].name = name /\ m_players'[i].data = plays'
  BY <1>0, <1>1 DEF Play, RemotePlayer
<1>3. /\ name \in Names /\ latest'[name] = plays'
      /\ \A n \in Names \ {name} : latest'[n] = latest[n]
  BY <1>0, <1>1 DEF Play, RemotePlayer
<1>4. ASSUME NEW j \in DOMAIN m_players
      PROVE  m_players'[j].data = latest'[m_players'[j].name]
  <2>1. CASE j = i
    BY <1>2, <1>3, <2>1
  <2>2. CASE j # i
    <3>1. m_players[j].name \in Names \ {name}
      BY <1>0, <1>1, <2>2 DEF NamesOnce, RemotePlayer
    <3> QED BY <1>2, <1>3, <2>2, <3>1 DEF PlayedIsLatest
  <2> QED BY <2>1, <2>2
<1>5. ASSUME NEW n \in Names, \A j \in DOMAIN m_players : m_players'[j].name # n
      PROVE  db'[n] = latest'[n]
  <2>1. n # name
    BY <1>2, <1>5
  <2>2. \A j \in DOMAIN m_players : m_players[j].name # n
    BY <1>1, <1>2, <1>5, <2>1
  <2> QED BY <1>3, <2>1, <2>2 DEF Play, StoredIsLatest
<1> QED BY <1>2, <1>4, <1>5 DEF PlayedIsLatest, StoredIsLatest

\* A periodic save leaves alone what nobody plays.
LEMMA SaveKeepsData ==
    ASSUME TypeOK, PlayedIsLatest, StoredIsLatest, saveLoadedPlayers
    PROVE  PlayedIsLatest' /\ StoredIsLatest'
<1>0. \A j \in DOMAIN m_players : m_players[j] \in RemotePlayer
  BY DEF TypeOK
<1>1. /\ DOMAIN m_players' = DOMAIN m_players /\ latest' = latest
      /\ \A j \in DOMAIN m_players : /\ m_players'[j].name = m_players[j].name
                                     /\ m_players'[j].data = m_players[j].data
  BY <1>0 DEF saveLoadedPlayers, RemotePlayer
<1>2. ASSUME NEW n \in Names, \A i \in DOMAIN m_players : m_players[i].name # n
      PROVE  db'[n] = db[n]
  <2>1. {i \in DOMAIN m_players : m_players[i].name = n /\ m_players[i].modified} = {}
    BY <1>2
  <2> QED BY <2>1 DEF saveLoadedPlayers
<1> QED BY <1>1, <1>2 DEF PlayedIsLatest, StoredIsLatest

\* The player whose object is removed is saved first.
LEMMA RemovalKeepsData ==
    ASSUME TypeOK, NamesOnce, PlayedIsLatest, StoredIsLatest,
           NEW i \in DOMAIN m_players, RemoveObject(i)
    PROVE  PlayedIsLatest' /\ StoredIsLatest'
<1> DEFINE at(k) == IF k < i THEN k ELSE k + 1
<1>0. /\ m_players \in Seq(RemotePlayer) /\ i \in 1 .. Len(m_players) /\ Len(m_players) \in Nat
      /\ m_players[i] \in RemotePlayer /\ db \in [Names -> Nat]
  BY DEF TypeOK
<1>1. /\ m_players' \in Seq(RemotePlayer) /\ Len(m_players') = Len(m_players) - 1
      /\ \A k \in 1 .. Len(m_players) - 1 : m_players'[k] = m_players[at(k)]
  BY <1>0, RemoveAtProperties DEF RemoveObject
<1>2. DOMAIN m_players' = 1 .. Len(m_players) - 1
  BY <1>0, <1>1
<1>3. \A k \in DOMAIN m_players' : at(k) \in DOMAIN m_players /\ m_players'[k] = m_players[at(k)]
  BY <1>0, <1>1, <1>2
<1>4. \A j \in DOMAIN m_players : j # i => \E k \in DOMAIN m_players' : at(k) = j
  <2> TAKE j \in DOMAIN m_players
  <2>1. CASE j < i
    BY <1>0, <1>2, <2>1
  <2>2. CASE j > i
    <3>1. j - 1 \in DOMAIN m_players' /\ at(j - 1) = j
      BY <1>0, <1>2, <2>2
    <3> QED BY <3>1
  <2> QED BY <1>0, <2>1, <2>2
<1> HIDE DEF at
<1>5. PICK name : name = m_players[i].name
  OBVIOUS
<1>6. /\ latest' = latest /\ name \in Names /\ db'[name] = m_players[i].data
      /\ \A n \in Names \ {name} : db'[n] = db[n]
  BY <1>0, <1>5 DEF RemoveObject, savePlayer, RemotePlayer
<1>7. PlayedIsLatest'
  BY <1>3, <1>6 DEF PlayedIsLatest
<1>8. ASSUME NEW n \in Names, \A k \in DOMAIN m_players' : m_players'[k].name # n
      PROVE  db'[n] = latest[n]
  <2>1. CASE n = name
    BY <1>5, <1>6, <2>1 DEF PlayedIsLatest
  <2>2. CASE n # name
    <3>1. \A j \in DOMAIN m_players : m_players[j].name # n
      BY <1>3, <1>4, <1>5, <1>8, <2>2
    <3> QED BY <1>6, <2>2, <3>1 DEF StoredIsLatest
  <2> QED BY <2>1, <2>2
<1> QED BY <1>6, <1>7, <1>8 DEF StoredIsLatest

LEMMA DeletionKeepsData ==
    ASSUME TypeOK, PlayedIsLatest, StoredIsLatest, NEW p \in Peers, deletingPeer(p)
    PROVE  PlayedIsLatest' /\ StoredIsLatest'
<1>0. \A j \in DOMAIN m_players : m_players[j] \in RemotePlayer
  BY DEF TypeOK
<1>1. /\ DOMAIN m_players' = DOMAIN m_players /\ latest' = latest /\ db' = db
      /\ \A j \in DOMAIN m_players : /\ m_players'[j].name = m_players[j].name
                                     /\ m_players'[j].data = m_players[j].data
  BY <1>0 DEF deletingPeer, disconnected, RemotePlayer
<1> QED BY <1>1 DEF PlayedIsLatest, StoredIsLatest

\* Who joins gets what the database has, which is the last if nobody plays
\* under the name.
LEMMA JoiningKeepsData ==
    ASSUME ~QuickRejoin, IInv, NamesOnce, PlayedIsLatest, StoredIsLatest,
           NEW p \in Peers, handleClientReady(p)
    PROVE  PlayedIsLatest' /\ StoredIsLatest'
<1> USE DEF IInv
<1> DEFINE name == m_clients[p].name
           player == [name |-> name, peer |-> p, data |-> db[name], modified |-> db[name] = 0]
           n == Len(m_players)
<1>0. /\ m_players \in Seq(RemotePlayer) /\ n \in Nat /\ DOMAIN m_players = 1 .. n
      /\ m_clients[p] \in RemoteClient /\ m_clients[p].state \in HasDefinitions
      /\ latest' = latest /\ db' = db
  BY DEF TypeOK, handleClientReady
<1>1. CASE UNCHANGED m_players
  BY <1>0, <1>1 DEF PlayedIsLatest, StoredIsLatest
<1>2. CASE MayEmerge(p, name) /\ m_players' = Append(m_players, player)
  <2>1. name \in Names
    BY <1>0, <1>2 DEF TypeOK, HasDefinitions, InGame
  <2>2. \A i \in 1 .. n : m_players[i].name # name
    <3> SUFFICES ASSUME NEW i \in 1 .. n, m_players[i].name = name
                 PROVE  FALSE
      OBVIOUS
    <3>1. PICK j \in PlayerNamed(name, TRUE) : TRUE
      BY <1>0, NamedIsFound
    <3>2. Connected(j)
      BY <3>1 DEF handleClientReady, ObjectRemoved
    <3>3. j \in PlayerNamed(name, FALSE)
      BY <3>1, <3>2 DEF PlayerNamed
    <3> QED BY <1>2, <3>3 DEF MayEmerge
  <2>3. /\ DOMAIN m_players' = 1 .. n + 1
        /\ \A i \in 1 .. n : m_players'[i] = m_players[i]
        /\ m_players'[n + 1].name = name /\ m_players'[n + 1].data = db[name]
    BY <1>0, <1>2
  <2>4. db[name] = latest[name]
    BY <1>0, <2>1, <2>2 DEF StoredIsLatest
  <2>5. PlayedIsLatest'
    <3> SUFFICES ASSUME NEW i \in 1 .. n + 1
                 PROVE  m_players'[i].data = latest[m_players'[i].name]
      BY <1>0, <2>3 DEF PlayedIsLatest
    <3>1. i \in 1 .. n \/ i = n + 1
      BY <1>0
    <3> QED BY <1>0, <2>3, <2>4, <3>1 DEF PlayedIsLatest
  <2>6. StoredIsLatest'
    <3>1. \A i \in 1 .. n : i \in 1 .. n + 1
      BY <1>0
    <3> QED BY <1>0, <2>3, <3>1 DEF StoredIsLatest
  <2> QED BY <2>5, <2>6
<1> QED BY <1>1, <1>2 DEF handleClientReady

LEMMA DataStep ==
    ASSUME ~QuickRejoin, ~DefaultPassword, IInv, NamesOnce, DataInv, [Next]_vars
    PROVE  DataInv'
<1>0. AccountsOnce'
  BY AccountsStep DEF DataInv
<1>1. CASE UNCHANGED storeVars
  BY <1>0, <1>1 DEF DataInv, PlayedIsLatest, StoredIsLatest, storeVars
<1>2. CASE \E i \in DOMAIN m_players : Play(i)
  BY <1>0, <1>2, PlayKeepsData DEF DataInv, IInv
<1>3. CASE saveLoadedPlayers
  BY <1>0, <1>3, SaveKeepsData DEF DataInv, IInv
<1>4. CASE \E i \in DOMAIN m_players : RemoveObject(i)
  BY <1>0, <1>4, RemovalKeepsData DEF DataInv, IInv
<1>5. CASE \E p \in Peers : deletingPeer(p)
  BY <1>0, <1>5, DeletionKeepsData DEF DataInv, IInv
<1>6. CASE \E p \in Peers : handleClientReady(p)
  BY <1>0, <1>6, JoiningKeepsData DEF DataInv, IInv
<1>7. ASSUME NEW p \in Peers,
             \/ peerAdded(p) \/ Kick(p) \/ DisconnectLingering(p) \/ handleInit2(p)
             \/ \E n \in Names, ok \in BOOLEAN : handleInit(p, n, ok)
             \/ \E ok \in BOOLEAN : handleFirstSrp(p, ok) \/ handleSrpBytesA(p, ok)
             \/ \E answer \in {"right", "wrong", "malformed"} : handleSrpBytesM(p, answer)
             \/ \E c \in Channels : handleModChannelJoin(p, c) \/ handleModChannelLeave(p, c)
      PROVE  UNCHANGED storeVars
  BY <1>7 DEF peerAdded, Kick, DisconnectLingering, handleInit2, handleInit, handleFirstSrp,
              handleSrpBytesA, handleSrpBytesM, handleModChannelJoin, handleModChannelLeave
<1>8. CASE UNCHANGED vars
  BY <1>1, <1>8 DEF vars, storeVars
<1> QED BY <1>1, <1>2, <1>3, <1>4, <1>5, <1>6, <1>7, <1>8 DEF Next, Packet

\* Who comes back finds the player as it was left, however often it was saved
\* meanwhile, and an account is created once: of several that register one
\* name, the first gets it.
THEOREM PlayersKeepTheirData ==
    ~QuickRejoin /\ ~DefaultPassword => (Spec => []DataKept)
<1> SUFFICES ASSUME ~QuickRejoin, ~DefaultPassword PROVE Spec => []DataKept
  OBVIOUS
<1> DEFINE J == IInv /\ NamesOnce /\ DataInv
<1>1. Init => J
  <2> SUFFICES ASSUME Init PROVE DataInv
    BY InitIInv
  <2>1. m_players = << >> /\ NoClient.create_player = FALSE
    BY DEF Init, NoClient, Client
  <2> QED BY <2>1 DEF Init, DataInv, PlayedIsLatest, StoredIsLatest, AccountsOnce
<1>2. J /\ [Next]_vars => J'
  BY StepKeepsIInv, DataStep
<1>3. J => DataKept
  BY DEF DataInv, PlayedIsLatest, StoredIsLatest, AccountsOnce, DataKept
<1> HIDE DEF J
<1> QED BY <1>1, <1>2, <1>3, PTL DEF Spec

-----------------------------------------------------------------------------
(* The block transfer: what is under way                                   *)

DownPacket == [type : {"block"}, block : Blocks, content : SUBSET Changes]
              \cup [type : {"node"}, block : Blocks, change : Changes]
Answers == [type : {"got", "deleted"}, block : Blocks]
Interactions == [type : {"dig"}, under : Blocks, change : Changes]
                \cup [type : {"place"}, under : Blocks, above : Blocks, change : Changes]
NodeEvents == [type : {"node"}, block : Blocks, change : Changes,
               modified_blocks : SUBSET Blocks, low_priority : {FALSE}]
OtherEvents == [type : {"other"}, modified_blocks : SUBSET Blocks, low_priority : BOOLEAN]
BlockClient == [sending : SUBSET Blocks, sent : SUBSET Blocks, occ : SUBSET Blocks,
                 nearest : 0..FullDMax, view : Views, paused : BOOLEAN]

\* Channels 0 and 2 down.
Downward(d) == DOMAIN d = {0, 2} /\ d[0] \in Seq(DownPacket) /\ d[2] \in Seq(DownPacket)

MapTypes ==
    /\ memory \in [Blocks -> {"absent", "stored", "blank", "generated"}]
    /\ content \in [Blocks -> SUBSET Changes]
    /\ emerging \in [Blocks -> {"no", "disk_only", "generate"}]
    /\ view \in Views /\ changes \in 0..MaxChanges

TransferTypes ==
    /\ MapTypes
    /\ events \in Seq(NodeEvents \cup OtherEvents)
    /\ client \in BlockClient /\ client.sending \cap client.sent = {}
    /\ Downward(down)
    /\ DOMAIN up = {0, 2} /\ up[0] \in Seq(Interactions) /\ up[2] \in Seq(Answers)
    /\ shown \in [Blocks -> {NotLoaded} \cup SUBSET Changes]
    /\ acks \in [Blocks -> Nat]

LEMMA Numbers ==
    /\ MaxSimulSends \in Nat /\ MaxBlocksToSend \in Nat /\ MaxChanges \in Nat
    /\ FullDMax \in Nat /\ DCullOpt \in Nat
    /\ 0 \notin Changes /\ \A S \in SUBSET Changes : S # NotLoaded
BY BlockTransferAssumption DEF Changes, NotLoaded

LEMMA Places ==
    /\ IsFiniteSet(Blocks)
    /\ \A v \in Views : /\ InSight[v] \subseteq Blocks
                        /\ \A b \in Blocks : /\ Distance[v][b] \in Nat /\ Priority[v][b] \in Int
                                           /\ Rank[v][b] \in Int
    /\ \A v \in Views : \A b, q \in Blocks : b # q => Rank[v][b] # Rank[v][q]
    /\ \A b \in Blocks : Border[b] \subseteq Blocks
BY BlockTransferAssumption

LEMMA LeastDistance ==
    ASSUME NEW S \in SUBSET Nat, S # {}
    PROVE  Min(S) \in S /\ \A n \in S : Min(S) <= n
<1>1. \E m \in S : \A n \in S : m <= n
  BY LeastNumber
<1> QED BY <1>1 DEF Min

LEMMA NotSentTypes ==
    ASSUME NEW c \in BlockClient, c.sending \cap c.sent = {}, NEW bs \in SUBSET Blocks,
           NEW low_priority
    PROVE  LET c2 == SetBlocksNotSent(c, bs, low_priority) IN
           /\ c2 \in BlockClient /\ c2.sending \cap c2.sent = {}
           /\ c2.sending = c.sending \ bs /\ c2.sent = c.sent \ bs
           /\ c2.view = c.view /\ c2.nearest <= c.nearest
<1> DEFINE c2 == SetBlocksNotSent(c, bs, low_priority)
           rescan == {b \in bs \cap (c.sending \cup c.sent) :
                        ~low_priority \/ Distance[c.view][b] < DCullOpt}
           S == {c.nearest} \cup {Distance[c.view][b] : b \in rescan}
<1>1. S \in SUBSET Nat /\ c.nearest \in S /\ c.nearest \in 0..FullDMax
  BY Numbers, Places DEF BlockClient
<1>2. c2 = [c EXCEPT !.paused = @ /\ bs = {}, !.sending = @ \ bs, !.sent = @ \ bs,
                     !.nearest = Min(S)]
  BY DEF SetBlocksNotSent
<1>3. Min(S) \in Nat /\ Min(S) <= c.nearest
  <2> HIDE DEF S
  <2> QED BY <1>1, LeastDistance
<1> HIDE DEF S, c2
<1>4. Min(S) \in 0..FullDMax
  BY <1>1, <1>3, Numbers
<1>5. /\ c2 = [sending |-> c.sending \ bs, sent |-> c.sent \ bs, occ |-> c.occ, nearest |-> Min(S),
               view |-> c.view, paused |-> c.paused /\ bs = {}]
  BY <1>2 DEF BlockClient
<1>6. /\ c2 \in BlockClient /\ c2.sending \cap c2.sent = {}
      /\ c2.sending = c.sending \ bs /\ c2.sent = c.sent \ bs
      /\ c2.view = c.view /\ c2.nearest <= c.nearest
  BY <1>3, <1>4, <1>5 DEF BlockClient
<1> QED BY <1>6 DEF c2

LEMMA SomeDistance ==
    ASSUME NEW bs \in SUBSET Blocks, bs # {}, view \in Views
    PROVE  \E b \in bs : NearestOf(bs) = Distance[view][b]
<1> DEFINE S == {Distance[view][b] : b \in bs}
<1>1. S \in SUBSET Nat /\ S # {}
  BY Places
<1>2. NearestOf(bs) = Min(S)
  BY DEF NearestOf
<1> HIDE DEF S
<1>3. NearestOf(bs) \in S
  BY <1>1, <1>2, LeastDistance
<1> QED BY <1>3 DEF S

\* One way of the scan.
ScanOf(c, verdict, stops, asked, queue, sent) ==
    /\ c = LookAround(client) /\ verdict = Verdict(c)
    /\ stops \subseteq DOMAIN verdict /\ asked \subseteq DOMAIN verdict
    /\ \E usually \in 1..MaxSimulSends : stops = Stops(c, verdict, usually)
    /\ queue \in NearestFirst(Reached(verdict, stops, "send"))
    /\ LET room == MaxBlocksToSend - Cardinality(c.sending) IN
       sent = IF room < Len(queue) THEN SubSeq(queue, 1, room) ELSE queue
    /\ emerging' = [b \in Blocks |->
            IF b \notin Reached(verdict, stops, "emerge") THEN emerging[b]
            ELSE IF Distance[view][b] <= DMaxGen THEN "generate"
            ELSE IF emerging[b] = "no" THEN "disk_only" ELSE emerging[b]]
    /\ down' = [down EXCEPT ![2] = @ \o [i \in DOMAIN sent |-> BlockData(sent[i])]]
    /\ client' = SentBlocks(EndScan(c, verdict, asked, stops), Range(sent))

LEMMA ScanSteps ==
    SendBlocks => \E c, verdict, stops, asked, queue, sent :
                     ScanOf(c, verdict, stops, asked, queue, sent)
<1> SUFFICES ASSUME SendBlocks
             PROVE  \E c, verdict, stops, asked, queue, sent :
                       ScanOf(c, verdict, stops, asked, queue, sent)
  OBVIOUS
<1>1. PICK c \in {LookAround(client)}, usually \in 1..MaxSimulSends :
        \E verdict \in {Verdict(c)} : \E stops \in {Stops(c, verdict, usually)} :
        \E queue \in NearestFirst(Reached(verdict, stops, "send")) :
          LET room == MaxBlocksToSend - Cardinality(c.sending)
              sent == IF room < Len(queue) THEN SubSeq(queue, 1, room) ELSE queue
          IN /\ emerging' = [b \in Blocks |->
                  IF b \notin Reached(verdict, stops, "emerge") THEN emerging[b]
                  ELSE IF Distance[view][b] <= DMaxGen THEN "generate"
                  ELSE IF emerging[b] = "no" THEN "disk_only" ELSE emerging[b]]
             /\ down' = [down EXCEPT ![2] = @ \o [i \in DOMAIN sent |-> BlockData(sent[i])]]
             /\ client' = SentBlocks(
                  EndScan(c, verdict, AskedFor(c, verdict, usually, stops), stops), Range(sent))
  BY Zenon DEF SendBlocks
<1>2. PICK verdict \in {Verdict(c)} : \E stops \in {Stops(c, verdict, usually)} :
        \E queue \in NearestFirst(Reached(verdict, stops, "send")) :
          LET room == MaxBlocksToSend - Cardinality(c.sending)
              sent == IF room < Len(queue) THEN SubSeq(queue, 1, room) ELSE queue
          IN /\ emerging' = [b \in Blocks |->
                  IF b \notin Reached(verdict, stops, "emerge") THEN emerging[b]
                  ELSE IF Distance[view][b] <= DMaxGen THEN "generate"
                  ELSE IF emerging[b] = "no" THEN "disk_only" ELSE emerging[b]]
             /\ down' = [down EXCEPT ![2] = @ \o [i \in DOMAIN sent |-> BlockData(sent[i])]]
             /\ client' = SentBlocks(
                  EndScan(c, verdict, AskedFor(c, verdict, usually, stops), stops), Range(sent))
  BY <1>1, Zenon
<1> DEFINE stops == Stops(c, verdict, usually)
           asked == AskedFor(c, verdict, usually, stops)
<1>3. PICK queue \in NearestFirst(Reached(verdict, stops, "send")) :
          LET room == MaxBlocksToSend - Cardinality(c.sending)
              sent == IF room < Len(queue) THEN SubSeq(queue, 1, room) ELSE queue
          IN /\ emerging' = [b \in Blocks |->
                  IF b \notin Reached(verdict, stops, "emerge") THEN emerging[b]
                  ELSE IF Distance[view][b] <= DMaxGen THEN "generate"
                  ELSE IF emerging[b] = "no" THEN "disk_only" ELSE emerging[b]]
             /\ down' = [down EXCEPT ![2] = @ \o [i \in DOMAIN sent |-> BlockData(sent[i])]]
             /\ client' = SentBlocks(EndScan(c, verdict, asked, stops), Range(sent))
  BY <1>2, Zenon
<1>4. stops \subseteq DOMAIN verdict /\ asked \subseteq DOMAIN verdict
  BY Zenon DEF Stops, AskedFor
<1>5. /\ c = LookAround(client) /\ verdict = Verdict(c)
      /\ \E u \in 1..MaxSimulSends : stops = Stops(c, verdict, u)
  BY Zenon
<1> DEFINE sent == IF MaxBlocksToSend - Cardinality(c.sending) < Len(queue)
                   THEN SubSeq(queue, 1, MaxBlocksToSend - Cardinality(c.sending)) ELSE queue
<1>6. ScanOf(c, verdict, stops, asked, queue, sent)
  BY <1>3, <1>4, <1>5, Zenon DEF ScanOf
<1> QED BY <1>6, Zenon

\* What a scan sends, each block once and none that counts as sent.
Scanned(sent) ==
    /\ sent \in Seq(Blocks)
    /\ \A i, j \in DOMAIN sent : sent[i] = sent[j] => i = j
    /\ \A i \in DOMAIN sent : sent[i] \notin client.sending \cup client.sent
    /\ down' = [down EXCEPT ![2] = @ \o [i \in DOMAIN sent |-> BlockData(sent[i])]]
    /\ client' \in BlockClient
    /\ client'.sending = client.sending \cup Range(sent) /\ client'.sent = client.sent
    /\ Cardinality(client.sending) <= MaxSimulSends => Cardinality(client'.sending) <= MaxSimulSends

LEMMA LookingAround ==
    ASSUME client \in BlockClient, view \in Views, NEW c, c = LookAround(client)
    PROVE  /\ c \in BlockClient /\ c.sending = client.sending /\ c.sent = client.sent
           /\ c.nearest \in 0..FullDMax /\ DMax(c.nearest) \in c.nearest..FullDMax
<1>1. c \in BlockClient /\ c.sending = client.sending /\ c.sent = client.sent
      /\ c.nearest \in 0..FullDMax
  <2>1. CASE client.view = view
    BY <2>1 DEF LookAround, BlockClient
  <2>2. CASE client.view # view
    <3>1. c = [sending |-> client.sending, sent |-> client.sent, occ |-> client.occ,
               nearest |-> 0, view |-> view, paused |-> client.paused]
      BY <2>2 DEF LookAround, BlockClient
    <3>2. 0 \in 0..FullDMax
      BY Numbers
    <3> QED BY <3>1, <3>2 DEF BlockClient
  <2> QED BY <2>1, <2>2
<1>2. DMax(c.nearest) \in c.nearest..FullDMax
  BY <1>1, Numbers DEF DMax
<1> QED BY <1>1, <1>2

LEMMA Verdicts ==
    ASSUME view \in Views, NEW c
    PROVE  /\ DOMAIN Verdict(c) \subseteq Blocks
           /\ \A b \in DOMAIN Verdict(c) :
                /\ Distance[view][b] \in c.nearest..DMax(c.nearest)
                /\ Verdict(c)[b] = "send" => b \notin c.sending \cup c.sent
BY Places DEF Verdict, Skipped

\* The next scan starts within the range.
LEMMA ScanNearest ==
    ASSUME client \in BlockClient, view \in Views, NEW c, c = LookAround(client),
           NEW asked \in SUBSET DOMAIN Verdict(c), NEW stops \in SUBSET DOMAIN Verdict(c),
           NEW selected \in SUBSET DOMAIN Verdict(c)
    PROVE  NewNearest(c, asked, stops, selected) \in 0..FullDMax
<1>1. c.nearest \in 0..FullDMax /\ DMax(c.nearest) \in c.nearest..FullDMax
  BY LookingAround
<1>2. /\ DOMAIN Verdict(c) \subseteq Blocks
      /\ \A b \in DOMAIN Verdict(c) : Distance[view][b] \in c.nearest..DMax(c.nearest)
  BY Verdicts
<1> DEFINE within == DOMAIN Verdict(c)
<1>3. ASSUME NEW bs \in SUBSET within, bs # {} PROVE NearestOf(bs) \in 0..FullDMax
  <2> HIDE DEF within
  <2>1. bs \in SUBSET Blocks
    BY <1>2 DEF within
  <2>2. PICK b \in bs : NearestOf(bs) = Distance[view][b]
    BY <1>3, <2>1, SomeDistance
  <2>3. Distance[view][b] \in c.nearest..DMax(c.nearest)
    BY <1>2, <2>2 DEF within
  <2> QED BY <1>1, <2>2, <2>3, Numbers
<1> HIDE DEF within
<1>4. asked = {} /\ stops = {} /\ ~Completed(c, asked, stops) => DMax(c.nearest) + 1 \in 0..FullDMax
  BY <1>1, Numbers DEF Completed
<1>5. asked \in SUBSET within /\ stops \in SUBSET within /\ selected \in SUBSET within
      /\ 0 \in 0..FullDMax
  BY Numbers DEF within
<1> QED BY <1>3, <1>4, <1>5, Zenon DEF NewNearest

LEMMA InOrder ==
    ASSUME NEW bs \in SUBSET Blocks, view \in Views, NEW queue \in NearestFirst(bs)
    PROVE  /\ queue \in Seq(bs) /\ Len(queue) = Cardinality(bs) /\ Cardinality(bs) \in Nat
           /\ \A i, j \in DOMAIN queue : queue[i] = queue[j] => i = j
<1>1. IsFiniteSet(bs) /\ Cardinality(bs) \in Nat
  BY Places, FS_Subset, FS_CardinalityType
<1>2. /\ queue \in [1..Cardinality(bs) -> bs]
      /\ \A i, j \in 1..Cardinality(bs) :
           i < j => Priority[view][queue[i]] < Priority[view][queue[j]]
  BY <1>1 DEF NearestFirst
<1>3. ASSUME NEW i \in 1..Cardinality(bs), NEW j \in 1..Cardinality(bs), queue[i] = queue[j]
      PROVE  i = j
  <2>1. Priority[view][queue[i]] \in Int
    BY <1>2, Places
  <2> QED BY <1>1, <1>2, <1>3, <2>1
<1> QED BY <1>1, <1>2, <1>3

\* A scan takes no more slots than there are: before the last block that it
\* sends one was left.
LEMMA SlotsLeft ==
    ASSUME view \in Views, NEW c, c.sending \in SUBSET Blocks,
           Cardinality(c.sending) <= MaxSimulSends, NEW usually \in 1..MaxSimulSends,
           NEW verdict, verdict = Verdict(c), NEW stops, stops = Stops(c, verdict, usually),
           NEW bs \in SUBSET Reached(verdict, stops, "send")
    PROVE  Cardinality(c.sending \cup bs) <= MaxSimulSends
<1> DEFINE selected == Reached(verdict, stops, "send")
           B(b) == Before(verdict, b, "send")
<1>1. DOMAIN verdict \subseteq Blocks
  BY Verdicts
<1>2. /\ \A b \in selected : b \in DOMAIN verdict /\ verdict[b] = "send"
      /\ \A b \in selected : \A q \in stops : Rank[view][b] < Rank[view][q]
  BY DEF Reached
<1>3. \A b : \A q \in DOMAIN verdict : q \in B(b) <=> verdict[q] = "send" /\ Rank[view][q] < Rank[view][b]
  BY DEF Before
<1>4. \A b : B(b) \in SUBSET Blocks
  BY <1>1 DEF Before
<1>5. /\ selected \in SUBSET Blocks /\ IsFiniteSet(selected) /\ IsFiniteSet(c.sending)
      /\ \A b : IsFiniteSet(B(b))
  <2>1. \A S \in SUBSET Blocks : IsFiniteSet(S)
    BY Places, FS_Subset
  <2>2. selected \in SUBSET Blocks
    BY <1>1, <1>2
  <2> HIDE DEF selected, B
  <2> QED BY <1>4, <2>1, <2>2
<1> HIDE DEF selected, B
<1>6. /\ \A b : Cardinality(B(b)) \in Nat /\ Cardinality(B(b)) <= Cardinality(Blocks)
      /\ Cardinality(Blocks) \in Nat /\ Cardinality(c.sending) \in Nat
  BY <1>4, <1>5, Places, FS_Subset, FS_CardinalityType
<1>7. CASE selected = {}
  <2>1. c.sending \cup bs = c.sending
    BY <1>7 DEF selected
  <2> QED BY <2>1
<1>8. CASE selected # {}
  <2> DEFINE left(b) == Cardinality(Blocks) - Cardinality(B(b))
             N == {left(b) : b \in selected}
  <2>1. N \in SUBSET Nat /\ N # {}
    BY <1>6, <1>8
  <2>2. PICK b \in selected : \A q \in selected : left(b) <= left(q)
    <3>1. PICK m \in N : \A n \in N : m <= n
      <4> HIDE DEF N
      <4> QED BY <2>1, LeastNumber
    <3>2. PICK b \in selected : m = left(b)
      OBVIOUS
    <3> QED BY <3>1, <3>2
  <2>3. \A q \in selected : Cardinality(B(q)) <= Cardinality(B(b))
    BY <1>6, <2>2
  <2> HIDE DEF left, N
  <2>4. ASSUME NEW q \in selected, q # b PROVE q \in B(b)
    <3>1. Rank[view][b] \in Int /\ Rank[view][q] \in Int /\ Rank[view][b] # Rank[view][q]
      BY <1>5, <2>4, Places
    <3>2. CASE Rank[view][q] < Rank[view][b]
      BY <1>2, <1>3, <3>2
    <3>3. CASE Rank[view][b] < Rank[view][q]
      <4>1. B(b) \cup {b} \in SUBSET B(q)
        <5>1. b \in B(q)
          BY <1>2, <1>3, <3>3
        <5>2. ASSUME NEW r \in B(b) PROVE r \in B(q)
          <6>1. /\ r \in DOMAIN verdict /\ verdict[r] = "send" /\ Rank[view][r] < Rank[view][b]
            BY <5>2 DEF B, Before
          <6>2. Rank[view][r] \in Int
            BY <1>1, <6>1, Places
          <6> QED BY <1>3, <3>1, <3>3, <6>1, <6>2
        <5> QED BY <5>1, <5>2
      <4>2. b \notin B(b)
        BY <3>1 DEF B, Before
      <4>3. Cardinality(B(b) \cup {b}) = Cardinality(B(b)) + 1
        BY <1>5, <4>2, FS_AddElement
      <4>4. Cardinality(B(b) \cup {b}) <= Cardinality(B(q))
        BY <1>5, <4>1, FS_Subset
      <4> QED BY <1>6, <2>3, <2>4, <4>3, <4>4
    <3> QED BY <3>1, <3>2, <3>3
  <2>5. bs \in SUBSET (B(b) \cup {b})
    BY <2>4 DEF selected
  <2>6. Cardinality(c.sending) + Cardinality(B(b)) < MaxSimulSends
    <3>1. b \notin stops
      <4>1. Rank[view][b] \in Int
        BY <1>5, Places
      <4> QED BY <1>2, <4>1
    <3>2. ~SendingFull(c, verdict, usually, b)
      BY <1>2, <3>1, Zenon DEF Stops
    <3>3. ~(Cardinality(c.sending) + Cardinality(B(b))
              >= IF Distance[view][b] <= BLOCK_ALWAYS_SEND_MAX_D THEN MaxSimulSends ELSE usually)
      BY <3>2, Zenon DEF SendingFull, B
    <3> QED BY <1>6, <3>3, Numbers
  <2>7. /\ IsFiniteSet(bs) /\ Cardinality(bs) \in Nat
        /\ Cardinality(bs) <= Cardinality(B(b)) + 1
    <3>1. IsFiniteSet(B(b) \cup {b}) /\ Cardinality(B(b) \cup {b}) <= Cardinality(B(b)) + 1
      <4>1. /\ IsFiniteSet(B(b) \cup {b})
            /\ Cardinality(B(b) \cup {b}) = IF b \in B(b) THEN Cardinality(B(b))
                                            ELSE Cardinality(B(b)) + 1
        BY <1>5, FS_AddElement
      <4> QED BY <1>6, <4>1
    <3>2. IsFiniteSet(bs) /\ Cardinality(bs) <= Cardinality(B(b) \cup {b})
      BY <2>5, <3>1, FS_Subset
    <3> QED BY <1>6, <3>1, <3>2, FS_CardinalityType
  <2>8. Cardinality(c.sending \cup bs) <= Cardinality(c.sending) + Cardinality(bs)
    <3>1. Cardinality(c.sending \cup bs)
            = Cardinality(c.sending) + Cardinality(bs) - Cardinality(c.sending \cap bs)
      BY <1>5, <2>7, FS_Union
    <3>2. IsFiniteSet(c.sending \cap bs)
      <4>1. c.sending \cap bs \in SUBSET c.sending
        OBVIOUS
      <4> QED BY <1>5, <4>1, FS_Subset
    <3>3. Cardinality(c.sending \cap bs) \in Nat
      BY <3>2, FS_CardinalityType
    <3> QED BY <1>6, <2>7, <3>1, <3>3
  <2>9. Cardinality(c.sending \cup bs) \in Nat
    BY <1>5, <2>7, FS_Union, FS_CardinalityType
  <2> QED BY <1>6, <2>6, <2>7, <2>8, <2>9, Numbers
<1> QED BY <1>7, <1>8

LEMMA Scan ==
    ASSUME client \in BlockClient, view \in Views, SendBlocks
    PROVE  \E sent : Scanned(sent)
<1>1. PICK c, verdict, stops, asked, queue, sent :
         ScanOf(c, verdict, stops, asked, queue, sent)
  BY ScanSteps
<1> DEFINE selected == Reached(verdict, stops, "send")
           culled == Reached(verdict, stops, "cull")
           room == MaxBlocksToSend - Cardinality(c.sending)
<1>2. /\ c = LookAround(client) /\ verdict = Verdict(c)
      /\ stops \subseteq DOMAIN verdict /\ asked \subseteq DOMAIN verdict
      /\ queue \in NearestFirst(selected)
      /\ sent = IF room < Len(queue) THEN SubSeq(queue, 1, room) ELSE queue
      /\ down' = [down EXCEPT ![2] = @ \o [i \in DOMAIN sent |-> BlockData(sent[i])]]
      /\ client' = SentBlocks(EndScan(c, verdict, asked, stops), Range(sent))
  BY <1>1, Zenon DEF ScanOf
<1>3. /\ c \in BlockClient /\ c.sending = client.sending /\ c.sent = client.sent
      /\ DOMAIN verdict \subseteq Blocks
      /\ \A b \in DOMAIN verdict : verdict[b] = "send" => b \notin c.sending \cup c.sent
  BY <1>2, LookingAround, Verdicts
<1>4. /\ selected \subseteq DOMAIN verdict /\ culled \subseteq DOMAIN verdict
      /\ \A b \in selected : b \in Blocks \ (client.sending \cup client.sent)
  BY <1>3 DEF Reached
<1>5. NewNearest(c, asked, stops, selected) \in 0..FullDMax
  BY <1>2, <1>4, ScanNearest
<1> HIDE DEF selected, culled
<1>6. /\ queue \in Seq(selected) /\ Len(queue) \in Nat
      /\ \A i, j \in DOMAIN queue : queue[i] = queue[j] => i = j
  BY <1>2, <1>4, InOrder
<1>7. room \in Int
  <2>1. IsFiniteSet(c.sending)
    BY <1>3, Places, FS_Subset DEF BlockClient
  <2> QED BY <2>1, FS_CardinalityType, Numbers
<1>8. /\ sent \in Seq(selected) /\ DOMAIN sent \subseteq DOMAIN queue
      /\ \A i \in DOMAIN sent : sent[i] = queue[i]
  <2> HIDE DEF room
  <2>1. CASE room < Len(queue)
    <3>1. /\ sent \in Seq(selected)
          /\ Len(sent) = IF 1 <= room THEN room - 1 + 1 ELSE 0
          /\ \A i \in 1..room - 1 + 1 : sent[i] = queue[1 + i - 1]
      <4>1. \A i \in 1..room : i \in 1..Len(queue)
        BY <1>6, <1>7, <2>1
      <4>2. sent = SubSeq(queue, 1, room)
        BY <1>2, <2>1
      <4> QED BY <1>6, <1>7, <4>1, <4>2, SubSeqProperties
    <3>2. DOMAIN sent = 1..Len(sent) /\ DOMAIN queue = 1..Len(queue)
      BY <1>6, <3>1
    <3> QED BY <1>6, <1>7, <2>1, <3>1, <3>2
  <2>2. CASE ~(room < Len(queue))
    BY <1>2, <1>6, <2>2
  <2> QED BY <2>1, <2>2
<1>9. \A i \in DOMAIN sent : sent[i] \in Blocks \ (client.sending \cup client.sent)
  BY <1>4, <1>8
<1>10. sent \in Seq(Blocks) /\ Range(sent) \subseteq Blocks
  BY <1>8, <1>9 DEF Range
<1>11. \A i, j \in DOMAIN sent : sent[i] = sent[j] => i = j
  BY <1>6, <1>8
<1>12. /\ client' \in BlockClient
       /\ client'.sending = client.sending \cup Range(sent) /\ client'.sent = client.sent
  <2> DEFINE nearest == NewNearest(c, asked, stops, selected)
             occ == IF nearest # c.nearest THEN {} ELSE c.occ \cup culled
             paused == Completed(c, asked, stops)
  <2>1. EndScan(c, verdict, asked, stops)
          = [c EXCEPT !.nearest = nearest, !.paused = paused, !.occ = occ]
    BY Zenon DEF EndScan, selected, culled
  <2>2. occ \subseteq Blocks /\ paused \in BOOLEAN
    BY <1>3, <1>4 DEF BlockClient, Completed
  <2> HIDE DEF nearest, occ, paused
  <2>3. client' = [sending |-> c.sending \cup Range(sent), sent |-> c.sent, occ |-> occ,
                   nearest |-> nearest, view |-> c.view, paused |-> paused]
    BY <1>2, <1>3, <2>1 DEF SentBlocks, BlockClient
  <2> QED BY <1>3, <1>5, <1>10, <2>2, <2>3 DEF BlockClient, nearest
<1>13. \A i \in DOMAIN sent : sent[i] \notin client.sending \cup client.sent
  BY <1>9
<1>14. Cardinality(client.sending) <= MaxSimulSends => Cardinality(client'.sending) <= MaxSimulSends
  <2>1. PICK usually \in 1..MaxSimulSends : stops = Stops(c, verdict, usually)
    BY <1>1, Zenon DEF ScanOf
  <2> DEFINE bs == Range(sent)
  <2>2. bs \in SUBSET Reached(verdict, stops, "send") /\ c.sending \in SUBSET Blocks
    BY <1>3, <1>8 DEF Range, selected, BlockClient
  <2> HIDE DEF bs
  <2>3. Cardinality(c.sending) <= MaxSimulSends => Cardinality(c.sending \cup bs) <= MaxSimulSends
    BY <1>2, <2>1, <2>2, SlotsLeft
  <2> QED BY <1>3, <1>12, <2>3 DEF bs
<1> QED BY <1>2, <1>10, <1>11, <1>12, <1>13, <1>14, Zenon DEF Scanned

-----------------------------------------------------------------------------
(* The block transfer: announcing events                                   *)

NodePacket(e) == [type |-> "node", block |-> e.block, change |-> e.change]
Pair(c, d) == [client |-> c, down |-> d]

\* Event e is told to the client by a packet, or as blocks that are not sent.
LEMMA Announcing ==
    ASSUME NEW c, NEW d, NEW e \in NodeEvents \cup OtherEvents, NEW far \in BOOLEAN
    PROVE  /\ e.type = "node" /\ e.block \in c.sent /\ ~far =>
                 Announce(Pair(c, d), e, far) = Pair(c, Send(d, NodePacket(e)))
           /\ ~(e.type = "node" /\ e.block \in c.sent /\ ~far) =>
                 Announce(Pair(c, d), e, far)
                    = Pair(SetBlocksNotSent(c, e.modified_blocks, e.low_priority), d)
BY DEF Announce, Pair, NodePacket, NodeEvents, OtherEvents

LEMMA Sending ==
    ASSUME NEW d, Downward(d), NEW p \in DownPacket
    PROVE  /\ Downward(Send(d, p))
           /\ Send(d, p)[DownChannel(p)] = Append(d[DownChannel(p)], p)
           /\ \A ch \in {0, 2} : ch # DownChannel(p) => Send(d, p)[ch] = d[ch]
<1>1. DownChannel(p) \in {0, 2}
  BY DEF DownChannel
<1>2. Append(d[DownChannel(p)], p) \in Seq(DownPacket)
  BY <1>1 DEF Downward
<1> HIDE DEF DownPacket
<1> QED BY <1>1, <1>2 DEF Downward, Send

\* The client and the packets after the events so far, as SendEvents has them.
AfterEvents(f, far, n) ==
    f = [k \in 0..n |-> IF k = 0 THEN Pair(client, down) ELSE Announce(f[k - 1], events[k], far)]

LEMMA EventsAnnounced ==
    ASSUME NEW n \in Nat, NEW far
    PROVE  \E f : AfterEvents(f, far, n)
<1> DEFINE Bad == {k \in Nat : ~\E f : AfterEvents(f, far, k)}
<1> SUFFICES ASSUME Bad # {} PROVE FALSE
  OBVIOUS
<1>1. PICK m \in Bad : \A k \in Bad : m <= k
  <2>1. Bad \in SUBSET Nat
    OBVIOUS
  <2> HIDE DEF Bad
  <2> QED BY <2>1, LeastNumber
<1>2. m \in Nat /\ ~\E f : AfterEvents(f, far, m)
  OBVIOUS
<1>3. CASE m = 0
  <2> DEFINE f == [k \in 0..0 |-> Pair(client, down)]
  <2>1. f = [k \in 0..0 |-> IF k = 0 THEN Pair(client, down)
                            ELSE Announce(f[k - 1], events[k], far)]
    OBVIOUS
  <2> HIDE DEF f
  <2>2. AfterEvents(f, far, m)
    BY <1>3, <2>1 DEF AfterEvents
  <2> QED BY <1>2, <2>2
<1>4. CASE m # 0
  <2>1. m - 1 \in Nat /\ ~(m <= m - 1)
    BY <1>2, <1>4
  <2>2. PICK g : AfterEvents(g, far, m - 1)
    <3>1. m - 1 \notin Bad
      BY <1>1, <2>1
    <3> QED BY <2>1, <3>1
  <2> DEFINE f == [k \in 0..m |-> IF k = m THEN Announce(g[m - 1], events[m], far) ELSE g[k]]
  <2>3. \A k \in 0..m - 1 : g[k] = IF k = 0 THEN Pair(client, down)
                                   ELSE Announce(g[k - 1], events[k], far)
    BY <2>2 DEF AfterEvents
  <2>4. \A k \in 0..m : f[k] = IF k = 0 THEN Pair(client, down)
                               ELSE Announce(f[k - 1], events[k], far)
    <3> SUFFICES ASSUME NEW k \in 0..m
                 PROVE  f[k] = IF k = 0 THEN Pair(client, down)
                               ELSE Announce(f[k - 1], events[k], far)
      OBVIOUS
    <3>1. k # 0 => k - 1 \in 0..m /\ k - 1 # m
      BY <1>2
    <3>2. k # m => k \in 0..m - 1
      BY <1>2
    <3> QED BY <1>4, <2>3, <3>1, <3>2
  <2>5. AfterEvents(f, far, m)
    <3>1. f = [k \in 0..m |-> f[k]]
      OBVIOUS
    <3> HIDE DEF f
    <3> QED BY <2>4, <3>1 DEF AfterEvents
  <2> QED BY <1>2, <2>5
<1> QED BY <1>3, <1>4

LEMMA EventSteps ==
    ASSUME SendEvents, events \in Seq(NodeEvents \cup OtherEvents)
    PROVE  \E far, f :
             /\ far \in BOOLEAN /\ f[0] = Pair(client, down)
             /\ \A k \in 1..Len(events) : f[k] = Announce(f[k - 1], events[k], far)
             /\ client' = f[Len(events)].client /\ down' = f[Len(events)].down
<1>1. PICK far \in BOOLEAN :
        LET after[n \in 0..Len(events)] ==
              IF n = 0 THEN [client |-> client, down |-> down]
              ELSE Announce(after[n - 1], events[n], far)
        IN client' = after[Len(events)].client /\ down' = after[Len(events)].down
  BY Zenon DEF SendEvents
<1> DEFINE after == CHOOSE f : AfterEvents(f, far, Len(events))
<1>2. client' = after[Len(events)].client /\ down' = after[Len(events)].down
  BY <1>1, Zenon DEF AfterEvents, Pair
<1>3. Len(events) \in Nat
  OBVIOUS
<1>4. AfterEvents(after, far, Len(events))
  BY <1>3, EventsAnnounced, Zenon
<1> HIDE DEF after
<1>5. \A k \in 0..Len(events) : after[k] = IF k = 0 THEN Pair(client, down)
                                           ELSE Announce(after[k - 1], events[k], far)
  BY <1>4, Zenon DEF AfterEvents
<1>6. after[0] = Pair(client, down)
      /\ \A k \in 1..Len(events) : after[k] = Announce(after[k - 1], events[k], far)
  <2>1. 0 \in 0..Len(events) /\ \A k \in 1..Len(events) : k \in 0..Len(events) /\ k # 0
    BY <1>3
  <2> QED BY <1>5, <2>1, Zenon
<1> QED BY <1>2, <1>6, Zenon

\* Induction to a bound, with the set of the numbers for which it holds.
LEMMA UpTo ==
    ASSUME NEW L \in Nat, NEW S, 0 \in S, \A k \in 1..L : k - 1 \in S => k \in S
    PROVE  \A k \in 0..L : k \in S
<1> DEFINE Bad == {k \in 0..L : k \notin S}
<1> SUFFICES ASSUME Bad # {} PROVE FALSE
  OBVIOUS
<1>1. PICK m \in Bad : \A k \in Bad : m <= k
  <2>1. Bad \in SUBSET Nat
    OBVIOUS
  <2> HIDE DEF Bad
  <2> QED BY <2>1, LeastNumber
<1>2. m \in 1..L /\ m - 1 \in 0..L /\ m - 1 \notin Bad
  BY <1>1
<1>3. m - 1 \in S
  BY <1>2
<1> QED BY <1>1, <1>2, <1>3

LEMMA AnnounceTypes ==
    ASSUME NEW c \in BlockClient, c.sending \cap c.sent = {}, NEW d, Downward(d),
           NEW e \in NodeEvents \cup OtherEvents, NEW far \in BOOLEAN,
           NEW s, s = Announce(Pair(c, d), e, far)
    PROVE  /\ s = Pair(s.client, s.down)
           /\ s.client \in BlockClient /\ s.client.sending \cap s.client.sent = {}
           /\ Downward(s.down)
<1>1. CASE e.type = "node" /\ e.block \in c.sent /\ ~far
  <2>1. s = Pair(c, Send(d, NodePacket(e)))
    BY <1>1, Announcing
  <2>2. NodePacket(e) \in DownPacket
    BY <1>1 DEF NodePacket, DownPacket, NodeEvents, OtherEvents
  <2>3. Downward(Send(d, NodePacket(e)))
    BY <2>2, Sending
  <2> QED BY <2>1, <2>3 DEF Pair
<1>2. CASE ~(e.type = "node" /\ e.block \in c.sent /\ ~far)
  <2> DEFINE bs == e.modified_blocks
             low_priority == e.low_priority
             c2 == SetBlocksNotSent(c, bs, low_priority)
  <2>1. s = Pair(c2, d)
    BY <1>2, Announcing, Zenon
  <2>2. bs \in SUBSET Blocks
    BY DEF NodeEvents, OtherEvents
  <2> HIDE DEF bs, low_priority
  <2>3. c2 = SetBlocksNotSent(c, bs, low_priority)
    OBVIOUS
  <2> HIDE DEF c2
  <2>4. c2 \in BlockClient /\ c2.sending \cap c2.sent = {}
    BY <2>2, <2>3, NotSentTypes
  <2> QED BY <2>1, <2>4 DEF Pair
<1> QED BY <1>1, <1>2

LEMMA EventsTypes ==
    ASSUME TransferTypes, NEW far \in BOOLEAN, NEW f, f[0] = Pair(client, down),
           \A k \in 1..Len(events) : f[k] = Announce(f[k - 1], events[k], far)
    PROVE  \A k \in 0..Len(events) :
             /\ f[k] = Pair(f[k].client, f[k].down)
             /\ f[k].client \in BlockClient /\ f[k].client.sending \cap f[k].client.sent = {}
             /\ Downward(f[k].down)
<1> DEFINE Holds(s) == /\ s = Pair(s.client, s.down)
                       /\ s.client \in BlockClient /\ s.client.sending \cap s.client.sent = {}
                       /\ Downward(s.down)
           S == {k \in 0..Len(events) : Holds(f[k])}
<1>1. Len(events) \in Nat /\ \A k \in 1..Len(events) : events[k] \in NodeEvents \cup OtherEvents
  BY DEF TransferTypes
<1>2. 0 \in S
  <2>1. Holds(f[0])
    BY DEF TransferTypes, Pair
  <2> QED BY <1>1, <2>1
<1>3. ASSUME NEW k \in 1..Len(events), k - 1 \in S PROVE k \in S
  <2>1. Holds(f[k - 1])
    BY <1>3
  <2>2. f[k] = Announce(Pair(f[k - 1].client, f[k - 1].down), events[k], far)
    BY <2>1
  <2>3. Holds(f[k])
    <3> DEFINE c == f[k - 1].client
               d == f[k - 1].down
               s == f[k]
    <3>1. /\ c \in BlockClient /\ c.sending \cap c.sent = {} /\ Downward(d)
          /\ s = Announce(Pair(c, d), events[k], far) /\ events[k] \in NodeEvents \cup OtherEvents
      BY <1>1, <2>1, <2>2, Zenon
    <3> HIDE DEF c, d, s
    <3>2. Holds(s)
      BY <3>1, AnnounceTypes
    <3> QED BY <3>2 DEF s
  <2> QED BY <1>1, <2>3
<1> HIDE DEF S
<1>4. \A k \in 0..Len(events) : k \in S
  BY <1>1, <1>2, <1>3, UpTo
<1> QED BY <1>4 DEF S

-----------------------------------------------------------------------------
(* The block transfer: types                                               *)

Upward(u) == DOMAIN u = {0, 2} /\ u[0] \in Seq(Interactions) /\ u[2] \in Seq(Answers)

LEMMA HeadAndTail ==
    ASSUME NEW S, NEW s \in Seq(S), s # <<>>
    PROVE  /\ Head(s) \in S /\ Head(s) = s[1] /\ Tail(s) \in Seq(S)
           /\ DOMAIN s = 1..Len(s) /\ Len(s) \in Nat \ {0}
           /\ DOMAIN Tail(s) = 1..Len(s) - 1
           /\ \A i \in 1..Len(s) - 1 : Tail(s)[i] = s[i + 1]
OBVIOUS

LEMMA Appended ==
    ASSUME NEW S, NEW s \in Seq(S), NEW x \in S
    PROVE  /\ Append(s, x) \in Seq(S) /\ DOMAIN s = 1..Len(s) /\ Len(s) \in Nat
           /\ DOMAIN Append(s, x) = 1..Len(s) + 1
           /\ \A i \in 1..Len(s) : Append(s, x)[i] = s[i]
           /\ Append(s, x)[Len(s) + 1] = x
OBVIOUS

LEMMA ClientOps ==
    ASSUME NEW c \in BlockClient, c.sending \cap c.sent = {}, NEW b \in Blocks,
           NEW low_priority, NEW c2,
           \/ c2 = SetBlockNotSent(c, b, low_priority)
           \/ c2 = ResendBlockIfOnWire(c, b)
           \/ c2 = GotBlock(c, b)
    PROVE  c2 \in BlockClient /\ c2.sending \cap c2.sent = {}
<1>1. ASSUME NEW low, c2 = SetBlockNotSent(c, b, low)
      PROVE  c2 \in BlockClient /\ c2.sending \cap c2.sent = {}
  <2> DEFINE bs == {b}
  <2>1. bs \in SUBSET Blocks /\ c2 = SetBlocksNotSent(c, bs, low)
    BY <1>1 DEF SetBlockNotSent
  <2> HIDE DEF bs
  <2> QED BY <2>1, NotSentTypes
<1>2. CASE c2 = ResendBlockIfOnWire(c, b)
  BY <1>1, <1>2 DEF ResendBlockIfOnWire
<1>3. CASE c2 = GotBlock(c, b)
  <2>1. CASE b \in c.sending
    <3>1. c2 = [sending |-> c.sending \ {b}, sent |-> c.sent \cup {b}, occ |-> c.occ,
                nearest |-> c.nearest, view |-> c.view, paused |-> c.paused]
      BY <1>3, <2>1 DEF GotBlock, BlockClient
    <3> QED BY <3>1 DEF BlockClient
  <2>2. CASE b \notin c.sending
    BY <1>3, <2>2 DEF GotBlock
  <2> QED BY <2>1, <2>2
<1> QED BY <1>1, <1>2, <1>3

LEMMA HandledUp ==
    ASSUME TransferTypes, NEW ch \in {0, 2}, NEW type, HandleUp(ch, type)
    PROVE  /\ Upward(up') /\ up[ch] # <<>> /\ Head(up[ch]).type = type
           /\ ch = 0 => up'[0] = Tail(up[0]) /\ up'[2] = up[2] /\ Head(up[0]) \in Interactions
           /\ ch = 2 => up'[2] = Tail(up[2]) /\ up'[0] = up[0] /\ Head(up[2]) \in Answers
           /\ UNCHANGED <<memory, emerging, view, shown, acks, down, changes>>
<1>1. up[ch] # <<>> /\ Head(up[ch]).type = type /\ up' = [up EXCEPT ![ch] = Tail(up[ch])]
      /\ UNCHANGED <<memory, emerging, view, shown, acks, down, changes>>
  BY DEF HandleUp, clientVars
<1>2. DOMAIN up = {0, 2} /\ up[0] \in Seq(Interactions) /\ up[2] \in Seq(Answers)
  BY DEF TransferTypes
<1>3. CASE ch = 0
  <2>1. Tail(up[0]) \in Seq(Interactions) /\ Head(up[0]) \in Interactions
    BY <1>1, <1>2, <1>3, HeadAndTail
  <2> QED BY <1>1, <1>2, <1>3, <2>1 DEF Upward
<1>4. CASE ch = 2
  <2>1. Tail(up[2]) \in Seq(Answers) /\ Head(up[2]) \in Answers
    BY <1>1, <1>2, <1>4, HeadAndTail
  <2> QED BY <1>1, <1>2, <1>4, <2>1 DEF Upward
<1> QED BY <1>3, <1>4

LEMMA HandledDown ==
    ASSUME TransferTypes, NEW ch \in {0, 2}, NEW type, HandleDown(ch, type)
    PROVE  /\ Downward(down') /\ down[ch] # <<>> /\ Head(down[ch]).type = type
           /\ Head(down[ch]) \in DownPacket
           /\ down'[ch] = Tail(down[ch]) /\ \A c \in {0, 2} : c # ch => down'[c] = down[c]
           /\ UNCHANGED <<memory, content, emerging, events, view, client, up, changes>>
<1>1. down[ch] # <<>> /\ Head(down[ch]).type = type /\ down' = [down EXCEPT ![ch] = Tail(down[ch])]
      /\ UNCHANGED <<memory, content, emerging, events, view, client, up, changes>>
  BY DEF HandleDown, serverVars
<1>2. DOMAIN down = {0, 2} /\ down[ch] \in Seq(DownPacket)
  BY DEF TransferTypes, Downward
<1>3. Tail(down[ch]) \in Seq(DownPacket) /\ Head(down[ch]) \in DownPacket
  BY <1>1, <1>2, HeadAndTail
<1> HIDE DEF DownPacket
<1> QED BY <1>1, <1>2, <1>3 DEF Downward, TransferTypes

LEMMA SentUp ==
    ASSUME TransferTypes, NEW ch \in {0, 2}, NEW p, SendUp(ch, p),
           ch = 0 => p \in Interactions, ch = 2 => p \in Answers
    PROVE  /\ Upward(up') /\ up'[ch] = Append(up[ch], p)
           /\ \A c \in {0, 2} : c # ch => up'[c] = up[c]
<1>1. up' = [up EXCEPT ![ch] = Append(up[ch], p)]
  BY DEF SendUp
<1>2. DOMAIN up = {0, 2} /\ up[0] \in Seq(Interactions) /\ up[2] \in Seq(Answers)
  BY DEF TransferTypes
<1>3. CASE ch = 0
  <2>1. Append(up[0], p) \in Seq(Interactions)
    BY <1>2, <1>3, Appended
  <2> QED BY <1>1, <1>2, <1>3, <2>1 DEF Upward
<1>4. CASE ch = 2
  <2>1. Append(up[2], p) \in Seq(Answers)
    BY <1>2, <1>4, Appended
  <2> QED BY <1>1, <1>2, <1>4, <2>1 DEF Upward
<1> QED BY <1>3, <1>4

LEMMA NewChanges ==
    ASSUME TransferTypes, Disturb
    PROVE  NewChange \in Changes /\ changes' \in 0..MaxChanges
BY Numbers DEF TransferTypes, MapTypes, Disturb, NewChange, Changes

LEMMA SendBlocksTypes == ASSUME TransferTypes, SendBlocks PROVE TransferTypes'
<1>1. /\ client \in BlockClient /\ view \in Views /\ client.sending \cap client.sent = {}
      /\ content \in [Blocks -> SUBSET Changes] /\ Downward(down)
  BY DEF TransferTypes, MapTypes
<1>2. PICK sent : Scanned(sent)
  BY <1>1, Scan
<1> DEFINE packets == [i \in DOMAIN sent |-> BlockData(sent[i])]
<1>3. sent \in Seq(Blocks) /\ \A i \in DOMAIN sent : BlockData(sent[i]) \in DownPacket
  BY <1>1, <1>2 DEF Scanned, BlockData, DownPacket
<1>4. packets \in Seq(DownPacket)
  <2> HIDE DEF DownPacket
  <2> QED BY <1>3
<1>5. down' = [down EXCEPT ![2] = @ \o packets]
  BY <1>2 DEF Scanned
<1> HIDE DEF packets
<1>6. Downward(down')
  <2>1. down[2] \o packets \in Seq(DownPacket)
    BY <1>1, <1>4, ConcatProperties DEF Downward
  <2> HIDE DEF DownPacket
  <2> QED BY <1>1, <1>5, <2>1 DEF Downward
<1>7. client' \in BlockClient /\ client'.sending \cap client'.sent = {}
  BY <1>1, <1>2 DEF Scanned, Range
<1>8. emerging' \in [Blocks -> {"no", "disk_only", "generate"}]
  <2>1. PICK c, verdict, stops, asked, queue, s : ScanOf(c, verdict, stops, asked, queue, s)
    BY ScanSteps
  <2> QED BY <2>1 DEF ScanOf, TransferTypes, MapTypes
<1>9. UNCHANGED <<memory, content, events, view, shown, acks, up, changes>>
  BY DEF SendBlocks, clientVars
<1> QED BY <1>6, <1>7, <1>8, <1>9 DEF TransferTypes, MapTypes

LEMMA SendEventsTypes == ASSUME TransferTypes, SendEvents PROVE TransferTypes'
<1>1. events \in Seq(NodeEvents \cup OtherEvents) /\ Len(events) \in Nat
  BY DEF TransferTypes
<1>2. PICK far, f :
        /\ far \in BOOLEAN /\ f[0] = Pair(client, down)
        /\ \A k \in 1..Len(events) : f[k] = Announce(f[k - 1], events[k], far)
        /\ client' = f[Len(events)].client /\ down' = f[Len(events)].down
  BY <1>1, EventSteps
<1>3. client' \in BlockClient /\ client'.sending \cap client'.sent = {} /\ Downward(down')
  <2>1. Len(events) \in 0..Len(events)
    BY <1>1
  <2> QED BY <1>2, <2>1, EventsTypes
<1>4. events' = <<>> /\ UNCHANGED <<memory, content, emerging, view, shown, acks, up, changes>>
  BY DEF SendEvents, clientVars
<1> QED BY <1>3, <1>4 DEF TransferTypes, MapTypes

\* An event is queued; nothing else but the map changes.
LEMMA EventTypes ==
    ASSUME TransferTypes, MapTypes', NEW e \in NodeEvents \cup OtherEvents,
           events' = Append(events, e) \/ UNCHANGED events,
           UNCHANGED <<client, down, up, shown, acks>>
    PROVE  TransferTypes'
<1> DEFINE S == NodeEvents \cup OtherEvents
<1>1. events' \in Seq(S)
  <2>1. events \in Seq(S) /\ e \in S
    BY DEF TransferTypes
  <2> HIDE DEF S
  <2> QED BY <2>1, Appended
<1> QED BY <1>1 DEF TransferTypes

LEMMA EventIsTyped ==
    ASSUME NEW b \in Blocks, NEW k \in Changes, NEW bs \in SUBSET Blocks, NEW low \in BOOLEAN
    PROVE  /\ NodeEvent(b, k, bs) \in NodeEvents \cup OtherEvents
           /\ OtherEvent(bs, low) \in NodeEvents \cup OtherEvents
BY DEF NodeEvent, OtherEvent, NodeEvents, OtherEvents

LEMMA EmergeTypes ==
    ASSUME TransferTypes, NEW b \in Blocks,
           EmergeFromDisk(b) \/ EmergeGenerated(b) \/ EmergeNothingNew(b)
    PROVE  TransferTypes'
<1>1. /\ UNCHANGED <<content, view, client, shown, acks, down, up, changes>>
      /\ emerging' = [emerging EXCEPT ![b] = "no"]
  BY DEF EmergeFromDisk, EmergeGenerated, EmergeNothingNew, Emerged, clientVars
<1>2. MapTypes'
  <2>1. memory' \in [Blocks -> {"absent", "stored", "blank", "generated"}]
    BY DEF EmergeFromDisk, EmergeGenerated, EmergeNothingNew, TransferTypes, MapTypes
  <2> QED BY <1>1, <2>1 DEF TransferTypes, MapTypes
<1>3. \E bs \in SUBSET Blocks : events' = Append(events, OtherEvent(bs, FALSE)) \/ UNCHANGED events
  <2>1. CASE EmergeFromDisk(b)
    BY <2>1 DEF EmergeFromDisk
  <2>2. CASE EmergeGenerated(b)
    <3>1. events' = Append(events, OtherEvent({b} \cup {q \in Border[b] : memory[q] = "absent"}, FALSE))
      BY <2>2 DEF EmergeGenerated
    <3> QED BY <3>1, Places
  <2>3. CASE EmergeNothingNew(b)
    BY <2>3 DEF EmergeNothingNew
  <2> QED BY <2>1, <2>2, <2>3
<1>4. PICK bs \in SUBSET Blocks : events' = Append(events, OtherEvent(bs, FALSE)) \/ UNCHANGED events
  BY <1>3
<1>5. OtherEvent(bs, FALSE) \in NodeEvents \cup OtherEvents
  BY DEF OtherEvent, OtherEvents
<1> QED BY <1>1, <1>2, <1>4, <1>5, EventTypes

LEMMA DisturbTypes ==
    ASSUME TransferTypes, Disturbance
    PROVE  TransferTypes'
<1>1. ASSUME Disturb PROVE NewChange \in Changes /\ changes' \in 0..MaxChanges
  BY <1>1, NewChanges
<1>2. CASE Move \/ RestartScan
  <2>1. client' \in BlockClient /\ client'.sending \cap client'.sent = {}
    <3>1. CASE Move
      BY <3>1 DEF Move, TransferTypes
    <3>2. CASE RestartScan
      <4>1. client' = [sending |-> client.sending, sent |-> client.sent, occ |-> client.occ,
                       nearest |-> 0, view |-> client.view, paused |-> client.paused]
        BY <3>2 DEF RestartScan, TransferTypes, BlockClient
      <4> QED BY <4>1, Numbers DEF TransferTypes, BlockClient
    <3> QED BY <1>2, <3>1, <3>2
  <2>2. MapTypes'
    BY <1>1, <1>2 DEF Move, RestartScan, TransferTypes, MapTypes
  <2>3. UNCHANGED <<events, down, up, shown, acks>>
    BY <1>2 DEF Move, RestartScan, clientVars
  <2> QED BY <2>1, <2>2, <2>3 DEF TransferTypes
<1>3. ASSUME NEW b \in Blocks, SetNode(b) PROVE TransferTypes'
  <2>1. MapTypes'
    BY <1>1, <1>3 DEF SetNode, TransferTypes, MapTypes
  <2>2. PICK bs \in SUBSET Blocks : events' = Append(events, NodeEvent(b, NewChange, bs))
    BY <1>3 DEF SetNode
  <2>3. NodeEvent(b, NewChange, bs) \in NodeEvents \cup OtherEvents
    BY <1>1, <1>3, EventIsTyped DEF SetNode
  <2>4. UNCHANGED <<client, down, up, shown, acks>>
    BY <1>3 DEF SetNode, clientVars
  <2> QED BY <2>1, <2>2, <2>3, <2>4, EventTypes
<1>4. ASSUME NEW b \in Blocks, ModifyBlock(b) PROVE TransferTypes'
  <2>1. MapTypes'
    BY <1>1, <1>4 DEF ModifyBlock, TransferTypes, MapTypes
  <2>2. PICK low \in BOOLEAN : events' = Append(events, OtherEvent({b}, low))
    BY <1>4 DEF ModifyBlock
  <2>3. OtherEvent({b}, low) \in NodeEvents \cup OtherEvents
    BY DEF OtherEvent, OtherEvents
  <2>4. UNCHANGED <<client, down, up, shown, acks>>
    BY <1>4 DEF ModifyBlock, clientVars
  <2> QED BY <2>1, <2>2, <2>3, <2>4, EventTypes
<1>5. ASSUME NEW b \in Blocks, UnloadBlock(b) PROVE TransferTypes'
  BY <1>1, <1>5 DEF UnloadBlock, TransferTypes, MapTypes, clientVars
<1>6. ASSUME NEW b \in Blocks, SendBlock(b) PROVE TransferTypes'
  <2>1. BlockData(b) \in DownPacket
    BY DEF BlockData, DownPacket, TransferTypes, MapTypes
  <2>2. Downward(down') /\ UNCHANGED <<memory, content, emerging, events, view, client, shown, acks, up>>
        /\ Disturb
    BY <1>6, <2>1, Sending DEF SendBlock, TransferTypes, clientVars
  <2> QED BY <1>1, <2>2 DEF TransferTypes, MapTypes
<1>7. ASSUME NEW b \in Blocks, Forget(b) PROVE TransferTypes'
  <2> DEFINE p == [type |-> "deleted", block |-> b]
  <2>1. p \in Answers /\ SendUp(2, p)
    BY <1>7 DEF Forget, Answers
  <2> HIDE DEF p
  <2>2. Upward(up')
    BY <2>1, SentUp
  <2>3. /\ shown' = [shown EXCEPT ![b] = NotLoaded] /\ Disturb
        /\ UNCHANGED <<memory, content, emerging, events, view, client, acks, down>>
    BY <1>7 DEF Forget, serverVars
  <2> QED BY <1>1, <2>2, <2>3 DEF TransferTypes, MapTypes, Upward
<1>8. ASSUME NEW b \in Blocks, NEW p \in Interactions, Disturb, shown[b] # NotLoaded,
             Predict(b), SendUp(0, p), UNCHANGED <<serverVars, acks, down>>
      PROVE  TransferTypes'
  <2>1. Upward(up')
    BY <1>8, SentUp
  <2>2. shown' \in [Blocks -> {NotLoaded} \cup SUBSET Changes]
    BY <1>1, <1>8 DEF Predict, TransferTypes
  <2>3. UNCHANGED <<memory, content, emerging, events, view, client, acks, down>>
    BY <1>8 DEF serverVars
  <2> QED BY <1>1, <1>8, <2>1, <2>2, <2>3 DEF TransferTypes, MapTypes, Upward
<1>9. ASSUME NEW b \in Blocks, PlayerDigs(b) PROVE TransferTypes'
  <2> DEFINE p == [type |-> "dig", under |-> b, change |-> NewChange]
  <2>1. p \in Interactions
    BY <1>1, <1>9 DEF PlayerDigs, Interactions
  <2> QED BY <1>8, <1>9, <2>1 DEF PlayerDigs
<1>10. ASSUME NEW b \in Blocks, NEW above \in Blocks, PlayerPlaces(b, above) PROVE TransferTypes'
  <2> DEFINE p == [type |-> "place", under |-> b, above |-> above, change |-> NewChange]
  <2>1. p \in Interactions
    BY <1>1, <1>10 DEF PlayerPlaces, Interactions
  <2> QED BY <1>8, <1>10, <2>1 DEF PlayerPlaces
<1> QED BY <1>2, <1>3, <1>4, <1>5, <1>6, <1>7, <1>9, <1>10 DEF Disturbance

LEMMA HandlerTypes ==
    ASSUME TransferTypes,
           GotBlocks \/ DeletedBlocks \/ Dig \/ Place \/ PlaceNotAllowed \/ PlaceIgnored
    PROVE  TransferTypes'
<1>1. client \in BlockClient /\ client.sending \cap client.sent = {}
      /\ content \in [Blocks -> SUBSET Changes] /\ events \in Seq(NodeEvents \cup OtherEvents)
  BY DEF TransferTypes, MapTypes
\* what the handlers have in common
<1>2. ASSUME NEW ch \in {0, 2}, NEW type, HandleUp(ch, type),
             client' \in BlockClient, client'.sending \cap client'.sent = {},
             \/ UNCHANGED <<content, events>>
             \/ \E b \in Blocks, k \in Changes : Apply(b, k)
      PROVE  TransferTypes'
  <2>1. Upward(up') /\ UNCHANGED <<memory, emerging, view, shown, acks, down, changes>>
    BY <1>2, HandledUp
  <2>2. content' \in [Blocks -> SUBSET Changes] /\ events' \in Seq(NodeEvents \cup OtherEvents)
    <3>1. ASSUME NEW b \in Blocks, NEW k \in Changes, Apply(b, k)
          PROVE  content' \in [Blocks -> SUBSET Changes] /\ events' \in Seq(NodeEvents \cup OtherEvents)
      <4> DEFINE S == NodeEvents \cup OtherEvents
                 e == NodeEvent(b, k, {b})
      <4>1. e \in S
        BY DEF NodeEvent, NodeEvents
      <4>2. content' = [content EXCEPT ![b] = @ \cup {k}] /\ events' = Append(events, e)
        BY <3>1 DEF Apply
      <4> HIDE DEF S, e
      <4>3. events' \in Seq(S)
        BY <1>1, <4>1, <4>2, Appended DEF S
      <4> QED BY <1>1, <4>2, <4>3 DEF S
    <3> QED BY <1>1, <1>2, <3>1
  <2> QED BY <1>2, <2>1, <2>2 DEF TransferTypes, MapTypes, Upward
<1>3. CASE GotBlocks
  <2>1. HandleUp(2, "got") /\ UNCHANGED <<content, events>>
        /\ client' = GotBlock(client, Head(up[2]).block)
    BY <1>3 DEF GotBlocks
  <2>2. Head(up[2]).block \in Blocks
    BY <2>1, HandledUp DEF Answers
  <2> QED BY <1>1, <1>2, <2>1, <2>2, ClientOps
<1>4. CASE DeletedBlocks
  <2>1. HandleUp(2, "deleted") /\ UNCHANGED <<content, events>>
        /\ client' = SetBlockNotSent(client, Head(up[2]).block, FALSE)
    BY <1>4 DEF DeletedBlocks
  <2>2. Head(up[2]).block \in Blocks
    BY <2>1, HandledUp DEF Answers
  <2> QED BY <1>1, <1>2, <2>1, <2>2, ClientOps
<1>5. CASE Dig
  <2> DEFINE p == Head(up[0])
  <2>1. HandleUp(0, "dig")
    BY <1>5 DEF Dig
  <2>2. p.under \in Blocks /\ p.change \in Changes
    BY <2>1, HandledUp DEF Interactions
  <2>3. /\ client' = ResendBlockIfOnWire(client, p.under) \/ client' = SetBlockNotSent(client, p.under, FALSE)
        /\ Apply(p.under, p.change) \/ UNCHANGED <<content, events>>
    BY <1>5 DEF Dig
  <2> HIDE DEF p
  <2>4. client' \in BlockClient /\ client'.sending \cap client'.sent = {}
    BY <1>1, <2>2, <2>3, ClientOps
  <2> QED BY <1>2, <2>1, <2>2, <2>3, <2>4
<1>6. CASE Place
  <2> DEFINE p == Head(up[0])
             bs == {p.above, p.under}
  <2>1. HandleUp(0, "place")
    BY <1>6 DEF Place
  <2>2. p.under \in Blocks /\ p.above \in Blocks /\ p.change \in Changes
    BY <2>1, HandledUp DEF Interactions
  <2>3. /\ client' = SetBlocksNotSent(client, bs, FALSE)
        /\ Apply(p.above, p.change) \/ UNCHANGED <<content, events>>
    BY <1>6 DEF Place
  <2> HIDE DEF p
  <2>4. bs \in SUBSET Blocks
    BY <2>2
  <2> HIDE DEF bs
  <2>5. client' \in BlockClient /\ client'.sending \cap client'.sent = {}
    BY <1>1, <2>3, <2>4, NotSentTypes
  <2> QED BY <1>2, <2>1, <2>2, <2>3, <2>5
<1>7. CASE PlaceNotAllowed \/ PlaceIgnored
  <2> DEFINE p == Head(up[0])
  <2>1. HandleUp(0, "place") /\ UNCHANGED <<content, events>>
    BY <1>7 DEF PlaceNotAllowed, PlaceIgnored
  <2>2. p.under \in Blocks /\ p.above \in Blocks
    BY <2>1, HandledUp DEF Interactions
  <2>3. \/ client' = SetBlockNotSent(client, p.above, FALSE)
        \/ client' = SetBlockNotSent(client, p.under, FALSE)
    BY <1>7 DEF PlaceNotAllowed, PlaceIgnored
  <2> HIDE DEF p
  <2>4. client' \in BlockClient /\ client'.sending \cap client'.sent = {}
    BY <1>1, <2>2, <2>3, ClientOps
  <2> QED BY <1>2, <2>1, <2>4
<1> QED BY <1>3, <1>4, <1>5, <1>6, <1>7

LEMMA ReceiveTypes ==
    ASSUME TransferTypes, ClientStep
    PROVE  TransferTypes'
<1>1. CASE BlockDataReceived
  <2> DEFINE p == Head(down[2])
  <2>1. /\ HandleDown(2, "block") /\ shown' = [shown EXCEPT ![p.block] = p.content]
        /\ acks' = [acks EXCEPT ![p.block] = @ + 1]
    BY <1>1 DEF BlockDataReceived
  <2>2. /\ Downward(down') /\ p \in DownPacket /\ p.type = "block"
        /\ UNCHANGED <<memory, content, emerging, events, view, client, up, changes>>
    BY <2>1, HandledDown
  <2>3. p.block \in Blocks /\ p.content \in SUBSET Changes
    BY <2>2 DEF DownPacket
  <2> HIDE DEF p
  <2> QED BY <2>1, <2>2, <2>3 DEF TransferTypes, MapTypes
<1>2. ASSUME NEW ch \in {0, 2}, NodeReceived(ch) PROVE TransferTypes'
  <2> DEFINE p == Head(down[ch])
  <2>1. /\ HandleDown(ch, "node") /\ UNCHANGED acks
        /\ shown' = [shown EXCEPT ![p.block] = IF @ = NotLoaded THEN @ ELSE @ \cup {p.change}]
    BY <1>2 DEF NodeReceived
  <2>2. /\ Downward(down') /\ p \in DownPacket /\ p.type = "node"
        /\ UNCHANGED <<memory, content, emerging, events, view, client, up, changes>>
    BY <2>1, HandledDown
  <2>3. p.block \in Blocks /\ p.change \in Changes
    BY <2>2 DEF DownPacket
  <2> HIDE DEF p
  <2> QED BY <2>1, <2>2, <2>3 DEF TransferTypes, MapTypes
<1>3. ASSUME NEW b \in Blocks, MeshDone(b) PROVE TransferTypes'
  <2> DEFINE p == [type |-> "got", block |-> b]
  <2>1. /\ SendUp(2, p) /\ acks[b] > 0 /\ acks' = [acks EXCEPT ![b] = @ - 1]
        /\ UNCHANGED <<memory, content, emerging, events, view, client, shown, down, changes>>
    BY <1>3 DEF MeshDone, serverVars
  <2>2. p \in Answers
    BY DEF Answers
  <2> HIDE DEF p
  <2>3. Upward(up')
    BY <2>1, <2>2, SentUp
  <2> QED BY <2>1, <2>3 DEF TransferTypes, MapTypes, Upward
<1> QED BY <1>1, <1>2, <1>3 DEF ClientStep

LEMMA TransferTypesStep == ASSUME TransferTypes, [BTNext]_btVars PROVE TransferTypes'
<1>1. CASE UNCHANGED btVars
  BY <1>1 DEF btVars, serverVars, clientVars, TransferTypes, MapTypes
<1>2. CASE EndPause
  <2>1. client' = [sending |-> client.sending, sent |-> client.sent, occ |-> client.occ,
                   nearest |-> client.nearest, view |-> client.view, paused |-> FALSE]
        /\ client \in BlockClient
    BY <1>2 DEF EndPause, TransferTypes, BlockClient
  <2>2. client' \in BlockClient /\ client'.sending \cap client'.sent = {}
    BY <2>1 DEF TransferTypes, BlockClient
  <2>3. UNCHANGED <<memory, content, emerging, events, view, shown, acks, down, up, changes>>
    BY <1>2 DEF EndPause, clientVars
  <2> QED BY <2>2, <2>3 DEF TransferTypes, MapTypes
<1>3. CASE SendBlocks
  BY <1>3, SendBlocksTypes
<1>4. CASE SendEvents
  BY <1>4, SendEventsTypes
<1>5. CASE GotBlocks \/ DeletedBlocks \/ Dig \/ Place \/ PlaceNotAllowed \/ PlaceIgnored
  BY <1>5, HandlerTypes
<1>6. CASE EmergeStep
  BY <1>6, EmergeTypes DEF EmergeStep
<1>7. CASE ClientStep
  BY <1>7, ReceiveTypes
<1>8. CASE Disturbance
  BY <1>8, DisturbTypes
<1> QED BY <1>1, <1>2, <1>3, <1>4, <1>5, <1>6, <1>7, <1>8 DEF BTNext, ScanStep, PacketStep

LEMMA TransferTypesInit == BTInit => TransferTypes
<1> SUFFICES ASSUME BTInit PROVE TransferTypes
  OBVIOUS
<1>1. client \in BlockClient /\ client.sending \cap client.sent = {}
  <2>1. 0 \in 0..FullDMax
    BY Numbers
  <2> QED BY <2>1 DEF BTInit, BlockClient
<1>2. Downward(down) /\ Upward(up)
  BY DEF BTInit, Downward, Upward
<1>3. MapTypes /\ events = <<>>
      /\ shown \in [Blocks -> {NotLoaded} \cup SUBSET Changes] /\ acks \in [Blocks -> Nat]
  BY Numbers DEF BTInit, MapTypes
<1> QED BY <1>1, <1>2, <1>3 DEF TransferTypes, Upward

-----------------------------------------------------------------------------
(* The block transfer: every slot waits for something                      *)

IsBlock(d, i, b) == i \in DOMAIN d /\ d[i].type = "block" /\ d[i].block = b

\* Block b is, or an answer about it, on its way between server and client.
IsOnWire(a, d, u, b) ==
    \/ a[b] > 0
    \/ \E i \in DOMAIN d : IsBlock(d, i, b)
    \/ \E i \in DOMAIN u : u[i].block = b

\* s2 goes on where s ends.
Longer(s2, s) == DOMAIN s \subseteq DOMAIN s2 /\ \A i \in DOMAIN s : s2[i] = s[i]

LEMMA LongerSends ==
    ASSUME NEW S, NEW s \in Seq(S), NEW t \in Seq(S)
    PROVE  /\ Longer(s \o t, s)
           /\ DOMAIN (s \o t) = 1..Len(s) + Len(t) /\ Len(s) \in Nat /\ Len(t) \in Nat
           /\ DOMAIN s = 1..Len(s) /\ DOMAIN t = 1..Len(t)
           /\ \A i \in 1..Len(t) : (s \o t)[Len(s) + i] = t[i]
<1>1. /\ Len(s) \in Nat /\ Len(t) \in Nat /\ DOMAIN s = 1..Len(s) /\ DOMAIN t = 1..Len(t)
      /\ Len(s \o t) = Len(s) + Len(t) /\ s \o t \in Seq(S)
      /\ \A i \in 1..Len(s) + Len(t) : (s \o t)[i] = IF i <= Len(s) THEN s[i] ELSE t[i - Len(s)]
  BY ConcatProperties
<1>2. DOMAIN (s \o t) = 1..Len(s) + Len(t)
  BY <1>1
<1>3. \A i \in 1..Len(t) : (s \o t)[Len(s) + i] = t[i]
  BY <1>1
<1> QED BY <1>1, <1>2, <1>3 DEF Longer

LEMMA AppendedLonger ==
    ASSUME NEW S, NEW s \in Seq(S), NEW x \in S
    PROVE  Longer(Append(s, x), s)
<1>1. /\ DOMAIN s = 1..Len(s) /\ Len(s) \in Nat /\ DOMAIN Append(s, x) = 1..Len(s) + 1
      /\ \A i \in 1..Len(s) : Append(s, x)[i] = s[i]
  BY Appended
<1>2. 1..Len(s) \subseteq 1..Len(s) + 1
  BY <1>1
<1> QED BY <1>1, <1>2, Zenon DEF Longer

LEMMA StaysOnWire ==
    ASSUME NEW a, NEW d, NEW u, NEW b, IsOnWire(a, d, u, b),
           NEW a2, NEW d2, NEW u2, a2[b] = a[b], Longer(d2, d), Longer(u2, u)
    PROVE  IsOnWire(a2, d2, u2, b)
BY DEF IsOnWire, IsBlock, Longer

\* What the events do to the slots and to the packets.
LEMMA EventsSend ==
    ASSUME TransferTypes, SendEvents
    PROVE  client'.sending \subseteq client.sending /\ Longer(down'[2], down[2])
<1>1. events \in Seq(NodeEvents \cup OtherEvents) /\ Len(events) \in Nat
      /\ \A k \in 1..Len(events) : events[k] \in NodeEvents \cup OtherEvents
  BY DEF TransferTypes
<1>2. PICK far, f :
        /\ far \in BOOLEAN /\ f[0] = Pair(client, down)
        /\ \A k \in 1..Len(events) : f[k] = Announce(f[k - 1], events[k], far)
        /\ client' = f[Len(events)].client /\ down' = f[Len(events)].down
  BY <1>1, EventSteps
<1>7. far \in BOOLEAN
  BY <1>2
<1>3. \A k \in 0..Len(events) :
         /\ f[k] = Pair(f[k].client, f[k].down)
         /\ f[k].client \in BlockClient /\ f[k].client.sending \cap f[k].client.sent = {}
         /\ Downward(f[k].down)
  BY <1>2, EventsTypes
<1> DEFINE Holds(s) == s.client.sending \subseteq client.sending /\ Longer(s.down[2], down[2])
           S == {k \in 0..Len(events) : Holds(f[k])}
<1>4. 0 \in S
  <2>1. Holds(f[0])
    BY <1>2 DEF Pair, Longer
  <2> QED BY <1>1, <2>1
<1>5. ASSUME NEW k \in 1..Len(events), k - 1 \in S PROVE k \in S
  <2> DEFINE c == f[k - 1].client
             d == f[k - 1].down
             e == events[k]
             s == f[k]
  <2>1. k - 1 \in 0..Len(events) /\ k \in 0..Len(events)
    BY <1>1
  <2>2. /\ c.sending \subseteq client.sending /\ Longer(d[2], down[2])
        /\ c \in BlockClient /\ c.sending \cap c.sent = {} /\ Downward(d)
        /\ s = Announce(Pair(c, d), e, far) /\ e \in NodeEvents \cup OtherEvents
    BY <1>1, <1>2, <1>3, <1>5, <2>1, Zenon
  <2> HIDE DEF c, d, e, s
  <2>3. CASE e.type = "node" /\ e.block \in c.sent /\ ~far
    <3> DEFINE p == NodePacket(e)
               d2 == Send(d, p)
    <3>1. s = Pair(c, d2)
      BY <1>7, <2>2, <2>3, Announcing
    <3>2. p \in DownPacket
      BY <2>2, <2>3 DEF NodePacket, DownPacket, NodeEvents, OtherEvents
    <3> HIDE DEF p
    <3>3. d2[2] = Append(d[2], p) \/ d2[2] = d[2]
      BY <2>2, <3>2, Sending
    <3>4. d[2] \in Seq(DownPacket)
      BY <2>2 DEF Downward
    <3> HIDE DEF d2
    <3>5. Longer(Append(d[2], p), d[2]) /\ Longer(d[2], d[2])
      BY <3>2, <3>4, AppendedLonger DEF Longer
    <3>6. Longer(d2[2], d[2])
      BY <3>3, <3>5, Zenon
    <3> QED BY <2>1, <2>2, <3>1, <3>6 DEF Pair, Longer, s
  <2>4. CASE ~(e.type = "node" /\ e.block \in c.sent /\ ~far)
    <3> DEFINE bs == e.modified_blocks
               low == e.low_priority
               c2 == SetBlocksNotSent(c, bs, low)
    <3>1. s = Pair(c2, d)
      BY <1>7, <2>2, <2>4, Announcing, Zenon
    <3>2. bs \in SUBSET Blocks
      BY <2>2 DEF NodeEvents, OtherEvents
    <3> HIDE DEF bs, low
    <3>3. c2 = SetBlocksNotSent(c, bs, low)
      OBVIOUS
    <3> HIDE DEF c2
    <3>4. c \in BlockClient /\ c.sending \cap c.sent = {}
      BY <2>2
    <3>5. c2.sending = c.sending \ bs
      BY <3>2, <3>3, <3>4, NotSentTypes
    <3> QED BY <2>1, <2>2, <3>1, <3>5 DEF Pair, s
  <2> QED BY <2>3, <2>4
<1> HIDE DEF S
<1>6. Len(events) \in S
  <2>1. \A k \in 0..Len(events) : k \in S
    BY <1>1, <1>4, <1>5, UpTo
  <2> QED BY <1>1, <2>1
<1> QED BY <1>2, <1>6 DEF S

\* What the server does not count as sent any more takes no slot.
LEMMA OpsSend ==
    ASSUME NEW c \in BlockClient, c.sending \cap c.sent = {}, NEW b \in Blocks
    PROVE  /\ SetBlockNotSent(c, b, FALSE).sending = c.sending \ {b}
           /\ SetBlockNotSent(c, b, FALSE).sent = c.sent \ {b}
           /\ ResendBlockIfOnWire(c, b).sending = c.sending \ {b}
           /\ ResendBlockIfOnWire(c, b).sent = c.sent
           /\ GotBlock(c, b).sending = c.sending \ {b}
           /\ GotBlock(c, b).sent \subseteq c.sent \cup (c.sending \cap {b})
<1> DEFINE bs == {b}
<1>1. /\ SetBlockNotSent(c, b, FALSE).sending = c.sending \ {b}
      /\ SetBlockNotSent(c, b, FALSE).sent = c.sent \ {b}
  <2>1. bs \in SUBSET Blocks /\ SetBlockNotSent(c, b, FALSE) = SetBlocksNotSent(c, bs, FALSE)
    BY DEF SetBlockNotSent
  <2> HIDE DEF bs
  <2>2. /\ SetBlocksNotSent(c, bs, FALSE).sending = c.sending \ bs
        /\ SetBlocksNotSent(c, bs, FALSE).sent = c.sent \ bs
    BY <2>1, NotSentTypes, Zenon
  <2> QED BY <2>1, <2>2 DEF bs
<1>2. /\ ResendBlockIfOnWire(c, b).sending = c.sending \ {b}
      /\ ResendBlockIfOnWire(c, b).sent = c.sent
  BY <1>1 DEF ResendBlockIfOnWire
<1>3. /\ GotBlock(c, b).sending = c.sending \ {b}
      /\ GotBlock(c, b).sent \subseteq c.sent \cup (c.sending \cap {b})
  BY DEF GotBlock, BlockClient
<1> QED BY <1>1, <1>2, <1>3

\* An answer frees the slot of its block.
LEMMA AnswersSend ==
    ASSUME TransferTypes, GotBlocks \/ DeletedBlocks
    PROVE  /\ client'.sending = client.sending \ {Head(up[2]).block}
           /\ up[2] # <<>> /\ up'[2] = Tail(up[2]) /\ UNCHANGED <<acks, down>>
<1> DEFINE b == Head(up[2]).block
<1>1. \E type : HandleUp(2, type)
  BY DEF GotBlocks, DeletedBlocks
<1>2. b \in Blocks /\ up[2] # <<>> /\ up'[2] = Tail(up[2]) /\ UNCHANGED <<acks, down>>
  BY <1>1, HandledUp DEF Answers
<1>3. client' = GotBlock(client, b) \/ client' = SetBlockNotSent(client, b, FALSE)
  BY DEF GotBlocks, DeletedBlocks
<1>4. client \in BlockClient /\ client.sending \cap client.sent = {}
  BY DEF TransferTypes
<1> HIDE DEF b
<1>5. client'.sending = client.sending \ {b}
  <2>1. /\ SetBlockNotSent(client, b, FALSE).sending = client.sending \ {b}
        /\ GotBlock(client, b).sending = client.sending \ {b}
    BY <1>2, <1>4, OpsSend, Zenon
  <2> QED BY <1>3, <2>1
<1> QED BY <1>2, <1>5 DEF b

\* What the player does takes no slot.
LEMMA InteractionsSend ==
    ASSUME TransferTypes, Dig \/ Place \/ PlaceNotAllowed \/ PlaceIgnored
    PROVE  client'.sending \subseteq client.sending /\ UNCHANGED <<acks, down>> /\ up'[2] = up[2]
<1> DEFINE p == Head(up[0])
           bs == {p.above, p.under}
<1>1. client \in BlockClient /\ client.sending \cap client.sent = {}
  BY DEF TransferTypes
<1>2. CASE Dig
  <2>1. HandleUp(0, "dig") /\ \/ client' = ResendBlockIfOnWire(client, p.under)
                              \/ client' = SetBlockNotSent(client, p.under, FALSE)
    BY <1>2 DEF Dig
  <2>2. p.under \in Blocks /\ up'[2] = up[2] /\ UNCHANGED <<acks, down>>
    BY <2>1, HandledUp DEF Interactions
  <2> HIDE DEF p
  <2>3. /\ SetBlockNotSent(client, p.under, FALSE).sending = client.sending \ {p.under}
        /\ ResendBlockIfOnWire(client, p.under).sending = client.sending \ {p.under}
    BY <1>1, <2>2, OpsSend, Zenon
  <2> QED BY <2>1, <2>2, <2>3
<1>3. CASE Place \/ PlaceNotAllowed \/ PlaceIgnored
  <2>1. HandleUp(0, "place") /\ \/ client' = SetBlocksNotSent(client, bs, FALSE)
                                \/ client' = SetBlockNotSent(client, p.above, FALSE)
                                \/ client' = SetBlockNotSent(client, p.under, FALSE)
    BY <1>3 DEF Place, PlaceNotAllowed, PlaceIgnored
  <2>2. p.under \in Blocks /\ p.above \in Blocks /\ up'[2] = up[2] /\ UNCHANGED <<acks, down>>
    BY <2>1, HandledUp DEF Interactions
  <2> HIDE DEF p
  <2>3. bs \in SUBSET Blocks
    BY <2>2
  <2> HIDE DEF bs
  <2>4. CASE client' = SetBlocksNotSent(client, bs, FALSE)
    <3>1. SetBlocksNotSent(client, bs, FALSE).sending = client.sending \ bs
      BY <1>1, <2>3, NotSentTypes, Zenon
    <3> QED BY <2>2, <2>4, <3>1
  <2>5. CASE client' = SetBlockNotSent(client, p.above, FALSE)
    <3>1. SetBlockNotSent(client, p.above, FALSE).sending = client.sending \ {p.above}
      BY <1>1, <2>2, OpsSend, Zenon
    <3> QED BY <2>2, <2>5, <3>1
  <2>6. CASE client' = SetBlockNotSent(client, p.under, FALSE)
    <3>1. SetBlockNotSent(client, p.under, FALSE).sending = client.sending \ {p.under}
      BY <1>1, <2>2, OpsSend, Zenon
    <3> QED BY <2>2, <2>6, <3>1
  <2> QED BY <2>1, <2>4, <2>5, <2>6
<1> QED BY <1>2, <1>3

\* Without the first packet, the block is still on the wire unless that one was it.
LEMMA ShiftedOnWire ==
    ASSUME NEW a, NEW S, NEW T, NEW d \in Seq(S), NEW u \in Seq(T), NEW b, IsOnWire(a, d, u, b)
    PROVE  /\ u # <<>> /\ Head(u).block # b => IsOnWire(a, d, Tail(u), b)
           /\ d # <<>> /\ ~IsBlock(d, 1, b) => IsOnWire(a, Tail(d), u, b)
<1>1. ASSUME u # <<>>, Head(u).block # b PROVE IsOnWire(a, d, Tail(u), b)
  <2>1. ASSUME NEW i \in DOMAIN u, u[i].block = b PROVE \E j \in DOMAIN Tail(u) : Tail(u)[j].block = b
    <3>1. i - 1 \in DOMAIN Tail(u) /\ Tail(u)[i - 1] = u[i]
      BY <1>1, <2>1, HeadAndTail
    <3> QED BY <2>1, <3>1
  <2> QED BY <2>1 DEF IsOnWire
<1>2. ASSUME d # <<>>, ~IsBlock(d, 1, b) PROVE IsOnWire(a, Tail(d), u, b)
  <2>1. ASSUME NEW i \in DOMAIN d, IsBlock(d, i, b) PROVE \E j \in DOMAIN Tail(d) : IsBlock(Tail(d), j, b)
    <3>1. i - 1 \in DOMAIN Tail(d) /\ Tail(d)[i - 1] = d[i]
      BY <1>2, <2>1, HeadAndTail
    <3> QED BY <2>1, <3>1 DEF IsBlock
  <2> QED BY <2>1 DEF IsOnWire
<1> QED BY <1>1, <1>2

LEMMA OnWireReceived ==
    ASSUME TransferTypes, NEW b, IsOnWire(acks, down[2], up[2], b), b \in Blocks, ClientStep
    PROVE  IsOnWire(acks', down'[2], up'[2], b)
<1>1. down[2] \in Seq(DownPacket) /\ up[2] \in Seq(Answers) /\ acks \in [Blocks -> Nat]
  BY DEF TransferTypes, Downward
<1>2. CASE BlockDataReceived
  <2> DEFINE p == Head(down[2])
  <2>1. HandleDown(2, "block") /\ acks' = [acks EXCEPT ![p.block] = @ + 1]
    BY <1>2 DEF BlockDataReceived
  <2>2. /\ p.block \in Blocks /\ down[2] # <<>> /\ down'[2] = Tail(down[2]) /\ up' = up
        /\ p = down[2][1]
    <3>1. p \in DownPacket /\ down[2] # <<>> /\ down'[2] = Tail(down[2]) /\ up' = up
      BY <2>1, HandledDown
    <3> QED BY <1>1, <3>1, HeadAndTail DEF DownPacket
  <2> HIDE DEF p
  <2>3. CASE b = p.block
    BY <1>1, <2>1, <2>2, <2>3 DEF IsOnWire
  <2>4. CASE b # p.block
    <3>1. ~IsBlock(down[2], 1, b) /\ acks'[b] = acks[b]
      BY <1>1, <2>1, <2>2, <2>4 DEF IsBlock
    <3>2. IsOnWire(acks, Tail(down[2]), up[2], b)
      BY <1>1, <2>2, <3>1, ShiftedOnWire
    <3> QED BY <2>2, <3>1, <3>2 DEF IsOnWire
  <2> QED BY <2>3, <2>4
<1>3. ASSUME NEW ch \in {0, 2}, NodeReceived(ch) PROVE IsOnWire(acks', down'[2], up'[2], b)
  <2>1. HandleDown(ch, "node") /\ acks' = acks
    BY <1>3 DEF NodeReceived
  <2>2. /\ down[ch] # <<>> /\ Head(down[ch]).type = "node" /\ up' = up
        /\ down'[ch] = Tail(down[ch]) /\ (ch = 0 => down'[2] = down[2])
    BY <2>1, HandledDown
  <2>3. CASE ch = 2
    <3>1. ~IsBlock(down[2], 1, b)
      BY <1>1, <2>2, <2>3, HeadAndTail DEF IsBlock
    <3> QED BY <1>1, <2>1, <2>2, <2>3, <3>1, ShiftedOnWire
  <2> QED BY <2>1, <2>2, <2>3
<1>4. ASSUME NEW q \in Blocks, MeshDone(q) PROVE IsOnWire(acks', down'[2], up'[2], b)
  <2> DEFINE p == [type |-> "got", block |-> q]
  <2>1. p \in Answers /\ p.block = q
    BY DEF Answers
  <2>2. SendUp(2, p) /\ acks' = [acks EXCEPT ![q] = @ - 1] /\ UNCHANGED down
    BY <1>4 DEF MeshDone
  <2> HIDE DEF p
  <2>3. up'[2] = Append(up[2], p)
    BY <2>1, <2>2, SentUp
  <2>4. /\ Longer(up'[2], up[2]) /\ Len(up[2]) + 1 \in DOMAIN up'[2]
        /\ up'[2][Len(up[2]) + 1].block = q
    BY <1>1, <2>1, <2>3, Appended DEF Longer
  <2>5. CASE b = q
    BY <2>4, <2>5 DEF IsOnWire
  <2>6. CASE b # q
    <3>1. acks'[b] = acks[b] /\ Longer(down'[2], down[2])
      BY <1>1, <2>2, <2>6 DEF Longer
    <3> QED BY <2>4, <3>1, StaysOnWire
  <2> QED BY <2>5, <2>6
<1> QED BY <1>2, <1>3, <1>4 DEF ClientStep

LEMMA OnWireStep ==
    ASSUME TransferTypes, [BTNext]_btVars,
           \A b \in client.sending : IsOnWire(acks, down[2], up[2], b)
    PROVE  \A b \in client'.sending : IsOnWire(acks', down'[2], up'[2], b)
<1> DEFINE Goal == \A b \in client'.sending : IsOnWire(acks', down'[2], up'[2], b)
<1>1. /\ down[2] \in Seq(DownPacket) /\ up[2] \in Seq(Answers) /\ client \in BlockClient
      /\ client.sending \subseteq Blocks
  BY DEF TransferTypes, Downward, BlockClient
<1>2. ASSUME client'.sending \subseteq client.sending, acks' = acks,
             Longer(down'[2], down[2]), Longer(up'[2], up[2])
      PROVE  Goal
  BY <1>2, StaysOnWire
<1>3. Longer(down[2], down[2]) /\ Longer(up[2], up[2])
  BY DEF Longer
<1>4. ASSUME client'.sending = client.sending, acks' = acks, down'[2] = down[2], up'[2] = up[2]
      PROVE  Goal
  BY <1>2, <1>3, <1>4
<1>5. CASE UNCHANGED btVars
  BY <1>4, <1>5 DEF btVars, serverVars, clientVars
<1>6. CASE EndPause
  BY <1>1, <1>4, <1>6 DEF EndPause, clientVars, BlockClient
<1>7. CASE SendBlocks
  <2>1. PICK sent : Scanned(sent)
    BY <1>7, Scan DEF TransferTypes, MapTypes
  <2> DEFINE packets == [i \in DOMAIN sent |-> BlockData(sent[i])]
  <2>2. sent \in Seq(Blocks) /\ content \in [Blocks -> SUBSET Changes]
    BY <2>1 DEF Scanned, TransferTypes, MapTypes
  <2>3. /\ packets \in Seq(DownPacket) /\ DOMAIN packets = DOMAIN sent
        /\ \A i \in DOMAIN sent : packets[i].type = "block" /\ packets[i].block = sent[i]
    <3>1. \A i \in DOMAIN sent : BlockData(sent[i]) \in DownPacket
      BY <2>2 DEF BlockData, DownPacket
    <3>2. packets \in Seq(DownPacket)
      <4> HIDE DEF DownPacket
      <4> QED BY <2>2, <3>1
    <3> QED BY <3>2 DEF BlockData
  <2>4. /\ down'[2] = down[2] \o packets /\ client'.sending = client.sending \cup Range(sent)
        /\ acks' = acks /\ up' = up
    BY <1>7, <2>1 DEF Scanned, SendBlocks, clientVars, TransferTypes, Downward
  <2> HIDE DEF packets
  <2>5. /\ Longer(down'[2], down[2]) /\ Len(down[2]) \in Nat /\ Len(packets) \in Nat
        /\ DOMAIN down'[2] = 1..Len(down[2]) + Len(packets) /\ DOMAIN packets = 1..Len(packets)
        /\ \A i \in 1..Len(packets) : down'[2][Len(down[2]) + i] = packets[i]
    BY <1>1, <2>3, <2>4, LongerSends
  <2>6. ASSUME NEW i \in DOMAIN sent PROVE IsOnWire(acks', down'[2], up'[2], sent[i])
    <3>1. Len(down[2]) + i \in DOMAIN down'[2] /\ down'[2][Len(down[2]) + i] = packets[i]
      BY <2>3, <2>5
    <3>2. IsBlock(down'[2], Len(down[2]) + i, sent[i])
      BY <2>3, <3>1 DEF IsBlock
    <3> QED BY <3>1, <3>2 DEF IsOnWire
  <2>7. ASSUME NEW b \in client.sending PROVE IsOnWire(acks', down'[2], up'[2], b)
    BY <1>3, <2>4, <2>5, StaysOnWire
  <2> QED BY <2>4, <2>6, <2>7 DEF Range
<1>8. CASE SendEvents
  BY <1>2, <1>3, <1>8, EventsSend DEF SendEvents, clientVars
<1>9. CASE GotBlocks \/ DeletedBlocks
  <2>1. /\ client'.sending = client.sending \ {Head(up[2]).block}
        /\ up[2] # <<>> /\ up'[2] = Tail(up[2]) /\ UNCHANGED <<acks, down>>
    BY <1>9, AnswersSend
  <2> QED BY <1>1, <2>1, ShiftedOnWire
<1>10. CASE Dig \/ Place \/ PlaceNotAllowed \/ PlaceIgnored
  BY <1>2, <1>3, <1>10, InteractionsSend
<1>11. CASE EmergeStep
  BY <1>4, <1>11 DEF EmergeStep, EmergeFromDisk, EmergeGenerated, EmergeNothingNew, Emerged, clientVars
<1>12. CASE ClientStep
  <2>1. client' = client
    <3>1. \A ch, type : HandleDown(ch, type) => client' = client
      BY DEF HandleDown, serverVars
    <3> QED BY <1>12, <3>1 DEF ClientStep, BlockDataReceived, NodeReceived, MeshDone, serverVars
  <2> QED BY <1>1, <1>12, <2>1, OnWireReceived
<1>13. CASE Move \/ \E b \in Blocks : SetNode(b) \/ ModifyBlock(b) \/ UnloadBlock(b)
  BY <1>4, <1>13 DEF Move, SetNode, ModifyBlock, UnloadBlock, clientVars
<1>14. CASE RestartScan
  BY <1>1, <1>4, <1>14 DEF RestartScan, clientVars, BlockClient
<1>15. ASSUME NEW b \in Blocks, SendBlock(b) PROVE Goal
  <2> DEFINE p == BlockData(b)
  <2>1. p \in DownPacket /\ p.type = "block"
    BY DEF BlockData, DownPacket, TransferTypes, MapTypes
  <2>2. down' = Send(down, p) /\ UNCHANGED <<client, acks, up>>
    BY <1>15 DEF SendBlock, clientVars
  <2> HIDE DEF p
  <2>3. down'[2] = Append(down[2], p)
    BY <2>1, <2>2, Sending DEF DownChannel, TransferTypes
  <2>4. Longer(down'[2], down[2])
    BY <1>1, <2>1, <2>3, Appended DEF Longer
  <2> QED BY <1>2, <1>3, <2>2, <2>4
<1>16. ASSUME NEW b \in Blocks, Forget(b) PROVE Goal
  <2> DEFINE p == [type |-> "deleted", block |-> b]
  <2>1. p \in Answers /\ SendUp(2, p) /\ UNCHANGED <<client, acks, down>>
    BY <1>16 DEF Answers, Forget, serverVars
  <2> HIDE DEF p
  <2>2. up'[2] = Append(up[2], p)
    BY <2>1, SentUp
  <2>3. Longer(up'[2], up[2])
    BY <1>1, <2>1, <2>2, Appended DEF Longer
  <2> QED BY <1>2, <1>3, <2>1, <2>3
<1>17. ASSUME NEW b \in Blocks, PlayerDigs(b) \/ \E above \in Blocks : PlayerPlaces(b, above)
       PROVE  Goal
  <2>1. PICK p : SendUp(0, p) /\ UNCHANGED <<client, acks, down>>
    BY <1>17 DEF PlayerDigs, PlayerPlaces, serverVars
  <2>2. up'[2] = up[2]
    BY <2>1 DEF SendUp, TransferTypes
  <2> QED BY <1>4, <2>1, <2>2
<1>18. CASE Disturbance
  BY <1>13, <1>14, <1>15, <1>16, <1>17, <1>18 DEF Disturbance
<1> QED BY <1>5, <1>6, <1>7, <1>8, <1>9, <1>10, <1>11, <1>12, <1>18 DEF BTNext, ScanStep, PacketStep

\* Every slot for sending a block is in use (RemoteClient::m_blocks_sending):
\* whatever the order in which events are announced, blocks are scanned, sent,
\* acknowledged and forgotten, no slot waits for nothing, and so none is lost.
THEOREM SlotsAreInUse == BTSpec => []SendingIsOnWire
<1> DEFINE Inv == TransferTypes /\ SendingIsOnWire
<1>1. BTInit => Inv
  BY TransferTypesInit DEF BTInit, SendingIsOnWire
<1>2. Inv /\ [BTNext]_btVars => Inv'
  <2> SUFFICES ASSUME Inv, [BTNext]_btVars PROVE Inv'
    OBVIOUS
  <2>1. \A b \in client.sending : IsOnWire(acks, down[2], up[2], b)
    BY DEF SendingIsOnWire, IsOnWire, IsBlock
  <2>2. \A b \in client'.sending : IsOnWire(acks', down'[2], up'[2], b)
    BY <2>1, OnWireStep
  <2>3. SendingIsOnWire'
    BY <2>2 DEF SendingIsOnWire, IsOnWire, IsBlock
  <2> QED BY <2>3, TransferTypesStep
<1> QED BY <1>1, <1>2, PTL DEF BTSpec

\* Only a scan takes slots.
LEMMA SlotsKept ==
    ASSUME TransferTypes, [BTNext]_btVars, Cardinality(client.sending) <= MaxSimulSends
    PROVE  Cardinality(client'.sending) <= MaxSimulSends
<1>1. client \in BlockClient /\ view \in Views
  BY DEF TransferTypes, MapTypes
<1>2. ASSUME client'.sending \subseteq client.sending
      PROVE  Cardinality(client'.sending) <= MaxSimulSends
  <2>1. IsFiniteSet(client.sending) /\ client'.sending \in SUBSET client.sending
    BY <1>1, <1>2, Places, FS_Subset DEF BlockClient
  <2>2. /\ Cardinality(client'.sending) <= Cardinality(client.sending)
        /\ Cardinality(client'.sending) \in Nat /\ Cardinality(client.sending) \in Nat
    BY <2>1, FS_Subset, FS_CardinalityType
  <2> QED BY <2>2, Numbers
<1>3. CASE SendBlocks
  BY <1>1, <1>3, Scan DEF Scanned
<1>4. CASE SendEvents
  BY <1>2, <1>4, EventsSend
<1>5. CASE GotBlocks \/ DeletedBlocks \/ Dig \/ Place \/ PlaceNotAllowed \/ PlaceIgnored
  BY <1>2, <1>5, AnswersSend, InteractionsSend
<1>6. CASE EndPause \/ RestartScan
  BY <1>1, <1>2, <1>6 DEF EndPause, RestartScan, BlockClient
<1>7. CASE UNCHANGED btVars \/ EmergeStep \/ ClientStep
  <2>1. \A ch, type : HandleDown(ch, type) => client' = client
    BY DEF HandleDown, serverVars
  <2>2. client' = client
    BY <1>7, <2>1 DEF btVars, serverVars, EmergeStep, EmergeFromDisk, EmergeGenerated,
          EmergeNothingNew, Emerged, ClientStep, BlockDataReceived, NodeReceived, MeshDone
  <2> QED BY <1>2, <2>2
<1>8. CASE Disturbance
  <2>1. client' = client \/ RestartScan
    BY <1>8 DEF Disturbance, Move, SetNode, ModifyBlock, UnloadBlock, SendBlock, Forget,
          PlayerDigs, PlayerPlaces, serverVars
  <2> QED BY <1>2, <1>6, <2>1
<1> QED BY <1>3, <1>4, <1>5, <1>6, <1>7, <1>8 DEF BTNext, ScanStep, PacketStep

\* No scan sends more blocks than there are slots (m_max_simul_sends), whatever
\* was freed or sent before it, and the state keeps its types.
THEOREM SlotsSuffice == BTSpec => []BTTypeOK
<1> DEFINE Inv == TransferTypes /\ Cardinality(client.sending) <= MaxSimulSends
<1>1. BTInit => Inv
  <2> SUFFICES ASSUME BTInit PROVE Inv
    OBVIOUS
  <2>1. Cardinality(client.sending) = 0
    BY FS_EmptySet DEF BTInit
  <2> QED BY <2>1, TransferTypesInit, Numbers
<1>2. Inv /\ [BTNext]_btVars => Inv'
  BY SlotsKept, TransferTypesStep
<1>3. Inv => BTTypeOK
  BY DEF TransferTypes, MapTypes, BlockClient, BTTypeOK
<1> QED BY <1>1, <1>2, <1>3, PTL DEF BTSpec

-----------------------------------------------------------------------------
(* The block transfer: what the client will have, once the packets d have  *)
(* arrived where it has s                                                  *)

IsNode(d, i, b, k) == i \in DOMAIN d /\ d[i].type = "node" /\ d[i].block = b /\ d[i].change = k

\* No block packet of b comes after the first i.
LastFrom(d, i, b) == \A j \in DOMAIN d : j > i => ~IsBlock(d, j, b)

WillHave(s, d, b) == s[b] # NotLoaded \/ \E i \in DOMAIN d : IsBlock(d, i, b)

Brings(d, i, b, k) == IsNode(d, i, b, k) \/ (IsBlock(d, i, b) /\ k \in d[i].content)

WillShow(s, d, b, k) ==
    \/ k \in s[b] /\ LastFrom(d, 0, b)
    \/ \E i \in DOMAIN d : LastFrom(d, i, b) /\ Brings(d, i, b, k)

LEMMA ShiftedPackets ==
    ASSUME NEW S, NEW d \in Seq(S), d # <<>>, NEW b
    PROVE  /\ \A i \in Nat : LastFrom(Tail(d), i, b) <=> LastFrom(d, i + 1, b)
           /\ LastFrom(d, 0, b) <=> LastFrom(Tail(d), 0, b) /\ ~IsBlock(d, 1, b)
           /\ \A i \in DOMAIN Tail(d) : /\ i + 1 \in DOMAIN d
                                        /\ IsBlock(Tail(d), i, b) <=> IsBlock(d, i + 1, b)
                                        /\ \A k : Brings(Tail(d), i, b, k) <=> Brings(d, i + 1, b, k)
           /\ \A i \in DOMAIN d : i = 1 \/ (i - 1 \in DOMAIN Tail(d) /\ i = (i - 1) + 1)
<1>1. /\ DOMAIN d = 1..Len(d) /\ Len(d) \in Nat \ {0} /\ DOMAIN Tail(d) = 1..Len(d) - 1
      /\ \A i \in 1..Len(d) - 1 : Tail(d)[i] = d[i + 1]
  BY HeadAndTail
<1> DEFINE t == Tail(d)
<1> HIDE DEF t
<1>2. \A i \in DOMAIN t : /\ i + 1 \in DOMAIN d /\ i \in Nat
                          /\ IsBlock(t, i, b) <=> IsBlock(d, i + 1, b)
                          /\ \A k : Brings(t, i, b, k) <=> Brings(d, i + 1, b, k)
  BY <1>1 DEF IsBlock, IsNode, Brings, t
<1>3. \A i \in DOMAIN d : i = 1 \/ (i - 1 \in DOMAIN t /\ i = (i - 1) + 1)
  BY <1>1 DEF t
<1>4. \A i \in DOMAIN d : i \in Nat
  BY <1>1
<1>5. ASSUME NEW i \in Nat PROVE LastFrom(t, i, b) <=> LastFrom(d, i + 1, b)
  <2>1. ASSUME LastFrom(t, i, b), NEW j \in DOMAIN d, j > i + 1 PROVE ~IsBlock(d, j, b)
    <3>1. j - 1 \in DOMAIN t /\ j - 1 > i /\ j = (j - 1) + 1
      BY <1>3, <1>4, <2>1
    <3> QED BY <1>2, <2>1, <3>1 DEF LastFrom
  <2>2. ASSUME LastFrom(d, i + 1, b), NEW j \in DOMAIN t, j > i PROVE ~IsBlock(t, j, b)
    <3>1. j + 1 \in DOMAIN d /\ j + 1 > i + 1
      BY <1>2, <2>2
    <3> QED BY <1>2, <2>2, <3>1 DEF LastFrom
  <2> QED BY <2>1, <2>2 DEF LastFrom
<1>6. LastFrom(d, 0, b) <=> LastFrom(t, 0, b) /\ ~IsBlock(d, 1, b)
  <2>1. LastFrom(t, 0, b) <=> LastFrom(d, 1, b)
    BY <1>5
  <2>2. LastFrom(d, 0, b) <=> LastFrom(d, 1, b) /\ ~IsBlock(d, 1, b)
    BY <1>1 DEF LastFrom
  <2> QED BY <2>1, <2>2
<1> QED BY <1>2, <1>3, <1>5, <1>6 DEF t

\* What is brought by the first packet or by one of the others.
LEMMA FirstAndOthers ==
    ASSUME NEW S, NEW d \in Seq(S), d # <<>>, NEW b, NEW s
    PROVE  /\ WillHave(s, d, b) <=> WillHave(s, Tail(d), b) \/ IsBlock(d, 1, b)
           /\ \A k : WillShow(s, d, b, k) <=>
                \/ k \in s[b] /\ LastFrom(Tail(d), 0, b) /\ ~IsBlock(d, 1, b)
                \/ Brings(d, 1, b, k) /\ LastFrom(Tail(d), 0, b)
                \/ \E i \in DOMAIN Tail(d) : LastFrom(Tail(d), i, b) /\ Brings(Tail(d), i, b, k)
<1> DEFINE t == Tail(d)
<1>1. /\ \A i \in Nat : LastFrom(t, i, b) <=> LastFrom(d, i + 1, b)
      /\ LastFrom(d, 0, b) <=> LastFrom(t, 0, b) /\ ~IsBlock(d, 1, b)
      /\ \A i \in DOMAIN t : /\ i + 1 \in DOMAIN d
                             /\ IsBlock(t, i, b) <=> IsBlock(d, i + 1, b)
                             /\ \A k : Brings(t, i, b, k) <=> Brings(d, i + 1, b, k)
      /\ \A i \in DOMAIN d : i = 1 \/ (i - 1 \in DOMAIN t /\ i = (i - 1) + 1)
  BY ShiftedPackets
<1>2. 1 \in DOMAIN d /\ \A i \in DOMAIN t : i \in Nat
  BY HeadAndTail
<1> HIDE DEF t
<1>3. LastFrom(t, 0, b) <=> LastFrom(d, 1, b)
  BY <1>1
<1>4. WillHave(s, d, b) <=> WillHave(s, t, b) \/ IsBlock(d, 1, b)
  BY <1>1, <1>2 DEF WillHave
<1>5. ASSUME NEW k
      PROVE  (\E i \in DOMAIN d : LastFrom(d, i, b) /\ Brings(d, i, b, k)) <=>
                \/ Brings(d, 1, b, k) /\ LastFrom(t, 0, b)
                \/ \E i \in DOMAIN t : LastFrom(t, i, b) /\ Brings(t, i, b, k)
  <2>1. ASSUME NEW i \in DOMAIN d, LastFrom(d, i, b), Brings(d, i, b, k)
        PROVE  \/ Brings(d, 1, b, k) /\ LastFrom(t, 0, b)
               \/ \E j \in DOMAIN t : LastFrom(t, j, b) /\ Brings(t, j, b, k)
    <3>1. CASE i = 1
      BY <1>3, <2>1, <3>1
    <3>2. CASE i # 1
      <4>1. i - 1 \in DOMAIN t /\ i = (i - 1) + 1 /\ i - 1 \in Nat
        BY <1>1, <1>2, <3>2
      <4>2. LastFrom(t, i - 1, b) /\ Brings(t, i - 1, b, k)
        BY <1>1, <2>1, <4>1
      <4> QED BY <4>1, <4>2
    <3> QED BY <3>1, <3>2
  <2>2. ASSUME NEW i \in DOMAIN t, LastFrom(t, i, b), Brings(t, i, b, k)
        PROVE  \E j \in DOMAIN d : LastFrom(d, j, b) /\ Brings(d, j, b, k)
    BY <1>1, <1>2, <2>2
  <2> QED BY <1>2, <1>3, <2>1, <2>2
<1>6. ASSUME NEW k
      PROVE  WillShow(s, d, b, k) <=>
                \/ k \in s[b] /\ LastFrom(t, 0, b) /\ ~IsBlock(d, 1, b)
                \/ Brings(d, 1, b, k) /\ LastFrom(t, 0, b)
                \/ \E i \in DOMAIN t : LastFrom(t, i, b) /\ Brings(t, i, b, k)
  BY <1>1, <1>5, Zenon DEF WillShow
<1> QED BY <1>4, <1>6 DEF t

\* A packet that arrives changes nothing of what the client will have.
LEMMA PacketArrives ==
    ASSUME NEW s \in [Blocks -> {NotLoaded} \cup SUBSET Changes],
           NEW d \in Seq(DownPacket), d # <<>>, NEW b \in Blocks, WillHave(s, d, b),
           NEW s2, LET p == Head(d) IN
             IF p.type = "block" THEN s2 = [s EXCEPT ![p.block] = p.content]
             ELSE s2 = [s EXCEPT ![p.block] = IF @ = NotLoaded THEN @ ELSE @ \cup {p.change}]
    PROVE  /\ WillHave(s2, Tail(d), b)
           /\ \A k \in Changes : WillShow(s2, Tail(d), b, k) <=> WillShow(s, d, b, k)
<1> DEFINE p == Head(d)
           t == Tail(d)
<1>1. p \in DownPacket /\ p = d[1] /\ 1 \in DOMAIN d
  BY HeadAndTail
<1>2. /\ WillHave(s, d, b) <=> WillHave(s, t, b) \/ IsBlock(d, 1, b)
      /\ \A k : WillShow(s, d, b, k) <=>
                \/ k \in s[b] /\ LastFrom(t, 0, b) /\ ~IsBlock(d, 1, b)
                \/ Brings(d, 1, b, k) /\ LastFrom(t, 0, b)
                \/ \E i \in DOMAIN t : LastFrom(t, i, b) /\ Brings(t, i, b, k)
  BY FirstAndOthers
<1> HIDE DEF t, p
<1>3. CASE p.type = "block"
  <2>1. s2 = [s EXCEPT ![p.block] = p.content] /\ p.block \in Blocks /\ p.content \in SUBSET Changes
    BY <1>1, <1>3 DEF p, DownPacket
  <2>2. /\ IsBlock(d, 1, b) <=> b = p.block
        /\ \A k : Brings(d, 1, b, k) <=> b = p.block /\ k \in p.content
    BY <1>1, <1>3 DEF IsBlock, Brings, IsNode
  <2>3. CASE b = p.block
    <3>1. s2[b] = p.content /\ s2[b] # NotLoaded
      BY <2>1, <2>3, Numbers
    <3> QED BY <1>2, <2>2, <2>3, <3>1 DEF WillHave, WillShow, t
  <2>4. CASE b # p.block
    <3>1. s2[b] = s[b]
      BY <2>1, <2>4
    <3> QED BY <1>2, <2>2, <2>4, <3>1 DEF WillHave, WillShow, t
  <2> QED BY <2>3, <2>4
<1>4. CASE p.type # "block"
  <2>1. /\ s2 = [s EXCEPT ![p.block] = IF @ = NotLoaded THEN @ ELSE @ \cup {p.change}]
        /\ p.block \in Blocks /\ p.change \in Changes /\ p.type = "node"
    BY <1>1, <1>4 DEF p, DownPacket
  <2>2. /\ ~IsBlock(d, 1, b)
        /\ \A k : Brings(d, 1, b, k) <=> b = p.block /\ k = p.change
    <3>1. ~IsBlock(d, 1, b)
      BY <1>1, <2>1 DEF IsBlock
    <3>2. ASSUME NEW k PROVE IsNode(d, 1, b, k) <=> b = p.block /\ k = p.change
      BY <1>1, <2>1, Zenon DEF IsNode
    <3> QED BY <3>1, <3>2, Zenon DEF Brings
  <2>3. CASE b = p.block /\ s[b] # NotLoaded
    <3>1. s2[b] = s[b] \cup {p.change} /\ s2[b] # NotLoaded
      BY <2>1, <2>3, Numbers
    <3> QED BY <1>2, <2>2, <2>3, <3>1 DEF WillHave, WillShow, t
  <2>4. CASE b = p.block /\ s[b] = NotLoaded
    <3>1. s2[b] = s[b]
      BY <2>1, <2>4
    <3>2. ~LastFrom(t, 0, b)
      <4>1. PICK i \in DOMAIN t : IsBlock(t, i, b)
        BY <1>2, <2>2, <2>4 DEF WillHave
      <4>2. i > 0
        BY <4>1, HeadAndTail DEF t
      <4> QED BY <4>1, <4>2 DEF LastFrom
    <3> QED BY <1>2, <2>2, <2>4, <3>1, <3>2 DEF WillHave, WillShow, t
  <2>5. CASE b # p.block
    <3>1. s2[b] = s[b]
      BY <2>1, <2>5
    <3> QED BY <1>2, <2>2, <2>5, <3>1 DEF WillHave, WillShow, t
  <2> QED BY <2>3, <2>4, <2>5
<1> QED BY <1>3, <1>4

\* d2 is d and the packets ps after it.
Continues(d2, d, ps, b) ==
    /\ \A i \in DOMAIN d2 : \/ i \in DOMAIN d
                            \/ \E j \in DOMAIN ps : i = Len(d) + j /\ d2[i] = ps[j]
    /\ \A j \in DOMAIN ps : Len(d) + j \in DOMAIN d2 /\ d2[Len(d) + j] = ps[j]
    /\ \A i \in DOMAIN d : /\ i \in DOMAIN d2
                           /\ IsBlock(d2, i, b) <=> IsBlock(d, i, b)
                           /\ \A k : Brings(d2, i, b, k) <=> Brings(d, i, b, k)
    /\ \A i \in DOMAIN d : i \in 1..Len(d)
    /\ Len(d) \in Nat /\ \A j \in DOMAIN ps : j \in Nat \ {0}

LEMMA Joined ==
    ASSUME NEW d \in Seq(DownPacket), NEW ps \in Seq(DownPacket), NEW b
    PROVE  Continues(d \o ps, d, ps, b)
<1> DEFINE d2 == d \o ps
<1>1. /\ Longer(d2, d) /\ DOMAIN d2 = 1..Len(d) + Len(ps) /\ Len(d) \in Nat /\ Len(ps) \in Nat
      /\ DOMAIN d = 1..Len(d) /\ DOMAIN ps = 1..Len(ps)
      /\ \A i \in 1..Len(ps) : d2[Len(d) + i] = ps[i]
  BY LongerSends
<1> HIDE DEF d2
<1>2. ASSUME NEW i \in DOMAIN d2, i \notin DOMAIN d
      PROVE  \E j \in DOMAIN ps : i = Len(d) + j /\ d2[i] = ps[j]
  <2>1. i - Len(d) \in DOMAIN ps /\ i = Len(d) + (i - Len(d))
    BY <1>1, <1>2
  <2> QED BY <1>1, <2>1
<1>3. ASSUME NEW i \in DOMAIN d
      PROVE  /\ i \in DOMAIN d2
             /\ IsBlock(d2, i, b) <=> IsBlock(d, i, b)
             /\ \A k : Brings(d2, i, b, k) <=> Brings(d, i, b, k)
  BY <1>1 DEF Longer, IsBlock, IsNode, Brings
<1>4. /\ \A i \in DOMAIN d : i \in 1..Len(d)
      /\ Len(d) \in Nat /\ \A j \in DOMAIN ps : j \in Nat \ {0}
      /\ \A j \in DOMAIN ps : Len(d) + j \in DOMAIN d2 /\ d2[Len(d) + j] = ps[j]
  BY <1>1
<1>5. Continues(d2, d, ps, b)
  BY <1>2, <1>3, <1>4, Zenon DEF Continues
<1> QED BY <1>5 DEF d2

\* What is sent of other blocks.
LEMMA OthersSent ==
    ASSUME NEW d \in Seq(DownPacket), NEW ps \in Seq(DownPacket), NEW b, NEW s,
           \A j \in DOMAIN ps : ps[j].block # b
    PROVE  /\ WillHave(s, d \o ps, b) <=> WillHave(s, d, b)
           /\ \A k : WillShow(s, d \o ps, b, k) <=> WillShow(s, d, b, k)
<1> DEFINE d2 == d \o ps
<1>1. /\ \A i \in DOMAIN d2 : \/ i \in DOMAIN d
                              \/ \E j \in DOMAIN ps : i = Len(d) + j /\ d2[i] = ps[j]
      /\ \A i \in DOMAIN d : /\ i \in DOMAIN d2
                             /\ IsBlock(d2, i, b) <=> IsBlock(d, i, b)
                             /\ \A k : Brings(d2, i, b, k) <=> Brings(d, i, b, k)
  <2>1. Continues(d2, d, ps, b)
    BY Joined
  <2> HIDE DEF d2
  <2> QED BY <2>1, Zenon DEF Continues
<1> HIDE DEF d2
<1>2. ASSUME NEW i \in DOMAIN d2, i \notin DOMAIN d
      PROVE  ~IsBlock(d2, i, b) /\ \A k : ~Brings(d2, i, b, k)
  BY <1>1, <1>2 DEF IsBlock, IsNode, Brings
<1>3. ASSUME NEW i PROVE LastFrom(d2, i, b) <=> LastFrom(d, i, b)
  BY <1>1, <1>2, Zenon DEF LastFrom
<1>4. WillHave(s, d2, b) <=> WillHave(s, d, b)
  BY <1>1, <1>2, Zenon DEF WillHave
<1>5. ASSUME NEW k PROVE WillShow(s, d2, b, k) <=> WillShow(s, d, b, k)
  BY <1>1, <1>2, <1>3, Zenon DEF WillShow
<1> QED BY <1>4, <1>5 DEF d2

\* What is sent of the block itself, once, is what the client will have.
LEMMA BlockSent ==
    ASSUME NEW d \in Seq(DownPacket), NEW ps \in Seq(DownPacket), NEW b, NEW s,
           NEW n \in DOMAIN ps, IsBlock(ps, n, b), \A j \in DOMAIN ps : ps[j].block = b => j = n
    PROVE  /\ WillHave(s, d \o ps, b)
           /\ \A k : WillShow(s, d \o ps, b, k) <=> k \in ps[n].content
<1> DEFINE d2 == d \o ps
           g == Len(d) + n
<1>1. /\ \A i \in DOMAIN d2 : \/ i \in DOMAIN d
                              \/ \E j \in DOMAIN ps : i = Len(d) + j /\ d2[i] = ps[j]
      /\ \A j \in DOMAIN ps : Len(d) + j \in DOMAIN d2 /\ d2[Len(d) + j] = ps[j]
      /\ \A i \in DOMAIN d : i \in 1..Len(d)
      /\ Len(d) \in Nat /\ \A j \in DOMAIN ps : j \in Nat \ {0}
  <2>1. Continues(d2, d, ps, b)
    BY Joined
  <2> HIDE DEF d2
  <2> QED BY <2>1, Zenon DEF Continues
<1> HIDE DEF d2
<1>2. /\ g \in DOMAIN d2 /\ IsBlock(d2, g, b) /\ g > 0
      /\ \A k : Brings(d2, g, b, k) <=> k \in ps[n].content
  BY <1>1 DEF IsBlock, IsNode, Brings
<1>3. ASSUME NEW i \in DOMAIN d2, i # g
      PROVE  i < g \/ (~IsBlock(d2, i, b) /\ \A k : ~Brings(d2, i, b, k))
  <2>1. CASE i \in DOMAIN d
    BY <1>1, <2>1
  <2>2. CASE i \notin DOMAIN d
    <3>1. PICK j \in DOMAIN ps : i = Len(d) + j /\ d2[i] = ps[j]
      BY <1>1, <2>2
    <3>2. j # n
      BY <1>3, <3>1
    <3>3. d2[i].block # b
      BY <3>1, <3>2
    <3> QED BY <3>3 DEF IsBlock, IsNode, Brings
  <2> QED BY <2>1, <2>2
<1>4. LastFrom(d2, g, b)
  <2> SUFFICES ASSUME NEW j \in DOMAIN d2, j > g PROVE ~IsBlock(d2, j, b)
    BY DEF LastFrom
  <2>1. j # g /\ ~(j < g)
    <3>1. j \in Nat /\ g \in Nat
      BY <1>1
    <3> QED BY <3>1
  <2> QED BY <1>3, <2>1
<1>5. ASSUME NEW i, i < g PROVE ~LastFrom(d2, i, b)
  BY <1>2, <1>5 DEF LastFrom
<1> HIDE DEF g
<1>6. WillHave(s, d2, b)
  BY <1>2 DEF WillHave
<1>7. ~LastFrom(d2, 0, b)
  BY <1>2 DEF LastFrom
<1>8. ASSUME NEW k PROVE WillShow(s, d2, b, k) <=> k \in ps[n].content
  <2>1. ASSUME NEW i \in DOMAIN d2, LastFrom(d2, i, b), Brings(d2, i, b, k) PROVE i = g
    BY <1>3, <1>5, <2>1
  <2> QED BY <1>2, <1>4, <1>7, <2>1, Zenon DEF WillShow
<1> QED BY <1>6, <1>8 DEF d2

\* A node that is sent by itself.
LEMMA NodeSent ==
    ASSUME NEW d \in Seq(DownPacket), NEW p \in DownPacket, p.type = "node", NEW b, NEW s
    PROVE  /\ WillHave(s, Append(d, p), b) <=> WillHave(s, d, b)
           /\ \A k : WillShow(s, Append(d, p), b, k)
                       <=> WillShow(s, d, b, k) \/ (p.block = b /\ p.change = k)
<1> DEFINE ps == <<p>>
           d2 == d \o ps
           g == Len(d) + 1
<1>1. Append(d, p) = d2 /\ ps \in Seq(DownPacket) /\ DOMAIN ps = {1} /\ ps[1] = p
  <2> HIDE DEF DownPacket
  <2> QED OBVIOUS
<1> HIDE DEF ps
<1>2. /\ \A i \in DOMAIN d2 : \/ i \in DOMAIN d
                              \/ \E j \in DOMAIN ps : i = Len(d) + j /\ d2[i] = ps[j]
      /\ \A j \in DOMAIN ps : Len(d) + j \in DOMAIN d2 /\ d2[Len(d) + j] = ps[j]
      /\ \A i \in DOMAIN d : /\ i \in DOMAIN d2
                             /\ IsBlock(d2, i, b) <=> IsBlock(d, i, b)
                             /\ \A k : Brings(d2, i, b, k) <=> Brings(d, i, b, k)
      /\ \A i \in DOMAIN d : i \in 1..Len(d)
      /\ Len(d) \in Nat
  <2>1. Continues(d2, d, ps, b)
    BY <1>1, Joined
  <2> HIDE DEF d2
  <2> QED BY <2>1, Zenon DEF Continues
<1> HIDE DEF d2
<1>3. /\ g \in DOMAIN d2 /\ d2[g] = p /\ \A i \in DOMAIN d2 : i \in DOMAIN d \/ i = g
      /\ \A i \in DOMAIN d : i \in Nat /\ i < g
  BY <1>1, <1>2
<1> HIDE DEF g
<1>4. ~IsBlock(d2, g, b)
  BY <1>3 DEF IsBlock
<1>5. ASSUME NEW k PROVE Brings(d2, g, b, k) <=> p.block = b /\ p.change = k
  <2>1. IsNode(d2, g, b, k) <=> p.block = b /\ p.change = k
    BY <1>3, Zenon DEF IsNode
  <2> QED BY <1>4, <2>1, Zenon DEF Brings
<1>6. ASSUME NEW i PROVE LastFrom(d2, i, b) <=> LastFrom(d, i, b)
  BY <1>2, <1>3, <1>4, Zenon DEF LastFrom
<1>7. LastFrom(d2, g, b)
  <2>1. \A j \in DOMAIN d2 : ~(j > g)
    BY <1>2, <1>3 DEF g
  <2> QED BY <2>1 DEF LastFrom
<1>8. WillHave(s, d2, b) <=> WillHave(s, d, b)
  BY <1>2, <1>3, <1>4, Zenon DEF WillHave
<1>9. ASSUME NEW k PROVE WillShow(s, d2, b, k) <=> WillShow(s, d, b, k) \/ (p.block = b /\ p.change = k)
  BY <1>2, <1>3, <1>5, <1>6, <1>7, Zenon DEF WillShow
<1> QED BY <1>1, <1>8, <1>9

-----------------------------------------------------------------------------
(* The block transfer: what the server counts as sent is up to date        *)

DeletedIn(u, b) == \E i \in DOMAIN u[2] : u[2][i].type = "deleted" /\ u[2][i].block = b

\* b is about to count as not sent: the client forgot it, or it changed as a
\* whole in an event after the first n.
Resets(u, ev, n, b) ==
    \/ DeletedIn(u, b)
    \/ \E m \in DOMAIN ev : m > n /\ ev[m].type = "other" /\ b \in ev[m].modified_blocks

AnnouncedLater(ev, n, b, k) ==
    \E m \in DOMAIN ev : m > n /\ ev[m].type = "node" /\ ev[m].block = b /\ ev[m].change = k

\* The client shows k of b before the server has heard of it.
Predicted(u, b, k) ==
    \E i \in DOMAIN u[0] : /\ u[0][i].change = k
                           /\ b = IF u[0][i].type = "dig" THEN u[0][i].under ELSE u[0][i].above

\* Once the packets d have arrived where s is shown, the client has b, with the
\* changes c[b] but for those that are announced after the first n events, and
\* with nothing else but what it predicts.
UpToDate(s, d, c, u, ev, n, b) ==
    ~Resets(u, ev, n, b) =>
      /\ WillHave(s, d, b)
      /\ \A k \in Changes : /\ WillShow(s, d, b, k) => k \in c[b] \/ Predicted(u, b, k)
                            /\ k \in c[b] => WillShow(s, d, b, k) \/ AnnouncedLater(ev, n, b, k)

\* Nodes of which events tell have changed, and are of blocks that are there.
NodesKept(ev, c) ==
    \A m \in DOMAIN ev : ev[m].type = "node" =>
      ev[m].change \in c[ev[m].block] /\ ev[m].modified_blocks = {ev[m].block}

CountedAsSent == client.sending \cup client.sent

TransferInv ==
    /\ TransferTypes
    /\ down[0] = <<>>
    /\ NodesKept(events, content)
    /\ \A b \in CountedAsSent : UpToDate(shown, down[2], content, up, events, 0, b)

SameFuture(s2, d2, s, d, b) ==
    WillHave(s2, d2, b) /\ \A k \in Changes : WillShow(s2, d2, b, k) <=> WillShow(s, d, b, k)

LEMMA StillUpToDate ==
    ASSUME NEW s, NEW d, NEW c, NEW u, NEW ev, NEW n, NEW b,
           NEW s2, NEW d2, NEW c2, NEW u2, NEW ev2, NEW n2,
           UpToDate(s, d, c, u, ev, n, b),
           Resets(u, ev, n, b) => Resets(u2, ev2, n2, b),
           WillHave(s, d, b) => SameFuture(s2, d2, s, d, b),
           \A k \in Changes :
             /\ k \in c[b] => k \in c2[b]
             /\ k \in c2[b] => k \in c[b] \/ AnnouncedLater(ev2, n2, b, k)
             /\ Predicted(u, b, k) => Predicted(u2, b, k) \/ k \in c2[b]
             /\ AnnouncedLater(ev, n, b, k) => AnnouncedLater(ev2, n2, b, k)
    PROVE  UpToDate(s2, d2, c2, u2, ev2, n2, b)
<1> SUFFICES ASSUME ~Resets(u2, ev2, n2, b)
             PROVE  /\ WillHave(s2, d2, b)
                    /\ \A k \in Changes :
                         /\ WillShow(s2, d2, b, k) => k \in c2[b] \/ Predicted(u2, b, k)
                         /\ k \in c2[b] => WillShow(s2, d2, b, k) \/ AnnouncedLater(ev2, n2, b, k)
  BY DEF UpToDate
<1>1. /\ WillHave(s, d, b)
      /\ \A k \in Changes : /\ WillShow(s, d, b, k) => k \in c[b] \/ Predicted(u, b, k)
                            /\ k \in c[b] => WillShow(s, d, b, k) \/ AnnouncedLater(ev, n, b, k)
  BY DEF UpToDate
<1>2. WillHave(s2, d2, b) /\ \A k \in Changes : WillShow(s2, d2, b, k) <=> WillShow(s, d, b, k)
  BY <1>1 DEF SameFuture
<1> QED BY <1>1, <1>2

LEMMA NothingForgotten ==
    ASSUME NEW u, NEW u2, NEW ev, NEW ev2, NEW n, NEW b,
           Longer(u2[0], u[0]), Longer(u2[2], u[2]), Longer(ev2, ev)
    PROVE  /\ DeletedIn(u, b) => DeletedIn(u2, b)
           /\ Resets(u, ev, n, b) => Resets(u2, ev2, n, b)
           /\ \A k : Predicted(u, b, k) => Predicted(u2, b, k)
           /\ \A k : AnnouncedLater(ev, n, b, k) => AnnouncedLater(ev2, n, b, k)
<1>1. DeletedIn(u, b) => DeletedIn(u2, b)
  BY DEF DeletedIn, Longer
<1>2. Resets(u, ev, n, b) => Resets(u2, ev2, n, b)
  BY <1>1 DEF Resets, Longer
<1>3. ASSUME NEW k PROVE Predicted(u, b, k) => Predicted(u2, b, k)
  BY DEF Predicted, Longer
<1>4. ASSUME NEW k PROVE AnnouncedLater(ev, n, b, k) => AnnouncedLater(ev2, n, b, k)
  BY DEF AnnouncedLater, Longer
<1> QED BY <1>1, <1>2, <1>3, <1>4

\* An event is queued, or none.
LEMMA Queued ==
    ASSUME NEW ev \in Seq(NodeEvents \cup OtherEvents), NEW e \in NodeEvents \cup OtherEvents,
           NEW c, NEW c2, \A b \in Blocks : c[b] \subseteq c2[b], NodesKept(ev, c),
           e.type = "node" => e.change \in c2[e.block] /\ e.modified_blocks = {e.block},
           NEW ev2, ev2 = ev \/ ev2 = Append(ev, e)
    PROVE  /\ NodesKept(ev2, c2) /\ Longer(ev2, ev)
           /\ ev2 = Append(ev, e) => /\ Len(ev) + 1 \in DOMAIN ev2 /\ ev2[Len(ev) + 1] = e
                                     /\ Len(ev) + 1 > 0
<1> DEFINE S == NodeEvents \cup OtherEvents
<1>1. DOMAIN ev = 1..Len(ev) /\ Len(ev) \in Nat /\ \A m \in DOMAIN ev : ev[m] \in S
  OBVIOUS
<1>2. \A x \in S : x.type = "node" => x.block \in Blocks
  BY DEF NodeEvents, OtherEvents
<1> HIDE DEF S
<1>3. NodesKept(ev, c2)
  BY <1>1, <1>2 DEF NodesKept
<1>4. CASE ev2 = ev /\ ev2 # Append(ev, e)
  BY <1>3, <1>4 DEF Longer
<1>5. CASE ev2 = Append(ev, e)
  <2>1. ev \in Seq(S) /\ e \in S
    BY DEF S
  <2>2. /\ DOMAIN ev2 = 1..Len(ev) + 1 /\ \A i \in 1..Len(ev) : ev2[i] = ev[i]
        /\ ev2[Len(ev) + 1] = e
    BY <1>5, <2>1, Appended
  <2>3. Longer(ev2, ev)
    BY <1>1, <2>2 DEF Longer
  <2>4. \A m \in DOMAIN ev2 : m \in DOMAIN ev \/ ev2[m] = e
    BY <1>1, <2>2
  <2>5. NodesKept(ev2, c2)
    BY <1>3, <2>3, <2>4, Zenon DEF NodesKept, Longer
  <2>6. Len(ev) + 1 \in DOMAIN ev2 /\ Len(ev) + 1 > 0
    BY <1>1, <2>2
  <2> QED BY <2>2, <2>3, <2>5, <2>6
<1> QED BY <1>4, <1>5

\* What has changed in the map is announced by event e, if one is queued.
Announces(e) ==
    /\ events' = events \/ events' = Append(events, e)
    /\ e.type = "node" => e.change \in content'[e.block] /\ e.modified_blocks = {e.block}
    /\ \A b \in Blocks : content[b] \subseteq content'[b]
    /\ \A b \in Blocks : \A k \in content'[b] \ content[b] :
         /\ events' = Append(events, e)
         /\ \/ e.type = "node" /\ e.block = b /\ e.change = k
            \/ e.type = "other" /\ b \in e.modified_blocks

\* A prediction is not forgotten before it has come true, nor what was deleted.
StillPredicted ==
    \A b \in CountedAsSent' :
      /\ DeletedIn(up, b) => DeletedIn(up', b)
      /\ \A k \in Changes : Predicted(up, b, k) => Predicted(up', b, k) \/ k \in content'[b]

\* What the map, an emerge thread or the handler of a packet does: no packet is
\* sent or arrives.
LEMMA MapChanges ==
    ASSUME TransferInv, TransferTypes', down' = down, shown' = shown,
           NEW e \in NodeEvents \cup OtherEvents, Announces(e),
           CountedAsSent' \subseteq CountedAsSent, StillPredicted
    PROVE  TransferInv'
<1>1. /\ events \in Seq(NodeEvents \cup OtherEvents) /\ NodesKept(events, content)
      /\ CountedAsSent' \subseteq Blocks /\ down[0] = <<>>
  BY DEF TransferInv, TransferTypes, BlockClient, CountedAsSent
<1>2. /\ NodesKept(events', content') /\ Longer(events', events)
      /\ events' = Append(events, e) => /\ Len(events) + 1 \in DOMAIN events'
                                        /\ events'[Len(events) + 1] = e /\ Len(events) + 1 > 0
  <2> DEFINE ev == events
             ev2 == events'
             c == content
             c2 == content'
  <2>1. /\ ev \in Seq(NodeEvents \cup OtherEvents) /\ NodesKept(ev, c)
        /\ \A b \in Blocks : c[b] \subseteq c2[b]
        /\ e.type = "node" => e.change \in c2[e.block] /\ e.modified_blocks = {e.block}
        /\ ev2 = ev \/ ev2 = Append(ev, e)
    BY <1>1, Zenon DEF Announces
  <2> HIDE DEF ev, ev2, c, c2
  <2>2. /\ NodesKept(ev2, c2) /\ Longer(ev2, ev)
        /\ ev2 = Append(ev, e) => /\ Len(ev) + 1 \in DOMAIN ev2
                                  /\ ev2[Len(ev) + 1] = e /\ Len(ev) + 1 > 0
    BY <2>1, Queued, Zenon
  <2> QED BY <2>2 DEF ev, ev2, c, c2
<1>3. ASSUME NEW b \in CountedAsSent'
      PROVE  UpToDate(shown', down'[2], content', up', events', 0, b)
  <2>1. b \in Blocks /\ UpToDate(shown, down[2], content, up, events, 0, b)
    BY <1>1 DEF TransferInv
  <2>2. Resets(up, events, 0, b) => Resets(up', events', 0, b)
    BY <1>2 DEF Resets, Longer, StillPredicted
  <2>3. \A k : AnnouncedLater(events, 0, b, k) => AnnouncedLater(events', 0, b, k)
    BY <1>2 DEF AnnouncedLater, Longer
  <2>4. SameFuture(shown', down'[2], shown, down[2], b) \/ ~WillHave(shown, down[2], b)
    BY Zenon DEF SameFuture
  <2>5. CASE events' = Append(events, e) /\ e.type = "other" /\ b \in e.modified_blocks
    <3>1. Resets(up', events', 0, b)
      BY <1>2, <2>5 DEF Resets
    <3> QED BY <3>1 DEF UpToDate
  <2>6. CASE ~(events' = Append(events, e) /\ e.type = "other" /\ b \in e.modified_blocks)
    <3>1. ASSUME NEW k \in content'[b], k \notin content[b] PROVE AnnouncedLater(events', 0, b, k)
      <4>1. events' = Append(events, e) /\ e.type = "node" /\ e.block = b /\ e.change = k
        BY <2>1, <2>6, <3>1 DEF Announces
      <4> QED BY <1>2, <4>1 DEF AnnouncedLater
    <3>2. \A k \in Changes :
             /\ k \in content[b] => k \in content'[b]
             /\ k \in content'[b] => k \in content[b] \/ AnnouncedLater(events', 0, b, k)
             /\ Predicted(up, b, k) => Predicted(up', b, k) \/ k \in content'[b]
             /\ AnnouncedLater(events, 0, b, k) => AnnouncedLater(events', 0, b, k)
      BY <2>1, <2>3, <3>1 DEF Announces, StillPredicted
    <3> QED BY <2>1, <2>2, <2>4, <3>2, StillUpToDate
  <2> QED BY <2>5, <2>6
<1> QED BY <1>1, <1>2, <1>3, Zenon DEF TransferInv

LEMMA FutureKept ==
    ASSUME NEW s, NEW d, NEW c, NEW u, NEW ev, NEW n, NEW b, NEW s2, NEW d2,
           UpToDate(s, d, c, u, ev, n, b), WillHave(s, d, b) => SameFuture(s2, d2, s, d, b)
    PROVE  UpToDate(s2, d2, c, u, ev, n, b)
BY DEF UpToDate, SameFuture

LEMMA FreshlySent ==
    ASSUME NEW s, NEW d, NEW c, NEW u, NEW ev, NEW n, NEW b,
           WillHave(s, d, b), \A k : WillShow(s, d, b, k) <=> k \in c[b]
    PROVE  UpToDate(s, d, c, u, ev, n, b)
BY DEF UpToDate

\* BLOCKDATA of some blocks, each once.
LEMMA BlocksSent ==
    ASSUME NEW d \in Seq(DownPacket), NEW sent \in Seq(Blocks),
           \A i, j \in DOMAIN sent : sent[i] = sent[j] => i = j,
           NEW ps \in Seq(DownPacket), ps = [i \in DOMAIN sent |-> BlockData(sent[i])],
           NEW b, NEW s, NEW u, NEW ev,
           b \in Range(sent) \/ UpToDate(s, d, content, u, ev, 0, b)
    PROVE  UpToDate(s, d \o ps, content, u, ev, 0, b)
<1>1. /\ DOMAIN ps = DOMAIN sent
      /\ \A i \in DOMAIN ps : /\ ps[i].type = "block" /\ ps[i].block = sent[i]
                              /\ ps[i].content = content[sent[i]]
  BY DEF BlockData
<1>2. CASE b \in Range(sent)
  <2>1. PICK n \in DOMAIN sent : sent[n] = b
    BY <1>2 DEF Range
  <2>2. /\ n \in DOMAIN ps /\ IsBlock(ps, n, b) /\ \A j \in DOMAIN ps : ps[j].block = b => j = n
        /\ ps[n].content = content[b]
    BY <1>1, <2>1 DEF IsBlock
  <2>3. WillHave(s, d \o ps, b) /\ \A k : WillShow(s, d \o ps, b, k) <=> k \in content[b]
    BY <2>2, BlockSent
  <2> QED BY <2>3, FreshlySent
<1>3. CASE b \notin Range(sent)
  <2>1. \A j \in DOMAIN ps : ps[j].block # b
    BY <1>1, <1>3 DEF Range
  <2>2. WillHave(s, d, b) => SameFuture(s, d \o ps, s, d, b)
    BY <2>1, OthersSent DEF SameFuture
  <2> QED BY <1>3, <2>2, FutureKept
<1> QED BY <1>2, <1>3

LEMMA OneChannel ==
    ASSUME Races = {}, NEW d, Downward(d), NEW p \in DownPacket
    PROVE  Send(d, p)[0] = d[0] /\ Send(d, p)[2] = Append(d[2], p)
<1>1. DownChannel(p) = 2
  BY DEF DownChannel
<1> QED BY <1>1 DEF Send, Downward

LEMMA ScanKeeps ==
    ASSUME TransferInv, TransferTypes', SendBlocks
    PROVE  TransferInv'
<1>1. PICK sent : Scanned(sent)
  BY Scan DEF TransferInv, TransferTypes, MapTypes
<1> DEFINE ps == [i \in DOMAIN sent |-> BlockData(sent[i])]
           d == down[2]
<1>2. /\ sent \in Seq(Blocks) /\ d \in Seq(DownPacket) /\ DOMAIN down = {0, 2}
      /\ \A i, j \in DOMAIN sent : sent[i] = sent[j] => i = j
      /\ content \in [Blocks -> SUBSET Changes]
  BY <1>1 DEF Scanned, TransferInv, TransferTypes, MapTypes, Downward
<1>3. ps \in Seq(DownPacket)
  <2>1. \A i \in DOMAIN sent : BlockData(sent[i]) \in DownPacket
    BY <1>2 DEF BlockData, DownPacket
  <2> HIDE DEF DownPacket
  <2> QED BY <1>2, <2>1
<1>4. /\ down'[2] = d \o ps /\ down'[0] = down[0]
      /\ CountedAsSent' = CountedAsSent \cup Range(sent)
      /\ UNCHANGED <<content, events, up, shown>>
  <2>1. /\ down' = [down EXCEPT ![2] = @ \o ps]
        /\ client'.sending = client.sending \cup Range(sent) /\ client'.sent = client.sent
    BY <1>1, Zenon DEF Scanned
  <2>2. UNCHANGED <<content, events, up, shown>>
    BY Zenon DEF SendBlocks, clientVars
  <2> HIDE DEF ps
  <2> QED BY <1>2, <2>1, <2>2 DEF CountedAsSent
<1>5. ps = [i \in DOMAIN sent |-> BlockData(sent[i])]
  OBVIOUS
<1> HIDE DEF ps, d
<1>6. ASSUME NEW b \in CountedAsSent'
      PROVE  UpToDate(shown', down'[2], content', up', events', 0, b)
  <2>1. b \in Range(sent) \/ UpToDate(shown, d, content, up, events, 0, b)
    BY <1>4, <1>6 DEF TransferInv, d
  <2>2. UpToDate(shown, d \o ps, content, up, events, 0, b)
    BY <1>2, <1>3, <1>5, <2>1, BlocksSent
  <2> QED BY <1>4, <2>2
<1>7. down'[0] = <<>> /\ NodesKept(events', content')
  BY <1>4 DEF TransferInv
<1> QED BY <1>6, <1>7, Zenon DEF TransferInv

LEMMA BlockForModKeeps ==
    ASSUME Races = {}, TransferInv, TransferTypes', NEW q \in Blocks, SendBlock(q)
    PROVE  TransferInv'
<1> DEFINE sent == <<q>>
           ps == [i \in DOMAIN sent |-> BlockData(sent[i])]
           d == down[2]
           p == BlockData(q)
<1>1. /\ p \in DownPacket /\ d \in Seq(DownPacket) /\ Downward(down)
  BY DEF BlockData, DownPacket, TransferInv, TransferTypes, MapTypes, Downward
<1>2. /\ ps = <<p>> /\ sent \in Seq(Blocks) /\ Range(sent) = {q}
      /\ \A i, j \in DOMAIN sent : sent[i] = sent[j] => i = j
  BY DEF Range
<1>3. down' = Send(down, p) /\ UNCHANGED <<content, events, up, shown, client>>
  BY DEF SendBlock, clientVars
<1>4. ps = [i \in DOMAIN sent |-> BlockData(sent[i])]
  OBVIOUS
<1> HIDE DEF p, sent, ps
<1>5. /\ down'[2] = Append(d, p) /\ down'[0] = down[0] /\ CountedAsSent' = CountedAsSent
  BY <1>1, <1>3, OneChannel DEF CountedAsSent
<1> HIDE DEF d
<1>6. Append(d, p) = d \o ps /\ ps \in Seq(DownPacket)
  <2> HIDE DEF DownPacket
  <2> QED BY <1>1, <1>2
<1>7. ASSUME NEW b \in CountedAsSent'
      PROVE  UpToDate(shown', down'[2], content', up', events', 0, b)
  <2>1. UpToDate(shown, d, content, up, events, 0, b)
    BY <1>5, <1>7 DEF TransferInv, d
  <2>2. UpToDate(shown, d \o ps, content, up, events, 0, b)
    BY <1>1, <1>2, <1>4, <1>6, <2>1, BlocksSent
  <2> QED BY <1>3, <1>5, <1>6, <2>2
<1>8. down'[0] = <<>> /\ NodesKept(events', content')
  BY <1>3, <1>5 DEF TransferInv
<1> QED BY <1>7, <1>8, Zenon DEF TransferInv

LEMMA PacketKeeps ==
    ASSUME TransferInv, TransferTypes', BlockDataReceived \/ \E ch \in {0, 2} : NodeReceived(ch)
    PROVE  TransferInv'
<1> DEFINE d == down[2]
           p == Head(d)
<1>0. TransferTypes /\ down[0] = <<>>
  BY DEF TransferInv
<1>1. /\ d # <<>> /\ down'[2] = Tail(d) /\ down'[0] = down[0] /\ UNCHANGED <<content, events, up, client>>
      /\ IF p.type = "block" THEN shown' = [shown EXCEPT ![p.block] = p.content]
         ELSE shown' = [shown EXCEPT ![p.block] = IF @ = NotLoaded THEN @ ELSE @ \cup {p.change}]
  <2>1. CASE BlockDataReceived
    <3>1. HandleDown(2, "block") /\ shown' = [shown EXCEPT ![p.block] = p.content]
      BY <2>1 DEF BlockDataReceived
    <3>2. /\ d # <<>> /\ p.type = "block" /\ down'[2] = Tail(d) /\ down'[0] = down[0]
          /\ UNCHANGED <<content, events, up, client>>
      BY <1>0, <3>1, HandledDown
    <3> HIDE DEF p
    <3> QED BY <3>1, <3>2
  <2>2. ASSUME NEW ch \in {0, 2}, NodeReceived(ch)
        PROVE  /\ d # <<>> /\ down'[2] = Tail(d) /\ down'[0] = down[0]
               /\ UNCHANGED <<content, events, up, client>> /\ p.type = "node"
               /\ shown' = [shown EXCEPT ![p.block] = IF @ = NotLoaded THEN @ ELSE @ \cup {p.change}]
    <3>1. HandleDown(ch, "node")
      BY <2>2 DEF NodeReceived
    <3>2. ch = 2
      BY <1>0, <3>1, HandledDown
    <3>3. /\ d # <<>> /\ p.type = "node" /\ down'[2] = Tail(d) /\ down'[0] = down[0]
          /\ UNCHANGED <<content, events, up, client>>
      BY <1>0, <3>1, <3>2, HandledDown
    <3>4. shown' = [shown EXCEPT ![p.block] = IF @ = NotLoaded THEN @ ELSE @ \cup {p.change}]
      BY <2>2, <3>2 DEF NodeReceived
    <3> QED BY <3>3, <3>4
  <2> HIDE DEF p, d
  <2> QED BY <2>1, <2>2
<1>2. /\ shown \in [Blocks -> {NotLoaded} \cup SUBSET Changes] /\ d \in Seq(DownPacket)
      /\ CountedAsSent \subseteq Blocks /\ CountedAsSent' = CountedAsSent
  BY <1>0, <1>1 DEF TransferTypes, Downward, CountedAsSent, BlockClient
<1> HIDE DEF d
<1>3. ASSUME NEW b \in CountedAsSent'
      PROVE  UpToDate(shown', down'[2], content', up', events', 0, b)
  <2>1. UpToDate(shown, d, content, up, events, 0, b) /\ b \in Blocks
    BY <1>2 DEF TransferInv, d
  <2>2. WillHave(shown, d, b) => SameFuture(shown', Tail(d), shown, d, b)
    BY <1>1, <1>2, <2>1, PacketArrives DEF SameFuture
  <2>3. UpToDate(shown', Tail(d), content, up, events, 0, b)
    BY <2>1, <2>2, FutureKept
  <2> QED BY <1>1, <2>3
<1>4. down'[0] = <<>> /\ NodesKept(events', content')
  BY <1>0, <1>1 DEF TransferInv
<1> QED BY <1>3, <1>4, Zenon DEF TransferInv

\* What changes when one more event counts as told.
LEMMA EventPassed ==
    ASSUME NEW ev \in Seq(NodeEvents \cup OtherEvents), NEW n \in 1..Len(ev), NEW u, NEW b,
           NEW e, e = ev[n]
    PROVE  /\ Resets(u, ev, n - 1, b) =>
                Resets(u, ev, n, b) \/ (e.type = "other" /\ b \in e.modified_blocks)
           /\ \A k : AnnouncedLater(ev, n - 1, b, k) =>
                AnnouncedLater(ev, n, b, k) \/ (e.type = "node" /\ e.block = b /\ e.change = k)
<1>1. n \in Nat /\ \A m \in DOMAIN ev : m \in Nat /\ (m > n - 1 => m > n \/ m = n)
  OBVIOUS
<1>2. ASSUME Resets(u, ev, n - 1, b)
      PROVE  Resets(u, ev, n, b) \/ (e.type = "other" /\ b \in e.modified_blocks)
  BY <1>1, <1>2, Zenon DEF Resets
<1>3. ASSUME NEW k, AnnouncedLater(ev, n - 1, b, k)
      PROVE  AnnouncedLater(ev, n, b, k) \/ (e.type = "node" /\ e.block = b /\ e.change = k)
  BY <1>1, <1>3, Zenon DEF AnnouncedLater
<1> QED BY <1>2, <1>3

\* An event whose blocks the server does not count as sent any more.
LEMMA ResetKeeps ==
    ASSUME NEW d, NEW n \in 1..Len(events), NEW b, NEW e, e = events[n],
           events \in Seq(NodeEvents \cup OtherEvents), NodesKept(events, content),
           UpToDate(shown, d, content, up, events, n - 1, b), b \notin e.modified_blocks
    PROVE  UpToDate(shown, d, content, up, events, n, b)
<1>1. e.type = "node" => e.block # b
  BY DEF NodesKept
<1>2. /\ Resets(up, events, n - 1, b) => Resets(up, events, n, b)
      /\ \A k : AnnouncedLater(events, n - 1, b, k) => AnnouncedLater(events, n, b, k)
  BY <1>1, EventPassed
<1> QED BY <1>2, Zenon DEF UpToDate

\* An event that is told by a packet.
LEMMA NodePacketKeeps ==
    ASSUME NEW d \in Seq(DownPacket), NEW n \in 1..Len(events), NEW b, NEW e, e = events[n],
           events \in Seq(NodeEvents \cup OtherEvents), NodesKept(events, content),
           e.type = "node", NEW p \in DownPacket, p = NodePacket(e),
           UpToDate(shown, d, content, up, events, n - 1, b)
    PROVE  UpToDate(shown, Append(d, p), content, up, events, n, b)
<1> DEFINE d2 == Append(d, p)
<1>1. /\ Resets(up, events, n - 1, b) => Resets(up, events, n, b)
      /\ \A k : AnnouncedLater(events, n - 1, b, k) =>
            AnnouncedLater(events, n, b, k) \/ (e.block = b /\ e.change = k)
  BY EventPassed
<1>2. p.type = "node" /\ p.block = e.block /\ p.change = e.change
  BY DEF NodePacket
<1>3. /\ WillHave(shown, d2, b) <=> WillHave(shown, d, b)
      /\ \A k : WillShow(shown, d2, b, k)
                       <=> WillShow(shown, d, b, k) \/ (e.block = b /\ e.change = k)
  <2>1. /\ WillHave(shown, Append(d, p), b) <=> WillHave(shown, d, b)
        /\ \A k : WillShow(shown, Append(d, p), b, k)
                       <=> WillShow(shown, d, b, k) \/ (p.block = b /\ p.change = k)
    BY <1>2, NodeSent, Zenon
  <2> QED BY <1>2, <2>1, Zenon
<1>4. e.change \in content[e.block]
  BY DEF NodesKept
<1> HIDE DEF d2
<1>5. ASSUME ~Resets(up, events, n, b)
      PROVE  /\ WillHave(shown, d2, b)
             /\ \A k \in Changes :
                  /\ WillShow(shown, d2, b, k) => k \in content[b] \/ Predicted(up, b, k)
                  /\ k \in content[b] => WillShow(shown, d2, b, k) \/ AnnouncedLater(events, n, b, k)
  <2>1. /\ WillHave(shown, d, b)
        /\ \A k \in Changes :
             /\ WillShow(shown, d, b, k) => k \in content[b] \/ Predicted(up, b, k)
             /\ k \in content[b] => WillShow(shown, d, b, k) \/ AnnouncedLater(events, n - 1, b, k)
    BY <1>1, <1>5, Zenon DEF UpToDate
  <2> QED BY <1>1, <1>3, <1>4, <2>1
<1> QED BY <1>5, Zenon DEF UpToDate, d2

\* All is up to date when n events have been told, to client c with packets d.
ToldUpTo(c, d, n) ==
    /\ d[0] = <<>>
    /\ \A b \in c.sending \cup c.sent : UpToDate(shown, d[2], content, up, events, n, b)

LEMMA EventKeeps ==
    ASSUME Races = {}, events \in Seq(NodeEvents \cup OtherEvents), NodesKept(events, content),
           NEW c \in BlockClient, c.sending \cap c.sent = {}, NEW d, Downward(d),
           NEW n \in 1..Len(events), NEW e \in NodeEvents \cup OtherEvents, e = events[n],
           NEW far \in BOOLEAN, NEW s, s = Announce(Pair(c, d), e, far), ToldUpTo(c, d, n - 1)
    PROVE  ToldUpTo(s.client, s.down, n)
<1>0. /\ d[0] = <<>>
      /\ \A b \in c.sending \cup c.sent : UpToDate(shown, d[2], content, up, events, n - 1, b)
  BY Zenon DEF ToldUpTo
<1>1. CASE e.type = "node" /\ e.block \in c.sent /\ ~far
  <2> DEFINE p == NodePacket(e)
             d2 == Send(d, p)
  <2>1. s = Pair(c, d2)
    BY <1>1, Announcing
  <2>2. p \in DownPacket /\ p = NodePacket(e)
    BY <1>1 DEF NodePacket, DownPacket, NodeEvents, OtherEvents
  <2> HIDE DEF p
  <2>3. d2[0] = <<>> /\ d2[2] = Append(d[2], p) /\ d[2] \in Seq(DownPacket)
    BY <1>0, <2>2, OneChannel DEF Downward
  <2> HIDE DEF d2
  <2>4. ASSUME NEW b \in c.sending \cup c.sent
        PROVE  UpToDate(shown, d2[2], content, up, events, n, b)
    BY <1>0, <1>1, <2>2, <2>3, NodePacketKeeps
  <2>5. s.client = c /\ s.down = d2
    BY <2>1 DEF Pair
  <2> QED BY <2>3, <2>4, <2>5, Zenon DEF ToldUpTo
<1>2. CASE ~(e.type = "node" /\ e.block \in c.sent /\ ~far)
  <2> DEFINE bs == e.modified_blocks
             low == e.low_priority
             c2 == SetBlocksNotSent(c, bs, low)
  <2>1. s = Pair(c2, d)
    BY <1>2 DEF Announce, Pair
  <2>2. bs \in SUBSET Blocks
    BY DEF NodeEvents, OtherEvents
  <2> HIDE DEF bs, low
  <2>3. c2 = SetBlocksNotSent(c, bs, low)
    OBVIOUS
  <2> HIDE DEF c2
  <2>4. c2.sending = c.sending \ bs /\ c2.sent = c.sent \ bs
    BY <2>2, <2>3, NotSentTypes
  <2>5. ASSUME NEW b \in c2.sending \cup c2.sent
        PROVE  UpToDate(shown, d[2], content, up, events, n, b)
    <3>1. b \in c.sending \cup c.sent /\ b \notin e.modified_blocks
      BY <2>4 DEF bs
    <3> QED BY <1>0, <3>1, ResetKeeps
  <2>6. s.client = c2 /\ s.down = d
    BY <2>1 DEF Pair
  <2> QED BY <1>0, <2>5, <2>6, Zenon DEF ToldUpTo
<1> QED BY <1>1, <1>2

LEMMA EventsKeep ==
    ASSUME Races = {}, TransferInv, TransferTypes', SendEvents
    PROVE  TransferInv'
<1>0. TransferTypes /\ NodesKept(events, content) /\ down[0] = <<>>
  BY DEF TransferInv
<1>1. /\ events \in Seq(NodeEvents \cup OtherEvents) /\ Len(events) \in Nat
      /\ \A k \in 1..Len(events) : events[k] \in NodeEvents \cup OtherEvents
  BY <1>0 DEF TransferTypes
<1>2. PICK far, f :
        /\ far \in BOOLEAN /\ f[0] = Pair(client, down)
        /\ \A k \in 1..Len(events) : f[k] = Announce(f[k - 1], events[k], far)
        /\ client' = f[Len(events)].client /\ down' = f[Len(events)].down
  BY <1>1, EventSteps
<1>3. far \in BOOLEAN
  BY <1>2
<1>4. \A k \in 0..Len(events) :
         /\ f[k] = Pair(f[k].client, f[k].down)
         /\ f[k].client \in BlockClient /\ f[k].client.sending \cap f[k].client.sent = {}
         /\ Downward(f[k].down)
  BY <1>0, <1>2, EventsTypes
<1> DEFINE S == {k \in 0..Len(events) : ToldUpTo(f[k].client, f[k].down, k)}
<1>5. 0 \in S
  <2>1. f[0].client = client /\ f[0].down = down
    BY <1>2 DEF Pair
  <2>2. ToldUpTo(client, down, 0)
    BY <1>0, Zenon DEF TransferInv, CountedAsSent, ToldUpTo
  <2> QED BY <1>1, <2>1, <2>2
<1>6. ASSUME NEW k \in 1..Len(events), k - 1 \in S PROVE k \in S
  <2> DEFINE c == f[k - 1].client
             d == f[k - 1].down
             e == events[k]
             s == f[k]
  <2>1. k - 1 \in 0..Len(events) /\ k \in 0..Len(events)
    BY <1>1
  <2>2. /\ ToldUpTo(c, d, k - 1) /\ c \in BlockClient /\ c.sending \cap c.sent = {} /\ Downward(d)
        /\ s = Announce(Pair(c, d), e, far) /\ e \in NodeEvents \cup OtherEvents /\ e = events[k]
    BY <1>1, <1>2, <1>4, <1>6, <2>1, Zenon
  <2> HIDE DEF c, d, e, s
  <2>3. ToldUpTo(s.client, s.down, k)
    BY <1>0, <1>1, <1>3, <2>2, EventKeeps
  <2> QED BY <2>1, <2>3 DEF s
<1> HIDE DEF S
<1>7. Len(events) \in S
  <2>1. \A k \in 0..Len(events) : k \in S
    BY <1>1, <1>5, <1>6, UpTo
  <2> QED BY <1>1, <2>1
<1> DEFINE N == Len(events)
<1>8. /\ down'[0] = <<>>
      /\ \A b \in CountedAsSent' : UpToDate(shown, down'[2], content, up, events, N, b)
  BY <1>2, <1>7 DEF S, CountedAsSent, ToldUpTo
<1>9. events' = <<>> /\ UNCHANGED <<content, up, shown>>
  BY DEF SendEvents, clientVars
<1>10. ASSUME NEW b \in CountedAsSent'
       PROVE  UpToDate(shown', down'[2], content', up', events', 0, b)
  <2>1. \A m \in DOMAIN events : ~(m > N)
    BY <1>1
  <2>2. \A k : ~AnnouncedLater(events, N, b, k)
    BY <2>1 DEF AnnouncedLater
  <2>3. Resets(up, events, N, b) => Resets(up', events', 0, b)
    BY <1>9, <2>1 DEF Resets
  <2> QED BY <1>8, <1>9, <2>2, <2>3, Zenon DEF UpToDate
<1>11. NodesKept(events', content')
  BY <1>9 DEF NodesKept
<1> QED BY <1>8, <1>10, <1>11, Zenon DEF TransferInv

\* An event is queued, or none; the client and what is under way stay.
LEMMA EventQueued ==
    ASSUME TransferInv, TransferTypes', NEW e \in NodeEvents \cup OtherEvents, Announces(e),
           CountedAsSent' \subseteq CountedAsSent, down' = down, shown' = shown,
           Longer(up'[0], up[0]), Longer(up'[2], up[2])
    PROVE  TransferInv'
<1>1. StillPredicted
  <2>1. Longer(events, events)
    BY DEF Longer
  <2>2. ASSUME NEW b PROVE /\ DeletedIn(up, b) => DeletedIn(up', b)
                           /\ \A k : Predicted(up, b, k) => Predicted(up', b, k)
    BY <2>1, NothingForgotten
  <2> QED BY <2>2 DEF StillPredicted
<1> QED BY <1>1, MapChanges

LEMMA Unannounced ==
    ASSUME UNCHANGED <<content, events>>
    PROVE  Announces(OtherEvent({}, FALSE)) /\ OtherEvent({}, FALSE) \in NodeEvents \cup OtherEvents
<1> DEFINE e == OtherEvent({}, FALSE)
<1>1. e.type = "other" /\ e \in OtherEvents
  BY DEF OtherEvent, OtherEvents
<1> HIDE DEF e
<1>2. Announces(e)
  BY <1>1, Zenon DEF Announces
<1> QED BY <1>1, <1>2 DEF e

LEMMA Quiet ==
    ASSUME TransferInv, TransferTypes', UNCHANGED <<content, events, down, shown>>,
           CountedAsSent' \subseteq CountedAsSent, up' = up
    PROVE  TransferInv'
<1>1. Longer(up[0], up[0]) /\ Longer(up[2], up[2])
  BY DEF Longer
<1> QED BY <1>1, Unannounced, EventQueued

LEMMA NodeAnnounced ==
    ASSUME TransferTypes, NEW b \in Blocks, NEW k \in Changes,
           content' = [content EXCEPT ![b] = @ \cup {k}],
           events' = Append(events, NodeEvent(b, k, {b}))
    PROVE  /\ Announces(NodeEvent(b, k, {b})) /\ k \in content'[b]
           /\ NodeEvent(b, k, {b}) \in NodeEvents \cup OtherEvents
<1> DEFINE e == NodeEvent(b, k, {b})
<1>1. /\ e.type = "node" /\ e.block = b /\ e.change = k /\ e.modified_blocks = {b}
      /\ e \in NodeEvents
  BY DEF NodeEvent, NodeEvents
<1>2. content \in [Blocks -> SUBSET Changes] /\ events' = Append(events, e)
  BY DEF TransferTypes, MapTypes
<1> HIDE DEF e
<1>3. /\ k \in content'[b] /\ \A q \in Blocks : content[q] \subseteq content'[q]
      /\ \A q \in Blocks : \A j \in content'[q] \ content[q] : q = b /\ j = k
  BY <1>2
<1>4. Announces(e)
  BY <1>1, <1>2, <1>3, Zenon DEF Announces
<1> QED BY <1>1, <1>3, <1>4 DEF e

LEMMA BlocksAnnounced ==
    ASSUME TransferTypes, NEW bs \in SUBSET Blocks, NEW low \in BOOLEAN,
           events' = Append(events, OtherEvent(bs, low)),
           \A q \in Blocks : content[q] \subseteq content'[q],
           \A q \in Blocks : q \notin bs => content'[q] = content[q]
    PROVE  Announces(OtherEvent(bs, low)) /\ OtherEvent(bs, low) \in NodeEvents \cup OtherEvents
<1> DEFINE e == OtherEvent(bs, low)
<1>1. e.type = "other" /\ e.modified_blocks = bs /\ e \in OtherEvents /\ events' = Append(events, e)
  BY DEF OtherEvent, OtherEvents
<1> HIDE DEF e
<1>2. \A q \in Blocks : \A j \in content'[q] \ content[q] : q \in bs
  OBVIOUS
<1>3. Announces(e)
  BY <1>1, <1>2, Zenon DEF Announces
<1> QED BY <1>1, <1>3 DEF e

LEMMA EmergeKeeps ==
    ASSUME TransferInv, TransferTypes', NEW b \in Blocks,
           EmergeFromDisk(b) \/ EmergeGenerated(b) \/ EmergeNothingNew(b)
    PROVE  TransferInv'
<1>1. /\ UNCHANGED <<content, client, down, up, shown>>
      /\ TransferTypes /\ content \in [Blocks -> SUBSET Changes]
  BY DEF EmergeFromDisk, EmergeGenerated, EmergeNothingNew, Emerged, clientVars,
         TransferInv, TransferTypes, MapTypes
<1>2. Longer(up'[0], up[0]) /\ Longer(up'[2], up[2]) /\ CountedAsSent' = CountedAsSent
  BY <1>1 DEF Longer, CountedAsSent
<1>3. ASSUME NEW bs \in SUBSET Blocks, events' = Append(events, OtherEvent(bs, FALSE))
      PROVE  TransferInv'
  <2>1. /\ Announces(OtherEvent(bs, FALSE))
        /\ OtherEvent(bs, FALSE) \in NodeEvents \cup OtherEvents
    BY <1>1, <1>3, BlocksAnnounced
  <2> QED BY <1>1, <1>2, <2>1, EventQueued
<1>4. CASE EmergeFromDisk(b)
  BY <1>3, <1>4 DEF EmergeFromDisk
<1>5. CASE EmergeGenerated(b)
  <2> DEFINE bs == {b} \cup {q \in Border[b] : memory[q] = "absent"}
  <2>1. bs \in SUBSET Blocks
    BY Places
  <2>2. events' = Append(events, OtherEvent(bs, FALSE))
    BY <1>5, Zenon DEF EmergeGenerated
  <2> HIDE DEF bs
  <2> QED BY <1>3, <2>1, <2>2
<1>6. CASE EmergeNothingNew(b)
  <2>1. events' = Append(events, OtherEvent({b}, FALSE)) \/ events' = events
    BY <1>6 DEF EmergeNothingNew
  <2> QED BY <1>1, <1>2, <1>3, <2>1, Quiet
<1> QED BY <1>4, <1>5, <1>6

\* What happens to the map is announced; without the race, to no block that
\* is not there.
LEMMA MapKeeps ==
    ASSUME Races = {}, TransferInv, TransferTypes', NEW b \in Blocks,
           SetNode(b) \/ ModifyBlock(b) \/ UnloadBlock(b)
    PROVE  TransferInv'
<1>1. /\ UNCHANGED <<client, down, up, shown>>
      /\ TransferTypes /\ content \in [Blocks -> SUBSET Changes]
  BY DEF SetNode, ModifyBlock, UnloadBlock, clientVars, TransferInv, TransferTypes, MapTypes
<1>2. Longer(up'[0], up[0]) /\ Longer(up'[2], up[2]) /\ CountedAsSent' = CountedAsSent
  BY <1>1 DEF Longer, CountedAsSent
<1>3. CASE SetNode(b)
  <2>1. NewChange \in Changes
    BY <1>1, <1>3, NewChanges DEF SetNode
  <2>2. /\ content' = [content EXCEPT ![b] = @ \cup {NewChange}]
        /\ events' = Append(events, NodeEvent(b, NewChange, {b}))
    BY <1>3 DEF SetNode
  <2>3. /\ Announces(NodeEvent(b, NewChange, {b}))
        /\ NodeEvent(b, NewChange, {b}) \in NodeEvents \cup OtherEvents
    BY <1>1, <2>1, <2>2, NodeAnnounced
  <2> QED BY <1>1, <1>2, <2>3, EventQueued
<1>4. CASE ModifyBlock(b)
  <2>1. PICK low \in BOOLEAN : events' = Append(events, OtherEvent({b}, low))
    BY <1>4 DEF ModifyBlock
  <2>2. content' = [content EXCEPT ![b] = @ \cup {NewChange}]
    BY <1>4 DEF ModifyBlock
  <2>3. /\ \A q \in Blocks : content[q] \subseteq content'[q]
        /\ \A q \in Blocks : q \notin {b} => content'[q] = content[q]
    BY <1>1, <2>2
  <2>4. Announces(OtherEvent({b}, low)) /\ OtherEvent({b}, low) \in NodeEvents \cup OtherEvents
    BY <1>1, <2>1, <2>3, BlocksAnnounced
  <2> QED BY <1>1, <1>2, <2>4, EventQueued
<1>5. CASE UnloadBlock(b)
  BY <1>1, <1>2, <1>5, Quiet DEF UnloadBlock
<1> QED BY <1>3, <1>4, <1>5

\* Without the first answer, or the first of what the player did.
LEMMA OneLess ==
    ASSUME TransferTypes, NEW b
    PROVE  /\ up[2] # <<>> /\ up'[2] = Tail(up[2]) /\ DeletedIn(up, b) =>
                \/ DeletedIn(up', b)
                \/ Head(up[2]).type = "deleted" /\ Head(up[2]).block = b
           /\ \A k : up[0] # <<>> /\ up'[0] = Tail(up[0]) /\ Predicted(up, b, k) =>
                \/ Predicted(up', b, k)
                \/ LET p == Head(up[0]) IN
                   k = p.change /\ b = IF p.type = "dig" THEN p.under ELSE p.above
<1>1. up[0] \in Seq(Interactions) /\ up[2] \in Seq(Answers)
  BY DEF TransferTypes
<1>2. ASSUME NEW S, NEW s \in Seq(S), s # <<>>, NEW i \in DOMAIN s
      PROVE  s[i] = Head(s) \/ \E j \in DOMAIN Tail(s) : Tail(s)[j] = s[i]
  <2>1. i = 1 \/ (i - 1 \in DOMAIN Tail(s) /\ Tail(s)[i - 1] = s[i])
    BY <1>2, HeadAndTail
  <2>2. Head(s) = s[1]
    BY <1>2, HeadAndTail
  <2> QED BY <2>1, <2>2
<1>3. ASSUME up[2] # <<>>, up'[2] = Tail(up[2]), DeletedIn(up, b)
      PROVE  \/ DeletedIn(up', b)
             \/ Head(up[2]).type = "deleted" /\ Head(up[2]).block = b
  <2>1. PICK i \in DOMAIN up[2] : up[2][i].type = "deleted" /\ up[2][i].block = b
    BY <1>3 DEF DeletedIn
  <2>2. up[2][i] = Head(up[2]) \/ \E j \in DOMAIN Tail(up[2]) : Tail(up[2])[j] = up[2][i]
    BY <1>1, <1>2, <1>3
  <2> QED BY <1>3, <2>1, <2>2 DEF DeletedIn
<1>4. ASSUME NEW k, up[0] # <<>>, up'[0] = Tail(up[0]), Predicted(up, b, k)
      PROVE  \/ Predicted(up', b, k)
             \/ LET p == Head(up[0]) IN
                k = p.change /\ b = IF p.type = "dig" THEN p.under ELSE p.above
  <2>1. PICK i \in DOMAIN up[0] :
           /\ up[0][i].change = k
           /\ b = IF up[0][i].type = "dig" THEN up[0][i].under ELSE up[0][i].above
    BY <1>4 DEF Predicted
  <2>2. up[0][i] = Head(up[0]) \/ \E j \in DOMAIN Tail(up[0]) : Tail(up[0])[j] = up[0][i]
    BY <1>1, <1>2, <1>4
  <2>3. CASE up[0][i] = Head(up[0])
    BY <2>1, <2>3
  <2>4. ASSUME NEW j \in DOMAIN Tail(up[0]), Tail(up[0])[j] = up[0][i] PROVE Predicted(up', b, k)
    BY <1>4, <2>1, <2>4, Zenon DEF Predicted
  <2> QED BY <2>2, <2>3, <2>4
<1> QED BY <1>3, <1>4

\* An answer: what the client has forgotten does not count as sent any more.
LEMMA AnswerKeeps ==
    ASSUME TransferInv, TransferTypes', GotBlocks \/ DeletedBlocks
    PROVE  TransferInv'
<1> DEFINE h == Head(up[2])
           b == h.block
<1>0. TransferTypes
  BY DEF TransferInv
<1>1. client \in BlockClient /\ client.sending \cap client.sent = {}
  BY <1>0 DEF TransferTypes
<1>2. \/ HandleUp(2, "got") /\ client' = GotBlock(client, b)
      \/ HandleUp(2, "deleted") /\ client' = SetBlockNotSent(client, b, FALSE)
  BY DEF GotBlocks, DeletedBlocks
<1>3. /\ up[2] # <<>> /\ up'[2] = Tail(up[2]) /\ up'[0] = up[0] /\ b \in Blocks
      /\ UNCHANGED <<content, events, down, shown>>
      /\ \/ h.type = "got" /\ client' = GotBlock(client, b)
         \/ h.type = "deleted" /\ client' = SetBlockNotSent(client, b, FALSE)
  <2>1. UNCHANGED <<content, events>>
    BY DEF GotBlocks, DeletedBlocks
  <2>2. ASSUME NEW type, HandleUp(2, type)
        PROVE  /\ up[2] # <<>> /\ up'[2] = Tail(up[2]) /\ up'[0] = up[0] /\ b \in Blocks
               /\ UNCHANGED <<down, shown>> /\ h.type = type
    BY <1>0, <2>2, HandledUp DEF Answers
  <2> HIDE DEF b, h
  <2> QED BY <1>2, <2>1, <2>2
<1> HIDE DEF b, h
<1>4. /\ CountedAsSent' \subseteq CountedAsSent
      /\ h.type = "got" \/ b \notin CountedAsSent'
  <2>1. /\ SetBlockNotSent(client, b, FALSE).sending = client.sending \ {b}
        /\ SetBlockNotSent(client, b, FALSE).sent = client.sent \ {b}
        /\ GotBlock(client, b).sending = client.sending \ {b}
        /\ GotBlock(client, b).sent \subseteq client.sent \cup (client.sending \cap {b})
    BY <1>1, <1>3, OpsSend, Zenon
  <2> QED BY <1>3, <2>1 DEF CountedAsSent
<1>5. StillPredicted
  <2>1. ASSUME NEW q \in CountedAsSent', DeletedIn(up, q) PROVE DeletedIn(up', q)
    <3>1. DeletedIn(up', q) \/ (h.type = "deleted" /\ b = q)
      BY <1>0, <1>3, <2>1, OneLess DEF h, b
    <3> QED BY <1>4, <2>1, <3>1
  <2>2. \A q, k : Predicted(up, q, k) => Predicted(up', q, k)
    BY <1>3 DEF Predicted
  <2> QED BY <2>1, <2>2 DEF StillPredicted
<1> QED BY <1>3, <1>4, <1>5, Unannounced, MapChanges

\* What the player did: its prediction comes true, or the block of it does not
\* count as sent any more.
LEMMA InteractionKeeps ==
    ASSUME TransferInv, TransferTypes', NEW type, HandleUp(0, type),
           CountedAsSent' \subseteq CountedAsSent,
           NEW e \in NodeEvents \cup OtherEvents, Announces(e),
           LET p == Head(up[0])
               b == IF p.type = "dig" THEN p.under ELSE p.above
           IN b \notin CountedAsSent' \/ p.change \in content'[b]
    PROVE  TransferInv'
<1> DEFINE p == Head(up[0])
<1>0. TransferTypes
  BY DEF TransferInv
<1>1. up[0] # <<>> /\ up'[0] = Tail(up[0]) /\ up'[2] = up[2] /\ UNCHANGED <<down, shown>>
  BY <1>0, HandledUp
<1>2. StillPredicted
  <2>1. \A q : DeletedIn(up, q) => DeletedIn(up', q)
    BY <1>1 DEF DeletedIn
  <2>2. ASSUME NEW q \in CountedAsSent', NEW k, Predicted(up, q, k)
        PROVE  Predicted(up', q, k) \/ k \in content'[q]
    <3>1. \/ Predicted(up', q, k)
          \/ k = p.change /\ q = IF p.type = "dig" THEN p.under ELSE p.above
      BY <1>0, <1>1, <2>2, OneLess
    <3> QED BY <2>2, <3>1
  <2> QED BY <2>1, <2>2 DEF StillPredicted
<1> QED BY <1>1, <1>2, MapChanges

LEMMA DigKeeps == ASSUME TransferInv, TransferTypes', Dig PROVE TransferInv'
<1> DEFINE p == Head(up[0])
           b == p.under
           k == p.change
<1>0. TransferTypes
  BY DEF TransferInv
<1>1. client \in BlockClient /\ client.sending \cap client.sent = {}
  BY <1>0 DEF TransferTypes
<1>2. /\ HandleUp(0, "dig")
      /\ \/ Apply(b, k) /\ client' = ResendBlockIfOnWire(client, b)
         \/ /\ client' = SetBlockNotSent(client, b, FALSE)
            /\ Apply(b, k) \/ UNCHANGED <<content, events>>
  BY DEF Dig
<1>3. b \in Blocks /\ k \in Changes /\ p.type = "dig"
  BY <1>0, <1>2, HandledUp DEF Interactions
<1> HIDE DEF b, k
<1>4. /\ SetBlockNotSent(client, b, FALSE).sending = client.sending \ {b}
      /\ SetBlockNotSent(client, b, FALSE).sent = client.sent \ {b}
      /\ ResendBlockIfOnWire(client, b).sending = client.sending \ {b}
      /\ ResendBlockIfOnWire(client, b).sent = client.sent
  BY <1>1, <1>3, OpsSend, Zenon
<1>5. /\ CountedAsSent' \subseteq CountedAsSent
      /\ client' = SetBlockNotSent(client, b, FALSE) => b \notin CountedAsSent'
  BY <1>2, <1>4 DEF CountedAsSent
<1>6. CASE Apply(b, k)
  <2>1. /\ content' = [content EXCEPT ![b] = @ \cup {k}]
        /\ events' = Append(events, NodeEvent(b, k, {b}))
    BY <1>6 DEF Apply
  <2>2. /\ Announces(NodeEvent(b, k, {b})) /\ k \in content'[b]
        /\ NodeEvent(b, k, {b}) \in NodeEvents \cup OtherEvents
    BY <1>0, <1>3, <2>1, NodeAnnounced
  <2>3. p.change \in content'[IF p.type = "dig" THEN p.under ELSE p.above]
    BY <1>3, <2>2 DEF b, k
  <2> QED BY <1>2, <1>5, <2>2, <2>3, InteractionKeeps
<1>7. CASE ~Apply(b, k)
  <2>1. UNCHANGED <<content, events>> /\ client' = SetBlockNotSent(client, b, FALSE)
    BY <1>2, <1>7
  <2>2. (IF p.type = "dig" THEN p.under ELSE p.above) \notin CountedAsSent'
    BY <1>3, <1>5, <2>1 DEF b
  <2> QED BY <1>2, <1>5, <2>1, <2>2, Unannounced, InteractionKeeps
<1> QED BY <1>6, <1>7

\* Without the race, what is placed goes into the block that is pointed at.
LEMMA PlaceKeeps ==
    ASSUME Races = {}, TransferInv, TransferTypes', Place \/ PlaceNotAllowed \/ PlaceIgnored
    PROVE  TransferInv'
<1> DEFINE p == Head(up[0])
           b == p.above
           k == p.change
           bs == {p.above, p.under}
<1>0. TransferTypes
  BY DEF TransferInv
<1>1. client \in BlockClient /\ client.sending \cap client.sent = {}
  BY <1>0 DEF TransferTypes
<1>2. /\ HandleUp(0, "place")
      /\ \/ client' = SetBlocksNotSent(client, bs, FALSE)
         \/ client' = SetBlockNotSent(client, b, FALSE)
      /\ Apply(b, k) \/ UNCHANGED <<content, events>>
  BY DEF Place, PlaceNotAllowed, PlaceIgnored
<1>3. b \in Blocks /\ p.under \in Blocks /\ k \in Changes /\ p.type = "place"
  BY <1>0, <1>2, HandledUp DEF Interactions
<1>4. bs \in SUBSET Blocks /\ b \in bs
  BY <1>3
<1> HIDE DEF b, k, bs
<1>5. /\ SetBlockNotSent(client, b, FALSE).sending = client.sending \ {b}
      /\ SetBlockNotSent(client, b, FALSE).sent = client.sent \ {b}
  BY <1>1, <1>3, OpsSend, Zenon
<1>6. /\ SetBlocksNotSent(client, bs, FALSE).sending = client.sending \ bs
      /\ SetBlocksNotSent(client, bs, FALSE).sent = client.sent \ bs
  BY <1>1, <1>4, NotSentTypes, Zenon
<1>7. CountedAsSent' \subseteq CountedAsSent /\ b \notin CountedAsSent'
  BY <1>2, <1>4, <1>5, <1>6 DEF CountedAsSent
<1>8. (IF p.type = "dig" THEN p.under ELSE p.above) \notin CountedAsSent'
  BY <1>3, <1>7 DEF b
<1>9. CASE Apply(b, k)
  <2>1. /\ content' = [content EXCEPT ![b] = @ \cup {k}]
        /\ events' = Append(events, NodeEvent(b, k, {b}))
    BY <1>9 DEF Apply
  <2>2. Announces(NodeEvent(b, k, {b})) /\ NodeEvent(b, k, {b}) \in NodeEvents \cup OtherEvents
    BY <1>0, <1>3, <2>1, NodeAnnounced
  <2> QED BY <1>2, <1>7, <1>8, <2>2, InteractionKeeps
<1>10. CASE UNCHANGED <<content, events>>
  BY <1>2, <1>7, <1>8, <1>10, Unannounced, InteractionKeeps
<1> QED BY <1>2, <1>9, <1>10

LEMMA MeshKeeps ==
    ASSUME TransferInv, TransferTypes', NEW b \in Blocks, MeshDone(b)
    PROVE  TransferInv'
<1> DEFINE p == [type |-> "got", block |-> b]
<1>0. TransferTypes /\ up[2] \in Seq(Answers)
  BY DEF TransferInv, TransferTypes
<1>1. SendUp(2, p) /\ p \in Answers /\ UNCHANGED <<content, events, client, shown, down>>
  BY DEF MeshDone, serverVars, Answers
<1> HIDE DEF p
<1>2. up'[2] = Append(up[2], p) /\ up'[0] = up[0]
  BY <1>0, <1>1, SentUp
<1>3. Longer(up'[0], up[0]) /\ Longer(up'[2], up[2])
  BY <1>0, <1>1, <1>2, Appended DEF Longer
<1>4. CountedAsSent' \subseteq CountedAsSent
  BY <1>1 DEF CountedAsSent
<1> QED BY <1>1, <1>3, <1>4, Unannounced, EventQueued

\* What the client has changes in one block.
LEMMA OtherBlock ==
    ASSUME NEW s, NEW s2, NEW d, NEW b, s2[b] = s[b]
    PROVE  WillHave(s, d, b) => SameFuture(s2, d, s, d, b)
BY DEF SameFuture, WillHave, WillShow

LEMMA ForgetKeeps ==
    ASSUME TransferInv, TransferTypes', NEW b \in Blocks, Forget(b)
    PROVE  TransferInv'
<1> DEFINE p == [type |-> "deleted", block |-> b]
<1>0. TransferTypes /\ up[2] \in Seq(Answers) /\ shown \in [Blocks -> {NotLoaded} \cup SUBSET Changes]
      /\ CountedAsSent \subseteq Blocks
  BY DEF TransferInv, TransferTypes, CountedAsSent, BlockClient
<1>1. /\ SendUp(2, p) /\ p \in Answers /\ p.type = "deleted" /\ p.block = b
      /\ UNCHANGED <<content, events, client, down>> /\ shown' = [shown EXCEPT ![b] = NotLoaded]
  BY DEF Forget, serverVars, Answers
<1> HIDE DEF p
<1>2. up'[2] = Append(up[2], p) /\ up'[0] = up[0]
  BY <1>0, <1>1, SentUp
<1>3. /\ Longer(up'[0], up[0]) /\ Longer(up'[2], up[2]) /\ Longer(events', events)
      /\ DeletedIn(up', b)
  <2>1. Longer(up'[2], up[2]) /\ Len(up[2]) + 1 \in DOMAIN up'[2] /\ up'[2][Len(up[2]) + 1] = p
    BY <1>0, <1>1, <1>2, Appended DEF Longer
  <2> QED BY <1>1, <1>2, <2>1 DEF Longer, DeletedIn
<1>4. ASSUME NEW q \in CountedAsSent'
      PROVE  UpToDate(shown', down'[2], content', up', events', 0, q)
  <2>1. q \in CountedAsSent /\ q \in Blocks
    BY <1>0, <1>1 DEF CountedAsSent
  <2>2. CASE q = b
    BY <1>3, <2>2 DEF UpToDate, Resets
  <2>3. CASE q # b
    <3>1. UpToDate(shown, down[2], content, up, events, 0, q)
      BY <2>1 DEF TransferInv
    <3>2. shown'[q] = shown[q]
      BY <1>0, <1>1, <2>1, <2>3
    <3>3. /\ Resets(up, events, 0, q) => Resets(up', events', 0, q)
          /\ \A k : Predicted(up, q, k) => Predicted(up', q, k)
          /\ \A k : AnnouncedLater(events, 0, q, k) => AnnouncedLater(events', 0, q, k)
      BY <1>3, NothingForgotten
    <3>4. WillHave(shown, down[2], q) => SameFuture(shown', down'[2], shown, down[2], q)
      BY <1>1, <3>2, OtherBlock
    <3> QED BY <1>1, <3>1, <3>3, <3>4, StillUpToDate
  <2> QED BY <2>2, <2>3
<1>5. down'[0] = <<>> /\ NodesKept(events', content')
  BY <1>1 DEF TransferInv
<1> QED BY <1>4, <1>5, Zenon DEF TransferInv

\* A prediction of the client, which it sends to the server.
LEMMA PredictionKeeps ==
    ASSUME TransferInv, TransferTypes', NEW b \in Blocks, NEW k \in Changes, NEW p \in Interactions,
           SendUp(0, p), p.change = k, b = IF p.type = "dig" THEN p.under ELSE p.above,
           shown[b] # NotLoaded, shown' = [shown EXCEPT ![b] = @ \cup {k}],
           UNCHANGED <<content, events, client, down>>
    PROVE  TransferInv'
<1>0. TransferTypes /\ up[0] \in Seq(Interactions)
      /\ shown \in [Blocks -> {NotLoaded} \cup SUBSET Changes] /\ CountedAsSent \subseteq Blocks
  BY DEF TransferInv, TransferTypes, CountedAsSent, BlockClient
<1>1. up'[0] = Append(up[0], p) /\ up'[2] = up[2]
  BY <1>0, SentUp
<1>2. /\ Longer(up'[0], up[0]) /\ Longer(up'[2], up[2]) /\ Longer(events', events)
      /\ Predicted(up', b, k)
  <2>1. Longer(up'[0], up[0]) /\ Len(up[0]) + 1 \in DOMAIN up'[0] /\ up'[0][Len(up[0]) + 1] = p
    BY <1>0, <1>1, Appended DEF Longer
  <2> QED BY <1>1, <2>1 DEF Longer, Predicted
<1>3. ASSUME NEW q \in CountedAsSent'
      PROVE  UpToDate(shown', down'[2], content', up', events', 0, q)
  <2>1. q \in CountedAsSent /\ q \in Blocks
    BY <1>0 DEF CountedAsSent
  <2>2. UpToDate(shown, down[2], content, up, events, 0, q)
    BY <2>1 DEF TransferInv
  <2>3. /\ Resets(up, events, 0, q) => Resets(up', events', 0, q)
        /\ \A j : Predicted(up, q, j) => Predicted(up', q, j)
        /\ \A j : AnnouncedLater(events, 0, q, j) => AnnouncedLater(events', 0, q, j)
    BY <1>2, NothingForgotten
  <2>4. CASE q # b
    <3>1. shown'[q] = shown[q]
      BY <1>0, <2>1, <2>4
    <3>2. WillHave(shown, down[2], q) => SameFuture(shown', down'[2], shown, down[2], q)
      BY <3>1, OtherBlock
    <3> QED BY <2>2, <2>3, <3>2, StillUpToDate
  <2>5. CASE q = b
    <3>1. shown'[b] = shown[b] \cup {k} /\ shown'[b] # NotLoaded
      <4>1. shown'[b] = shown[b] \cup {k}
        BY <1>0
      <4>2. k # 0
        BY Numbers
      <4> QED BY <4>1, <4>2 DEF NotLoaded
    <3>2. WillHave(shown', down'[2], b)
      BY <3>1 DEF WillHave
    <3>3. \A j : /\ WillShow(shown', down'[2], b, j) => WillShow(shown, down[2], b, j) \/ j = k
                 /\ WillShow(shown, down[2], b, j) => WillShow(shown', down'[2], b, j)
      BY <3>1 DEF WillShow
    <3> QED BY <1>2, <2>2, <2>3, <2>5, <3>2, <3>3, Zenon DEF UpToDate
  <2> QED BY <2>4, <2>5
<1>4. down'[0] = <<>> /\ NodesKept(events', content')
  BY DEF TransferInv
<1> QED BY <1>3, <1>4, Zenon DEF TransferInv

LEMMA PlayerKeeps ==
    ASSUME TransferInv, TransferTypes', NEW b \in Blocks,
           PlayerDigs(b) \/ \E above \in Blocks : PlayerPlaces(b, above)
    PROVE  TransferInv'
<1>0. TransferTypes
  BY DEF TransferInv
<1>1. CASE PlayerDigs(b)
  <2> DEFINE p == [type |-> "dig", under |-> b, change |-> NewChange]
  <2>1. /\ NewChange \in Changes /\ shown[b] # NotLoaded /\ SendUp(0, p)
        /\ shown' = [shown EXCEPT ![b] = @ \cup {NewChange}]
        /\ UNCHANGED <<content, events, client, down>>
    BY <1>0, <1>1, NewChanges DEF PlayerDigs, Predict, serverVars
  <2>2. p \in Interactions /\ p.change = NewChange /\ p.type = "dig" /\ p.under = b
    BY <2>1 DEF Interactions
  <2> HIDE DEF p
  <2> QED BY <2>1, <2>2, PredictionKeeps
<1>2. ASSUME NEW above \in Blocks, PlayerPlaces(b, above) PROVE TransferInv'
  <2> DEFINE p == [type |-> "place", under |-> b, above |-> above, change |-> NewChange]
  <2>1. /\ NewChange \in Changes /\ shown[above] # NotLoaded /\ SendUp(0, p)
        /\ shown' = [shown EXCEPT ![above] = @ \cup {NewChange}]
        /\ UNCHANGED <<content, events, client, down>>
    BY <1>0, <1>2, NewChanges DEF PlayerPlaces, Predict, serverVars
  <2>2. p \in Interactions /\ p.change = NewChange /\ p.type = "place" /\ p.above = above
    BY <2>1 DEF Interactions
  <2> HIDE DEF p
  <2> QED BY <2>1, <2>2, PredictionKeeps
<1> QED BY <1>1, <1>2

LEMMA TransferInvStep ==
    ASSUME Races = {}, TransferInv, [BTNext]_btVars
    PROVE  TransferInv'
<1>1. TransferTypes /\ TransferTypes' /\ client \in BlockClient
  BY TransferTypesStep DEF TransferInv, TransferTypes
<1>2. CASE UNCHANGED btVars
  BY <1>1, <1>2, Quiet DEF btVars, serverVars, clientVars, CountedAsSent
<1>3. CASE EndPause
  BY <1>1, <1>3, Quiet DEF EndPause, clientVars, CountedAsSent, BlockClient
<1>4. CASE SendBlocks
  BY <1>1, <1>4, ScanKeeps
<1>5. CASE SendEvents
  BY <1>1, <1>5, EventsKeep
<1>6. CASE GotBlocks \/ DeletedBlocks
  BY <1>1, <1>6, AnswerKeeps
<1>7. CASE Dig
  BY <1>1, <1>7, DigKeeps
<1>8. CASE Place \/ PlaceNotAllowed \/ PlaceIgnored
  BY <1>1, <1>8, PlaceKeeps
<1>9. CASE EmergeStep
  BY <1>1, <1>9, EmergeKeeps DEF EmergeStep
<1>10. CASE ClientStep
  BY <1>1, <1>10, PacketKeeps, MeshKeeps DEF ClientStep
<1>11. CASE Move \/ RestartScan
  BY <1>1, <1>11, Quiet DEF Move, RestartScan, clientVars, CountedAsSent, BlockClient
<1>12. ASSUME NEW b \in Blocks, SetNode(b) \/ ModifyBlock(b) \/ UnloadBlock(b) PROVE TransferInv'
  BY <1>1, <1>12, MapKeeps
<1>13. ASSUME NEW b \in Blocks, SendBlock(b) PROVE TransferInv'
  BY <1>1, <1>13, BlockForModKeeps
<1>14. ASSUME NEW b \in Blocks, Forget(b) PROVE TransferInv'
  BY <1>1, <1>14, ForgetKeeps
<1>15. ASSUME NEW b \in Blocks, PlayerDigs(b) \/ \E above \in Blocks : PlayerPlaces(b, above)
       PROVE  TransferInv'
  BY <1>1, <1>15, PlayerKeeps
<1>16. CASE Disturbance
  BY <1>11, <1>12, <1>13, <1>14, <1>15, <1>16, Zenon DEF Disturbance
<1> QED BY <1>2, <1>3, <1>4, <1>5, <1>6, <1>7, <1>8, <1>9, <1>10, <1>16
        DEF BTNext, ScanStep, PacketStep

\* Once nothing about a block is under way, the invariant says what it shows.
LEMMA ShownAsSent == TransferInv => SentIsShown
<1> SUFFICES ASSUME TransferInv, NEW b \in client.sent, NothingToReport(b), ~OnTheWay(b)
             PROVE  shown[b] = content[b]
  BY DEF SentIsShown
<1>1. /\ b \in Blocks /\ UpToDate(shown, down[2], content, up, events, 0, b)
      /\ content \in [Blocks -> SUBSET Changes]
      /\ shown \in [Blocks -> {NotLoaded} \cup SUBSET Changes]
      /\ up[0] \in Seq(Interactions) /\ up[2] \in Seq(Answers) /\ down[2] \in Seq(DownPacket)
  BY DEF TransferInv, CountedAsSent, TransferTypes, MapTypes, Downward, BlockClient
<1>2. ASSUME NEW i \in DOMAIN down[2] PROVE down[2][i].block # b
  <2>1. b \notin PacketBlocks(down[2][i])
    BY DEF OnTheWay
  <2>2. down[2][i] \in DownPacket
    BY <1>1
  <2> QED BY <2>1, <2>2 DEF PacketBlocks, DownPacket
<1>3. ASSUME NEW i \in DOMAIN up[2] PROVE up[2][i].block # b
  <2>1. b \notin PacketBlocks(up[2][i])
    BY DEF OnTheWay
  <2>2. up[2][i] \in Answers
    BY <1>1
  <2> QED BY <2>1, <2>2 DEF PacketBlocks, Answers
<1>4. ASSUME NEW k PROVE ~Predicted(up, b, k)
  <2> SUFFICES ASSUME NEW i \in DOMAIN up[0],
                      b = IF up[0][i].type = "dig" THEN up[0][i].under ELSE up[0][i].above
               PROVE  FALSE
    BY DEF Predicted
  <2>1. b \notin PacketBlocks(up[0][i])
    BY DEF OnTheWay
  <2>2. up[0][i] \in Interactions
    BY <1>1
  <2> QED BY <2>1, <2>2 DEF PacketBlocks, Interactions
<1>5. ~Resets(up, events, 0, b)
  BY <1>3 DEF Resets, DeletedIn, NothingToReport
<1>6. ASSUME NEW k PROVE ~AnnouncedLater(events, 0, b, k)
  BY DEF AnnouncedLater, NothingToReport
<1>7. \A i : ~IsBlock(down[2], i, b) /\ \A k : ~Brings(down[2], i, b, k)
  BY <1>2 DEF IsBlock, IsNode, Brings
<1>8. shown[b] # NotLoaded /\ \A k : WillShow(shown, down[2], b, k) <=> k \in shown[b]
  <2>1. WillHave(shown, down[2], b)
    BY <1>1, <1>5, Zenon DEF UpToDate
  <2>2. shown[b] # NotLoaded
    BY <1>7, <2>1 DEF WillHave
  <2>3. LastFrom(down[2], 0, b)
    BY <1>7 DEF LastFrom
  <2> QED BY <1>7, <2>2, <2>3, Zenon DEF WillShow
<1>9. \A k \in Changes : k \in shown[b] <=> k \in content[b]
  BY <1>1, <1>4, <1>5, <1>6, <1>8, Zenon DEF UpToDate
<1>10. shown[b] \in SUBSET Changes /\ content[b] \in SUBSET Changes
  BY <1>1, <1>8
<1> QED BY <1>9, <1>10

\* What the server does not send again is what the client has, as it is
\* (RemoteClient::m_blocks_sent): without the three races, no order of changes,
\* scans, packets, answers, deletions and predictions leaves a client with a
\* block that is out of date and counts as sent.
THEOREM SentBlocksAreShown == ASSUME Races = {} PROVE BTSpec => []SentIsShown
<1>1. BTInit => TransferInv
  <2> SUFFICES ASSUME BTInit PROVE TransferInv
    OBVIOUS
  <2>1. TransferTypes
    BY TransferTypesInit
  <2>2. CountedAsSent = {} /\ events = <<>> /\ down[0] = <<>>
    BY DEF BTInit, CountedAsSent
  <2> QED BY <2>1, <2>2 DEF TransferInv, NodesKept
<1>2. TransferInv /\ [BTNext]_btVars => TransferInv'
  BY TransferInvStep
<1>3. TransferInv => SentIsShown
  BY ShownAsSent
<1> QED BY <1>1, <1>2, <1>3, PTL DEF BTSpec
=============================================================================
