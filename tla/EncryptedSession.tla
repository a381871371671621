-------------------------- MODULE EncryptedSession --------------------------
(***************************************************************************)
(* How a client and a server come to encrypt what they send: the           *)
(* authentication after TOCLIENT_HELLO, the keys it yields, the X25519     *)
(* exchange that is mixed into them, and the moment at which each side     *)
(* starts to encrypt.                                                      *)
(*                                                                         *)
(* Each side has a main thread (the packet handlers), a send thread and a  *)
(* receive thread.  Reliable packets keep their order (ReliableChannel);   *)
(* what matters here is that one may be sent again at any time, and that   *)
(* it is then encrypted with what is in force at that time.  Keys are the  *)
(* identities of the secrets that went into them.                          *)
(***************************************************************************)
EXTENDS Integers, Sequences

CONSTANTS
    Mechs,             \* how the account is used: "SRP", "FIRST_SRP", ...
    KeygenResults,     \* results of x25519_generate_keypair on the server
    PasswordChanges,   \* bound: password changes
    PatientPlayer      \* whether they begin only when both sides encrypt

ASSUME SessionAssumption ==
    /\ Mechs \subseteq {"SRP", "FIRST_SRP", "KEYPAIR_LOGIN", "KEYPAIR_REGISTER"}
    /\ KeygenResults \subseteq BOOLEAN
    /\ PasswordChanges \in Nat
    /\ PatientPlayer \in BOOLEAN

Sides == {"client", "server"}
Other(side) == IF side = "client" THEN "server" ELSE "client"

VARIABLES
    client,     \* RemoteClient, on the server
    user,       \* Client, on the client
    peer,       \* per side: UDPPeer::encryption_state for the other one
    queue,      \* per side: m_command_queue, packets and activation
    pending,    \* per side: pending_encryption_activations is not empty
    log,        \* per side: reliable packets given to the channel
    sent,       \* per side: how many of them have been sent
    arrived,    \* per side: numbers of the other one's packets received
    handled,    \* per side: how many of them the main thread has handled
    net,        \* datagrams; each may be delivered any number of times
    changes     \* password changes begun

mainVars == <<client, user, handled, changes>>
sendVars == <<pending, log, sent>>
vars == <<mainVars, peer, queue, sendVars, arrived, net>>

-----------------------------------------------------------------------------
(* Keys and messages                                                       *)

\* A secret, named for where it comes from; a key, for its secrets.
Secret(kind, id) == <<kind, id>>
None == << >>
PublicKey == Secret("public_key", 0)
Key(auth, ecdh) == [auth |-> auth, ecdh |-> ecdh]
NoKey == Key(None, None)
Plain == Key(Secret("plain", 0), None)

Message(cmd, id) == [cmd |-> cmd, id |-> id]

\* What waits in a command queue: the packets in their order, and whether there
\* is a CONNCMD_ACTIVATE_ENCRYPTION, whose place among them does not matter.
Commands(packets, activate) == [packets |-> packets, activate |-> activate]

NewUser(mech) ==
    [mech |-> mech, account |-> mech, auth_data |-> None, session_key |-> None,
     key |-> NoKey, exchanges |-> 0, keypairs |-> 0, ready |-> FALSE]

NewClient == [state |-> "HelloSent", mech |-> "NONE", auth_data |-> None,
              keypair_challenge_nonce |-> None, ecdh_private_key |-> None, keypairs |-> 0]

\* Client::startAuth: what is sent, and what the client keeps.
StartAuth(mech, u) ==
    LET a == Secret("srp", u.exchanges + 1)
        begun == [u EXCEPT !.mech = mech, !.auth_data = a, !.exchanges = @ + 1]
        A == Message("SRP_BYTES_A", a) IN
    CASE mech = "SRP" -> [user |-> begun, msgs |-> <<A>>]
      [] mech = "FIRST_SRP" ->
            [user |-> begun, msgs |-> <<Message("FIRST_SRP", None), A>>]
      [] OTHER ->
            [user |-> [u EXCEPT !.mech = mech], msgs |-> <<Message(mech, None)>>]

Init ==
    /\ \E mech \in Mechs :
        LET start == StartAuth(mech, NewUser(mech)) IN
        /\ user = start.user
        /\ queue = [side \in Sides |->
                       Commands(IF side = "client" THEN start.msgs ELSE << >>, FALSE)]
    /\ client = NewClient
    /\ peer = [side \in Sides |-> [active |-> FALSE, srp |-> None, key |-> NoKey]]
    /\ pending = [side \in Sides |-> FALSE]
    /\ log = [side \in Sides |-> << >>]
    /\ sent = [side \in Sides |-> 0]
    /\ arrived = [side \in Sides |-> {}]
    /\ handled = [side \in Sides |-> 0]
    /\ net = {} /\ changes = 0

-----------------------------------------------------------------------------
(* Main threads                                                            *)

\* The next packet for a side's main thread is a cmd.
Handles(side, cmd) ==
    LET n == handled[side] + 1 IN
    /\ n \in arrived[side]
    /\ log[Other(side)][n].cmd = cmd
    /\ handled' = [handled EXCEPT ![side] = n]

Packet(side) == log[Other(side)][handled[side] + 1]

Send(side, msgs) == queue' = [queue EXCEPT ![side].packets = @ \o msgs]

SendAndActivate(side, msgs) ==
    queue' = [queue EXCEPT ![side] = Commands(@.packets \o msgs, TRUE)]

\* SetPeerEncryptionState, and what initFromSRPSessionKey or
\* initFromKeypairAuth put into the state it copies.
SetPeerEncryptionState(side, srp, key) ==
    peer' = [peer EXCEPT ![side] = [active |-> FALSE, srp |-> srp, key |-> key]]

DenyAccess ==
    /\ client' = [client EXCEPT !.state = "Denied"]
    /\ UNCHANGED <<peer, queue>>

\* RemoteClient::resetChosenMech, which forgets the keys kept with the client.
Reset(c) == [c EXCEPT !.mech = "NONE", !.auth_data = None, !.ecdh_private_key = None]

DenySudoAccess(c) ==
    /\ client' = c
    /\ Send("server", <<Message("DENY_SUDO_MODE", None)>>)
    /\ UNCHANGED peer

\* The end of a successful authentication: keys, AUTH_ACCEPT or
\* ACCEPT_SUDO_MODE, and the server's half of the ECDH exchange.  Without a
\* key pair for it, SRP sessions (those with a chosen mechanism) get by with
\* the keys of SRP; keypair sessions stay in plain text.
Authenticated(auth, accept, state) ==
    LET c == [Reset(client) EXCEPT !.state = state,
                                 !.keypair_challenge_nonce = None]
        k == Secret("x25519", client.keypairs + 1)
        generated == [c EXCEPT !.ecdh_private_key = k, !.keypairs = @ + 1] IN
    /\ SetPeerEncryptionState("server", auth, Key(auth, None))
    /\ \E success \in KeygenResults :
        IF success
        THEN /\ client' = generated
             /\ Send("server", <<accept, Message("ECDH_PUBKEY", k)>>)
        ELSE /\ client' = c
             /\ IF client.mech # "NONE" THEN SendAndActivate("server", <<accept>>)
                ELSE Send("server", <<accept>>)

AcceptAuth(auth) ==
    Authenticated(auth, Message("AUTH_ACCEPT", None), "AwaitingInit2")

FirstSrp ==
    /\ Handles("server", "FIRST_SRP")
    /\ client' = IF client.state = "SudoMode"
                 THEN [client EXCEPT !.state = "Active"] ELSE client
    /\ UNCHANGED <<user, changes, peer, queue, sendVars, arrived, net>>

\* A is answered by a challenge unless an exchange is going on; accounts
\* with a keypair do not allow it.
SrpBytesA ==
    /\ Handles("server", "SRP_BYTES_A")
    /\ CASE client.state \notin {"HelloSent", "Active"} ->
                UNCHANGED <<client, peer, queue>>
         [] client.state = "Active" /\ client.mech # "NONE" -> DenySudoAccess(client)
         [] client.state = "HelloSent" /\ client.mech # "NONE" -> DenyAccess
         [] OTHER ->
                /\ client' = [client EXCEPT !.mech = "SRP",
                                !.auth_data = Packet("server").id]
                /\ Send("server", <<Message("SRP_BYTES_S_B", Packet("server").id)>>)
                /\ UNCHANGED peer
    /\ UNCHANGED <<user, changes, sendVars, arrived, net>>

\* M proves that both computed the same key.
SrpBytesM ==
    LET sudo == client.state = "Active"
        proved == Packet("server").id = client.auth_data IN
    /\ Handles("server", "SRP_BYTES_M")
    /\ CASE client.state \notin {"HelloSent", "Active"} ->
                UNCHANGED <<client, peer, queue>>
         [] sudo /\ client.mech = "NONE" -> DenySudoAccess(client)
         [] sudo /\ client.mech # "NONE" /\ ~proved -> DenySudoAccess(Reset(client))
         [] sudo /\ client.mech # "NONE" /\ proved ->
                Authenticated(client.auth_data, Message("ACCEPT_SUDO_MODE", None), "SudoMode")
         [] ~sudo /\ client.mech # "NONE" /\ proved -> AcceptAuth(client.auth_data)
         [] OTHER -> DenyAccess
    /\ UNCHANGED <<user, changes, sendVars, arrived, net>>

\* A new account: the public key itself is what the keys are made of.
KeypairRegister ==
    /\ Handles("server", "KEYPAIR_REGISTER")
    /\ IF client.state = "HelloSent" THEN AcceptAuth(PublicKey)
       ELSE UNCHANGED <<client, peer, queue>>
    /\ UNCHANGED <<user, changes, sendVars, arrived, net>>

KeypairLogin ==
    /\ Handles("server", "KEYPAIR_LOGIN")
    /\ IF client.state = "HelloSent"
       THEN /\ client' = [client EXCEPT !.keypair_challenge_nonce = Secret("challenge", 0)]
            /\ Send("server", <<Message("KEYPAIR_CHALLENGE", Secret("challenge", 0))>>)
       ELSE UNCHANGED <<client, queue>>
    /\ UNCHANGED <<user, changes, peer, sendVars, arrived, net>>

KeypairResponse ==
    /\ Handles("server", "KEYPAIR_RESPONSE")
    /\ IF client.keypair_challenge_nonce = Packet("server").id
       THEN AcceptAuth(client.keypair_challenge_nonce)
       ELSE DenyAccess
    /\ UNCHANGED <<user, changes, sendVars, arrived, net>>

\* Variant: the secret is mixed into the keys kept with the client, which
\* acceptAuth has cleared.
MixECDHSecretOnPeer_Client(ecdh) ==
    peer' = [peer EXCEPT !["server"].key = Key(None, ecdh)]

MixECDHSecretOnPeer(ecdh) ==
    peer' = [peer EXCEPT !["server"].key = Key(peer["server"].srp, ecdh)]

EcdhPubkeyToServer ==
    /\ Handles("server", "ECDH_PUBKEY")
    /\ IF client.ecdh_private_key # None
       THEN /\ MixECDHSecretOnPeer(<<client.ecdh_private_key, Packet("server").id>>)
            /\ SendAndActivate("server", << >>)
       ELSE UNCHANGED <<peer, queue>>
    /\ UNCHANGED <<client, user, changes, sendVars, arrived, net>>

Init2 ==
    /\ Handles("server", "INIT2")
    /\ IF client.state = "AwaitingInit2"
       THEN /\ client' = [client EXCEPT !.state = "DefinitionsSent"]
            /\ Send("server", <<Message("DEFINITIONS", None)>>)
       ELSE UNCHANGED <<client, queue>>
    /\ UNCHANGED <<user, changes, peer, sendVars, arrived, net>>

ClientReady ==
    /\ Handles("server", "CLIENT_READY")
    /\ client' = [client EXCEPT !.state = "Active"]
    /\ UNCHANGED <<user, changes, peer, queue, sendVars, arrived, net>>

\* Client::deleteAuthData
DeleteAuthData(u) ==
    IF u.mech \in {"KEYPAIR_LOGIN", "KEYPAIR_REGISTER"} \/ u.auth_data # None
    THEN [u EXCEPT !.mech = "NONE", !.auth_data = None, !.session_key = None] ELSE u

SrpBytesSandB ==
    /\ Handles("client", "SRP_BYTES_S_B")
    /\ IF user.mech \in {"SRP", "FIRST_SRP"}
       THEN LET key == IF user.auth_data = Packet("client").id
                       THEN user.auth_data ELSE Secret("other", 0) IN
            /\ user' = [user EXCEPT !.session_key = key]
            /\ Send("client", <<Message("SRP_BYTES_M", key)>>)
       ELSE UNCHANGED <<user, queue>>
    /\ UNCHANGED <<client, changes, peer, sendVars, arrived, net>>

KeypairChallenge ==
    /\ Handles("client", "KEYPAIR_CHALLENGE")
    /\ user' = [user EXCEPT !.session_key = Packet("client").id]
    /\ Send("client", <<Message("KEYPAIR_RESPONSE", Packet("client").id)>>)
    /\ UNCHANGED <<client, changes, peer, sendVars, arrived, net>>

AuthAccept ==
    LET auth == IF user.mech = "KEYPAIR_REGISTER" THEN PublicKey
                ELSE user.session_key IN
    /\ Handles("client", "AUTH_ACCEPT")
    /\ SetPeerEncryptionState("client", auth, Key(auth, None))
    /\ user' = [DeleteAuthData(user) EXCEPT !.key = Key(auth, None)]
    /\ Send("client", <<Message("INIT2", None)>>)
    /\ UNCHANGED <<client, changes, sendVars, arrived, net>>

\* Variant: the client starts to encrypt at once.
EcdhPubkeyToClient_Activates ==
    LET n == Secret("x25519", user.keypairs + 1)
        key == Key(user.key.auth, <<Packet("client").id, n>>) IN
    /\ Handles("client", "ECDH_PUBKEY")
    /\ user' = [user EXCEPT !.keypairs = @ + 1, !.key = key]
    /\ peer' = [peer EXCEPT !["client"] =
                    [active |-> TRUE, srp |-> key.auth, key |-> key]]
    /\ Send("client", <<Message("ECDH_PUBKEY", n)>>)
    /\ UNCHANGED <<client, changes, sendVars, arrived, net>>

EcdhPubkeyToClient ==
    LET n == Secret("x25519", user.keypairs + 1)
        key == Key(user.key.auth, <<Packet("client").id, n>>) IN
    /\ Handles("client", "ECDH_PUBKEY")
    /\ user' = [user EXCEPT !.keypairs = @ + 1, !.key = key]
    /\ SetPeerEncryptionState("client", key.auth, key)
    /\ Send("client", <<Message("ECDH_PUBKEY", n)>>)
    /\ UNCHANGED <<client, changes, sendVars, arrived, net>>

Definitions ==
    /\ Handles("client", "DEFINITIONS")
    /\ user' = [user EXCEPT !.ready = TRUE]
    /\ Send("client", <<Message("CLIENT_READY", None)>>)
    /\ UNCHANGED <<client, changes, peer, sendVars, arrived, net>>

\* The player changes the password; an account made with FIRST_SRP allows SRP.
sendChangePassword ==
    /\ user.ready /\ changes < PasswordChanges
    /\ PatientPlayer => \A side \in Sides : peer[side].active
    /\ changes' = changes + 1
    /\ LET mech == IF user.account = "FIRST_SRP" THEN "SRP" ELSE user.account
           start == StartAuth(mech, user) IN
       /\ user' = start.user
       /\ Send("client", start.msgs)
    /\ UNCHANGED <<client, peer, sendVars, arrived, handled, net>>

\* Variant: only the exchange is begun again.
AcceptSudoMode_NoVerifier ==
    LET start == StartAuth("SRP", DeleteAuthData(user)) IN
    /\ Handles("client", "ACCEPT_SUDO_MODE")
    /\ user' = [start.user EXCEPT !.mech = "NONE"]
    /\ Send("client", start.msgs)
    /\ UNCHANGED <<client, changes, peer, sendVars, arrived, net>>

\* The new password is set; the mechanism is forgotten, the exchange that
\* startAuth has begun is not.
AcceptSudoMode ==
    LET start == StartAuth("FIRST_SRP", DeleteAuthData(user)) IN
    /\ Handles("client", "ACCEPT_SUDO_MODE")
    /\ user' = [start.user EXCEPT !.mech = "NONE"]
    /\ Send("client", start.msgs)
    /\ UNCHANGED <<client, changes, peer, sendVars, arrived, net>>

DenySudoMode ==
    /\ Handles("client", "DENY_SUDO_MODE")
    /\ user' = DeleteAuthData(user)
    /\ UNCHANGED <<client, changes, peer, queue, sendVars, arrived, net>>

ServerHandlers ==
    \/ FirstSrp \/ SrpBytesA \/ SrpBytesM \/ KeypairRegister \/ KeypairLogin
    \/ KeypairResponse \/ EcdhPubkeyToServer \/ Init2 \/ ClientReady

ClientHandlers ==
    \/ SrpBytesSandB \/ KeypairChallenge \/ AuthAccept \/ EcdhPubkeyToClient
    \/ Definitions \/ AcceptSudoMode \/ DenySudoMode

-----------------------------------------------------------------------------
(* Send and receive threads                                                *)

\* A second copy of what has arrived says no more than an acknowledgement or
\* an unreliable packet (n = 0), and in the clear it says nothing.
Meaningful(datagrams, received) ==
    {[d EXCEPT !.n = IF d.n \in received[d.to] THEN 0 ELSE d.n] : d \in datagrams}
        \ [to : Sides, n : {0}, key : {Plain}]

\* rawSend: encrypted or not, as the state is when the datagram leaves.
rawSend(side, n) ==
    LET d == [to |-> Other(side), n |-> n,
              key |-> IF peer[side].active THEN peer[side].key ELSE Plain] IN
    net' = Meaningful(net \cup {d}, arrived)

\* A turn of the loop takes all commands and puts activations aside.
RunCommands(side) ==
    /\ queue[side] # Commands(<< >>, FALSE) /\ ~pending[side]
    /\ log' = [log EXCEPT ![side] = @ \o queue[side].packets]
    /\ pending' = [pending EXCEPT ![side] = queue[side].activate]
    /\ queue' = [queue EXCEPT ![side] = Commands(<< >>, FALSE)]
    /\ UNCHANGED <<mainVars, peer, sent, arrived, net>>

sendPackets(side) ==
    /\ sent[side] < Len(log[side])
    /\ sent' = [sent EXCEPT ![side] = @ + 1]
    /\ rawSend(side, sent[side] + 1)
    /\ UNCHANGED <<mainVars, peer, queue, pending, log, arrived>>

\* Acknowledgements, pings and unreliable packets.
SendOther(side) ==
    /\ rawSend(side, 0)
    /\ UNCHANGED <<mainVars, peer, queue, sendVars, arrived>>

\* The end of the turn; quota and window may have left packets unsent.
ActivatePending(side) ==
    /\ pending[side]
    /\ peer' = [peer EXCEPT ![side].active = TRUE]
    /\ pending' = [pending EXCEPT ![side] = FALSE]
    /\ UNCHANGED <<mainVars, queue, log, sent, arrived, net>>

\* runTimeouts: a packet that was sent and whose acknowledgement may be lost.
resendReliable(side, n) ==
    /\ n <= sent[side] /\ rawSend(side, n)
    /\ UNCHANGED <<mainVars, peer, queue, sendVars, arrived>>

Readable(side, d) == d.key = Plain \/ (d.key = peer[side].key /\ d.key # NoKey)

\* Variant: any datagram that can be read activates encryption.
AutoActivated_Always(side, d) == TRUE

\* What was decrypted proves that the other side encrypts.
AutoActivated(side, d) == peer[side].active \/ d.key # Plain

receive(side, d) ==
    /\ d.to = side /\ Readable(side, d)
    /\ arrived' = [arrived EXCEPT ![side] = IF d.n = 0 THEN @ ELSE @ \cup {d.n}]
    /\ peer' = [peer EXCEPT ![side].active = AutoActivated(side, d)]
    /\ net' = Meaningful(net, arrived')
    /\ UNCHANGED <<mainVars, queue, sendVars>>

SendThread(side) ==
    \/ RunCommands(side) \/ sendPackets(side) \/ SendOther(side)
    \/ ActivatePending(side)
    \/ \E n \in 1 .. Len(log[side]) : resendReliable(side, n)

ReceiveThread(side) == \E d \in net : receive(side, d)

Next ==
    \/ ServerHandlers \/ ClientHandlers \/ sendChangePassword
    \/ \E side \in Sides : SendThread(side) \/ ReceiveThread(side)

Spec == Init /\ [][Next]_vars

-----------------------------------------------------------------------------
(* Properties                                                              *)

Numbers == 0 .. 12 + 8 * PasswordChanges

\* All threads run.  An unacknowledged packet is sent again, a server that
\* hears nothing new still pings and acknowledges, and a network that is
\* handed the same packet for ever delivers it.
Fairness ==
    /\ WF_vars(ServerHandlers) /\ WF_vars(ClientHandlers)
    /\ WF_vars(SendOther("server"))
    /\ \A side \in Sides :
        /\ WF_vars(RunCommands(side)) /\ WF_vars(sendPackets(side))
        /\ WF_vars(ActivatePending(side))
        /\ \A n \in Numbers :
            /\ WF_vars(resendReliable(side, n))
            /\ WF_vars(\E d \in net : d.n = n /\ receive(side, d))

FairSpec == Spec /\ Fairness

ClientStates ==
    {"Denied", "HelloSent", "AwaitingInit2", "DefinitionsSent", "Active", "SudoMode"}

\* The reliable streams are prefixes of one another, and the server has data
\* for an exchange if and only if it has chosen a mechanism.
TypeOK ==
    /\ client.state \in ClientStates
    /\ (client.mech = "NONE") <=> (client.auth_data = None)
    /\ pending \in [Sides -> BOOLEAN] /\ ~pending["client"]
    /\ \A side \in Sides :
        /\ peer[side].active \in BOOLEAN
        /\ sent[side] \in 0 .. Len(log[side])
        /\ arrived[side] \subseteq 1 .. sent[Other(side)]
        /\ 1 .. handled[side] \subseteq arrived[side]
    /\ changes \in 0 .. PasswordChanges

\* From the first login to the first change of the password, whoever is sent
\* an encrypted datagram can read it: when it leaves, and however late it
\* comes.
Decryptable == changes = 0 => \A d \in net : Readable(d.to, d)

\* Until then the server begins: a client that encrypts has a server that
\* does, with the same keys, which both the SRP session and the ECDH exchange
\* went into.
ClientFollows ==
    changes = 0 /\ peer["client"].active =>
        /\ peer["server"] = peer["client"]
        /\ peer["client"].key.auth # None /\ peer["client"].key.ecdh # None

\* What the comment in handleCommand_SrpBytesM says of every authentication:
\* the server does not encrypt before both sides have derived the same keys.
KeysAgree == peer["server"].active => peer["client"].key = peer["server"].key

\* A login ends with both sides encrypting, whatever is lost: the transition
\* itself loses nothing.
EncryptionStarts ==
    [](changes = 0) =>
        <>[](client.state = "Active" /\ \A side \in Sides : peer[side].active)

\* The new verifier arrives, although its client still encrypts with the old
\* keys when the server has changed its own.
LeavesSudoMode == client.state = "SudoMode" ~> client.state = "Active"
=============================================================================
