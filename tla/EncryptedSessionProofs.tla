----------------------- MODULE EncryptedSessionProofs -----------------------
(***************************************************************************)
(* Until the first change of the password, whatever is encrypted can be    *)
(* read: for every kind of account, however packets are lost, repeated and *)
(* reordered and however late commands and activations are carried out.    *)
(*                                                                         *)
(* Up to there a login is a fixed conversation.  The invariant says which  *)
(* packets each side has put into words (Says), and that what a side knows *)
(* follows from how many packets of the other one it has handled.          *)
(***************************************************************************)
EXTENDS EncryptedSession, TLAPS

-----------------------------------------------------------------------------
(* The conversation of an account of kind m                                *)

SrpMechs == {"SRP", "FIRST_SRP"}

\* The server's packet that asks for a proof, 0 if there is none, and the
\* client's packet that proves who it is.
ChallengeNo(m) == IF m = "KEYPAIR_REGISTER" THEN 0 ELSE 1
ProofNo(m) == CASE m = "KEYPAIR_REGISTER" -> 1
                [] m = "FIRST_SRP" -> 3
                [] OTHER -> 2

SrpSecret == Secret("srp", 1)
Exchanged == Secret("x25519", 1)
Nonce == Secret("challenge", 0)

AuthSecret(m) == CASE m = "KEYPAIR_REGISTER" -> PublicKey
                   [] m = "KEYPAIR_LOGIN" -> Nonce
                   [] OTHER -> SrpSecret

\* The key after authentication, and the one that the exchange was mixed into.
AuthKey(m) == Key(AuthSecret(m), None)
FullKey(m) == Key(AuthSecret(m), <<Exchanged, Exchanged>>)

Asks(m) == IF m \in SrpMechs THEN Message("SRP_BYTES_A", SrpSecret)
           ELSE Message("KEYPAIR_LOGIN", None)
Challenges(m) == IF m \in SrpMechs THEN Message("SRP_BYTES_S_B", SrpSecret)
                 ELSE Message("KEYPAIR_CHALLENGE", Nonce)
Proves(m) == CASE m = "KEYPAIR_REGISTER" -> Message("KEYPAIR_REGISTER", None)
               [] m = "KEYPAIR_LOGIN" -> Message("KEYPAIR_RESPONSE", Nonce)
               [] OTHER -> Message("SRP_BYTES_M", SrpSecret)

ClientSays(m, i) ==
    CASE i = ProofNo(m) + 1 -> Message("INIT2", None)
      [] i = ProofNo(m) + 2 -> Message("ECDH_PUBKEY", Exchanged)
      [] i = ProofNo(m) + 3 -> Message("CLIENT_READY", None)
      [] i = ProofNo(m)     -> Proves(m)
      [] i = ProofNo(m) - 1 -> Asks(m)
      [] OTHER              -> Message("FIRST_SRP", None)

ServerSays(m, i) ==
    CASE i = ChallengeNo(m) + 1 -> Message("AUTH_ACCEPT", None)
      [] i = ChallengeNo(m) + 2 -> Message("ECDH_PUBKEY", Exchanged)
      [] i = ChallengeNo(m) + 3 -> Message("DEFINITIONS", None)
      [] OTHER                  -> Challenges(m)

Says(m, side, i) == IF side = "client" THEN ClientSays(m, i) ELSE ServerSays(m, i)

\* How many packets a side has begun to send when it has handled k.
ClientSaid(m, k) == ProofNo(m) - ChallengeNo(m) + k
ServerSaid(m, k) ==
    CASE k > ProofNo(m) -> ChallengeNo(m) + 3
      [] k = ProofNo(m) -> ChallengeNo(m) + 2
      [] k < ProofNo(m) /\ k >= ProofNo(m) - ChallengeNo(m) -> ChallengeNo(m)
      [] OTHER -> 0
Said(m, side, k) == IF side = "client" THEN ClientSaid(m, k) ELSE ServerSaid(m, k)

\* What a side knows when it has handled k packets.
ClientAt(m, k) ==
    LET asked == m \in SrpMechs /\ k = ProofNo(m) - 1 IN
    [state |-> CASE k < ProofNo(m) -> "HelloSent"
                 [] k = ProofNo(m) -> "AwaitingInit2"
                 [] k = ProofNo(m) + 3 -> "Active"
                 [] OTHER -> "DefinitionsSent",
     mech |-> IF asked THEN "SRP" ELSE "NONE",
     auth_data |-> IF asked THEN SrpSecret ELSE None,
     keypair_challenge_nonce |-> IF m = "KEYPAIR_LOGIN" /\ k = 1 THEN Nonce ELSE None,
     ecdh_private_key |-> IF k >= ProofNo(m) THEN Exchanged ELSE None,
     keypairs |-> IF k >= ProofNo(m) THEN 1 ELSE 0]

UserAt(m, k) ==
    [mech |-> IF k <= ChallengeNo(m) THEN m ELSE "NONE",
     account |-> m,
     auth_data |-> IF m \in SrpMechs /\ k <= ChallengeNo(m) THEN SrpSecret ELSE None,
     session_key |-> IF m # "KEYPAIR_REGISTER" /\ k = 1 THEN AuthSecret(m) ELSE None,
     key |-> CASE k <= ChallengeNo(m) -> NoKey
               [] k = ChallengeNo(m) + 1 -> AuthKey(m)
               [] OTHER -> FullKey(m),
     exchanges |-> IF m \in SrpMechs THEN 1 ELSE 0,
     keypairs |-> IF k >= ChallengeNo(m) + 2 THEN 1 ELSE 0,
     ready |-> IF k >= ChallengeNo(m) + 3 THEN TRUE ELSE FALSE]

\* The packets after which a side has the first key, and the full one.
FirstKeyAt(m, side) == IF side = "client" THEN ChallengeNo(m) + 1 ELSE ProofNo(m)
FullKeyAt(m, side) == IF side = "client" THEN ChallengeNo(m) + 2 ELSE ProofNo(m) + 2

PeerAt(m, side, k, active) ==
    [active |-> active,
     srp |-> IF k >= FirstKeyAt(m, side) THEN AuthSecret(m) ELSE None,
     key |-> CASE k >= FullKeyAt(m, side) -> FullKey(m)
               [] k >= FirstKeyAt(m, side) /\ k < FullKeyAt(m, side) -> AuthKey(m)
               [] OTHER -> NoKey]

-----------------------------------------------------------------------------
(* The invariant                                                           *)

Words(m) == {Says(m, side, i) : side \in Sides, i \in Nat}

Types(m) ==
    /\ log \in [Sides -> Seq(Words(m))]
    /\ queue \in [Sides -> [packets : Seq(Words(m)), activate : BOOLEAN]]
    /\ sent \in [Sides -> Nat] /\ handled \in [Sides -> Nat]
    /\ arrived \in [Sides -> SUBSET Nat]
    /\ pending \in [Sides -> BOOLEAN]
    /\ \A side \in Sides : peer[side].active \in BOOLEAN
    /\ net \subseteq [to : Sides, n : Nat, key : {Plain, FullKey(m)}]

\* l has been given to the channel, q waits: together the first n packets.
Stream(m, side, l, q, n) ==
    /\ Len(l) + Len(q) = n
    /\ \A i \in 1 .. Len(l) : l[i] = Says(m, side, i)
    /\ \A i \in 1 .. Len(q) : q[i] = Says(m, side, Len(l) + i)

Spoken(m) == \A side \in Sides :
    Stream(m, side, log[side], queue[side].packets, Said(m, side, handled[side]))

\* Only what was sent arrives, only what was said is handled.
Heard(m) ==
    /\ \A side \in Sides :
        /\ sent[side] <= Len(log[side])
        /\ \A n \in arrived[side] : n \in 1 .. sent[Other(side)]
        /\ handled[side] <= Said(m, Other(side), handled[Other(side)])
    /\ \A d \in net : d.n <= sent[Other(d.to)]

Known(m) ==
    /\ client = ClientAt(m, handled["server"])
    /\ user = UserAt(m, handled["client"])
    /\ peer = [side \in Sides |-> PeerAt(m, side, handled[side], peer[side].active)]

\* The server begins, and only with the full key.
Switch(m) ==
    /\ ~pending["client"] /\ ~queue["client"].activate
    /\ queue["server"].activate \/ pending["server"] \/ peer["server"].active =>
          handled["server"] >= FullKeyAt(m, "server")
    /\ peer["client"].active => peer["server"].active
    /\ \A d \in net : d.key # Plain => peer["server"].active

Login(m) == Types(m) /\ Spoken(m) /\ Heard(m) /\ Known(m) /\ Switch(m)

LoginInv == /\ changes \in Nat
            /\ changes = 0 => \E m \in Mechs : Login(m)

-----------------------------------------------------------------------------
(* The words of the conversation                                           *)

LEMMA Shape ==
    ASSUME NEW m \in Mechs
    PROVE  /\ ChallengeNo(m) \in 0 .. 1 /\ ProofNo(m) \in 1 .. 3
           /\ ProofNo(m) > ChallengeNo(m)
           /\ m \in {"SRP", "FIRST_SRP", "KEYPAIR_LOGIN", "KEYPAIR_REGISTER"}
           /\ m = "SRP" => ChallengeNo(m) = 1 /\ ProofNo(m) = 2
           /\ m = "FIRST_SRP" => ChallengeNo(m) = 1 /\ ProofNo(m) = 3
           /\ m = "KEYPAIR_LOGIN" => ChallengeNo(m) = 1 /\ ProofNo(m) = 2
           /\ m = "KEYPAIR_REGISTER" => ChallengeNo(m) = 0 /\ ProofNo(m) = 1
  <1>1. m \in {"SRP", "FIRST_SRP", "KEYPAIR_LOGIN", "KEYPAIR_REGISTER"}
    BY SessionAssumption
  <1> QED BY <1>1 DEF ChallengeNo, ProofNo

\* The four kinds of key differ.
LEMMA KeysDiffer ==
    ASSUME NEW m \in Mechs
    PROVE  /\ FullKey(m) # Plain /\ FullKey(m) # NoKey
           /\ AuthSecret(m) # None /\ Exchanged # None /\ SrpSecret # None
           /\ FullKey(m).auth # None /\ FullKey(m).ecdh # None
  <1>1. AuthSecret(m) \in {Nonce, PublicKey, SrpSecret}
    BY DEF AuthSecret
  <1>2. \A a, b : <<a, b>> # << >>
    OBVIOUS
  <1>3. AuthSecret(m) # None
    BY <1>1, <1>2 DEF Nonce, PublicKey, SrpSecret, Secret, None
  <1>4. /\ FullKey(m).ecdh = <<Exchanged, Exchanged>> /\ FullKey(m).auth = AuthSecret(m)
        /\ Plain.ecdh = None /\ NoKey.ecdh = None
    BY DEF FullKey, Plain, NoKey, Key
  <1>5. <<Exchanged, Exchanged>> # None
    BY <1>2 DEF None
  <1>6. Exchanged # None /\ SrpSecret # None
    BY <1>2 DEF None, Exchanged, SrpSecret, Secret
  <1> QED BY <1>3, <1>4, <1>5, <1>6

\* Which packet of the client's is which.
LEMMA ClientWords ==
    ASSUME NEW m \in Mechs, NEW i \in 1 .. ProofNo(m) + 3
    PROVE  /\ ClientSays(m, i).cmd = "INIT2" => i = ProofNo(m) + 1
           /\ ClientSays(m, i).cmd = "ECDH_PUBKEY" =>
                 i = ProofNo(m) + 2 /\ ClientSays(m, i).id = Exchanged
           /\ ClientSays(m, i).cmd = "CLIENT_READY" => i = ProofNo(m) + 3
           /\ ClientSays(m, i).cmd = "FIRST_SRP" => m = "FIRST_SRP" /\ i = 1
           /\ ClientSays(m, i).cmd = "SRP_BYTES_A" =>
                 m \in SrpMechs /\ i = ProofNo(m) - 1 /\ ClientSays(m, i).id = SrpSecret
           /\ ClientSays(m, i).cmd = "SRP_BYTES_M" =>
                 m \in SrpMechs /\ i = ProofNo(m) /\ ClientSays(m, i).id = SrpSecret
           /\ ClientSays(m, i).cmd = "KEYPAIR_LOGIN" => m = "KEYPAIR_LOGIN" /\ i = 1
           /\ ClientSays(m, i).cmd = "KEYPAIR_RESPONSE" =>
                 m = "KEYPAIR_LOGIN" /\ i = 2 /\ ClientSays(m, i).id = Nonce
           /\ ClientSays(m, i).cmd = "KEYPAIR_REGISTER" => m = "KEYPAIR_REGISTER" /\ i = 1
  <1> DEFINE q == ProofNo(m)
  <1>1. q \in 1 .. 3
    BY Shape
  <1>2. CASE i = q + 1
    <2>1. ClientSays(m, i) = Message("INIT2", None)
      BY <1>1, <1>2 DEF ClientSays
    <2> QED BY <1>2, <2>1 DEF Message
  <1>3. CASE i = q + 2
    <2>1. ClientSays(m, i) = Message("ECDH_PUBKEY", Exchanged)
      BY <1>1, <1>3 DEF ClientSays
    <2> QED BY <1>3, <2>1 DEF Message
  <1>4. CASE i = q + 3
    <2>1. ClientSays(m, i) = Message("CLIENT_READY", None)
      BY <1>1, <1>4 DEF ClientSays
    <2> QED BY <1>4, <2>1 DEF Message
  <1>5. CASE i = q
    <2>1. ClientSays(m, i) = Proves(m)
      BY <1>1, <1>5 DEF ClientSays
    <2> QED BY <1>5, <2>1, Shape DEF Message, Proves, SrpMechs
  <1>6. CASE i = q - 1
    <2>1. ClientSays(m, i) = Asks(m)
      BY <1>1, <1>6 DEF ClientSays
    <2> QED BY <1>6, <2>1, Shape DEF Message, Asks, SrpMechs
  <1>7. CASE i < q - 1
    <2>1. ClientSays(m, i) = Message("FIRST_SRP", None)
      BY <1>1, <1>7 DEF ClientSays
    <2>2. i = 1 /\ m = "FIRST_SRP"
      BY <1>1, <1>7, Shape
    <2> QED BY <2>1, <2>2 DEF Message
  <1> QED BY <1>1, <1>2, <1>3, <1>4, <1>5, <1>6, <1>7

\* Which packet of the server's is which; none is about a change of the
\* password.
LEMMA ServerWords ==
    ASSUME NEW m \in Mechs, NEW i \in 1 .. ChallengeNo(m) + 3
    PROVE  /\ ServerSays(m, i).cmd = "AUTH_ACCEPT" => i = ChallengeNo(m) + 1
           /\ ServerSays(m, i).cmd = "ECDH_PUBKEY" =>
                 i = ChallengeNo(m) + 2 /\ ServerSays(m, i).id = Exchanged
           /\ ServerSays(m, i).cmd = "DEFINITIONS" => i = ChallengeNo(m) + 3
           /\ ServerSays(m, i).cmd = "SRP_BYTES_S_B" =>
                 m \in SrpMechs /\ i = 1 /\ ServerSays(m, i).id = SrpSecret
           /\ ServerSays(m, i).cmd = "KEYPAIR_CHALLENGE" =>
                 m = "KEYPAIR_LOGIN" /\ i = 1 /\ ServerSays(m, i).id = Nonce
           /\ ServerSays(m, i).cmd \notin {"ACCEPT_SUDO_MODE", "DENY_SUDO_MODE"}
  <1> DEFINE p == ChallengeNo(m)
  <1>1. p \in 0 .. 1
    BY Shape
  <1>2. CASE i = p + 1
    <2>1. ServerSays(m, i) = Message("AUTH_ACCEPT", None)
      BY <1>1, <1>2 DEF ServerSays
    <2> QED BY <1>2, <2>1 DEF Message
  <1>3. CASE i = p + 2
    <2>1. ServerSays(m, i) = Message("ECDH_PUBKEY", Exchanged)
      BY <1>1, <1>3 DEF ServerSays
    <2> QED BY <1>3, <2>1 DEF Message
  <1>4. CASE i = p + 3
    <2>1. ServerSays(m, i) = Message("DEFINITIONS", None)
      BY <1>1, <1>4 DEF ServerSays
    <2> QED BY <1>4, <2>1 DEF Message
  <1>5. CASE i < p + 1
    <2>1. ServerSays(m, i) = Challenges(m)
      BY <1>1, <1>5 DEF ServerSays
    <2>2. i = 1 /\ m # "KEYPAIR_REGISTER"
      BY <1>1, <1>5, Shape
    <2> QED BY <2>1, <2>2, Shape DEF Message, Challenges, SrpMechs
  <1> QED BY <1>1, <1>2, <1>3, <1>4, <1>5

\* What is said next.
LEMMA SaidTypes ==
    ASSUME NEW m \in Mechs, NEW k \in Nat
    PROVE  /\ ClientSaid(m, k) \in Nat /\ ServerSaid(m, k) \in 0 .. ChallengeNo(m) + 3
           /\ ClientSaid(m, k) = ProofNo(m) - ChallengeNo(m) + k
           /\ k > ProofNo(m) => ServerSaid(m, k) = ChallengeNo(m) + 3
           /\ k = ProofNo(m) => ServerSaid(m, k) = ChallengeNo(m) + 2
           /\ k = ProofNo(m) - 1 => ServerSaid(m, k) = ChallengeNo(m)
           /\ k < ProofNo(m) - 1 => ServerSaid(m, k) = 0
           /\ k < ProofNo(m) => ServerSaid(m, k) <= ChallengeNo(m)
  <1>1. /\ ChallengeNo(m) \in 0 .. 1 /\ ProofNo(m) \in 1 .. 3
        /\ ProofNo(m) > ChallengeNo(m)
    BY Shape
  <1>2. ClientSaid(m, k) \in Nat /\ ClientSaid(m, k) = ProofNo(m) - ChallengeNo(m) + k
    BY <1>1 DEF ClientSaid
  <1>3. CASE k > ProofNo(m)
    BY <1>1, <1>2, <1>3 DEF ServerSaid
  <1>4. CASE k = ProofNo(m)
    BY <1>1, <1>2, <1>4 DEF ServerSaid
  <1>5. CASE k < ProofNo(m) /\ k >= ProofNo(m) - ChallengeNo(m)
    <2>1. ServerSaid(m, k) = ChallengeNo(m)
      BY <1>1, <1>5 DEF ServerSaid
    <2> QED BY <1>1, <1>2, <1>5, <2>1
  <1>6. CASE k < ProofNo(m) - ChallengeNo(m)
    <2>1. ServerSaid(m, k) = 0
      BY <1>1, <1>6 DEF ServerSaid
    <2> QED BY <1>1, <1>2, <1>6, <2>1
  <1> QED BY <1>1, <1>3, <1>4, <1>5, <1>6

-----------------------------------------------------------------------------
(* What is said                                                            *)

LEMMA WordType ==
    ASSUME NEW m \in Mechs, NEW side \in Sides, NEW i \in Nat
    PROVE  Says(m, side, i) \in Words(m)
  BY DEF Words

\* A side that says the next words goes on with the conversation.
LEMMA StreamGoesOn ==
    ASSUME NEW m \in Mechs, NEW side \in Sides, NEW n \in Nat,
           NEW l \in Seq(Words(m)), NEW q \in Seq(Words(m)), Stream(m, side, l, q, n),
           NEW w \in Seq(Words(m)),
           \A i \in 1 .. Len(w) : w[i] = Says(m, side, n + i)
    PROVE  q \o w \in Seq(Words(m)) /\ Stream(m, side, l, q \o w, n + Len(w))
  <1>1. Len(l) \in Nat /\ Len(q) \in Nat /\ Len(w) \in Nat /\ Len(l) + Len(q) = n
    BY DEF Stream
  <1>2. /\ q \o w \in Seq(Words(m)) /\ Len(q \o w) = Len(q) + Len(w)
        /\ \A i \in 1 .. Len(q) : (q \o w)[i] = q[i]
        /\ \A i \in 1 .. Len(w) : (q \o w)[Len(q) + i] = w[i]
    <2>1. \A a \in Seq(Words(m)), b \in Seq(Words(m)) :
              /\ a \o b \in Seq(Words(m)) /\ Len(a \o b) = Len(a) + Len(b)
              /\ \A k \in 1 .. Len(a) : (a \o b)[k] = a[k]
              /\ \A k \in 1 .. Len(b) : (a \o b)[Len(a) + k] = b[k]
      OBVIOUS
    <2> QED BY <2>1
  <1>3. ASSUME NEW i \in 1 .. Len(q \o w)
        PROVE  (q \o w)[i] = Says(m, side, Len(l) + i)
    <2>1. CASE i \in 1 .. Len(q)
      BY <1>2, <2>1 DEF Stream
    <2>2. CASE i \notin 1 .. Len(q)
      <3>1. PICK j \in 1 .. Len(w) : i = Len(q) + j /\ Len(l) + i = n + j
        <4>1. i \in Nat /\ i > Len(q) /\ i <= Len(q) + Len(w)
          BY <1>1, <1>2, <2>2
        <4>2. i - Len(q) \in 1 .. Len(w) /\ i = Len(q) + (i - Len(q))
          BY <1>1, <4>1
        <4>3. Len(l) + i = n + (i - Len(q))
          <5>1. PICK a \in Nat, b \in Nat, c \in Nat : a = Len(l) /\ b = Len(q) /\ c = i
            BY <1>1, <4>1, Zenon
          <5>2. a + b = n
            BY <1>1, <5>1, Zenon
          <5>3. a + c = n + (c - b)
            BY ONLY <5>2, a \in Nat, b \in Nat, c \in Nat, n \in Nat
          <5> QED BY <5>1, <5>3, Zenon
        <4> QED BY <4>2, <4>3, Zenon
      <3> QED BY <1>2, <3>1
    <2> QED BY <2>1, <2>2
  <1>4. Len(l) + Len(q \o w) = n + Len(w)
    BY <1>1, <1>2, SMTT(30)
  <1> QED BY <1>2, <1>3, <1>4 DEF Stream

LEMMA StreamGoesOnByOne ==
    ASSUME NEW m \in Mechs, NEW side \in Sides, NEW n \in Nat,
           NEW l \in Seq(Words(m)), NEW q \in Seq(Words(m)), Stream(m, side, l, q, n),
           NEW a, a = Says(m, side, n + 1)
    PROVE  q \o <<a>> \in Seq(Words(m)) /\ Stream(m, side, l, q \o <<a>>, n + 1)
  <1>1. a \in Words(m)
    BY WordType
  <1>2. PICK w : w = <<a>>
    OBVIOUS
  <1>3. w \in Seq(Words(m)) /\ Len(w) = 1 /\ w[1] = a
    BY <1>1, <1>2
  <1>4. \A i \in 1 .. Len(w) : w[i] = Says(m, side, n + i)
    BY <1>3
  <1>5. q \o w \in Seq(Words(m)) /\ Stream(m, side, l, q \o w, n + Len(w))
    BY <1>3, <1>4, StreamGoesOn
  <1> QED BY <1>2, <1>3, <1>5

LEMMA StreamGoesOnByTwo ==
    ASSUME NEW m \in Mechs, NEW side \in Sides, NEW n \in Nat,
           NEW l \in Seq(Words(m)), NEW q \in Seq(Words(m)), Stream(m, side, l, q, n),
           NEW a, a = Says(m, side, n + 1), NEW b, b = Says(m, side, n + 2)
    PROVE  q \o <<a, b>> \in Seq(Words(m)) /\ Stream(m, side, l, q \o <<a, b>>, n + 2)
  <1>1. a \in Words(m) /\ b \in Words(m)
    BY WordType
  <1>2. PICK w : w = <<a, b>>
    OBVIOUS
  <1>3. w \in Seq(Words(m)) /\ Len(w) = 2 /\ w[1] = a /\ w[2] = b
    BY <1>1, <1>2
  <1>4. \A i \in 1 .. Len(w) : w[i] = Says(m, side, n + i)
    BY <1>3
  <1>5. q \o w \in Seq(Words(m)) /\ Stream(m, side, l, q \o w, n + Len(w))
    BY <1>3, <1>4, StreamGoesOn
  <1> QED BY <1>2, <1>3, <1>5

\* The commands of a queue are taken.
LEMMA StreamTaken ==
    ASSUME NEW m \in Mechs, NEW side \in Sides, NEW n \in Nat,
           NEW l \in Seq(Words(m)), NEW q \in Seq(Words(m)), Stream(m, side, l, q, n)
    PROVE  /\ l \o q \in Seq(Words(m)) /\ Stream(m, side, l \o q, << >>, n)
           /\ Len(l) <= Len(l \o q)
  <1>1. Len(l) \in Nat /\ Len(q) \in Nat /\ Len(l) + Len(q) = n
    BY DEF Stream
  <1>2. /\ l \o q \in Seq(Words(m)) /\ Len(l \o q) = Len(l) + Len(q)
        /\ \A i \in 1 .. Len(l) : (l \o q)[i] = l[i]
        /\ \A i \in 1 .. Len(q) : (l \o q)[Len(l) + i] = q[i]
    <2>1. \A a \in Seq(Words(m)), b \in Seq(Words(m)) :
              /\ a \o b \in Seq(Words(m)) /\ Len(a \o b) = Len(a) + Len(b)
              /\ \A k \in 1 .. Len(a) : (a \o b)[k] = a[k]
              /\ \A k \in 1 .. Len(b) : (a \o b)[Len(a) + k] = b[k]
      OBVIOUS
    <2> QED BY <2>1
  <1>3. ASSUME NEW i \in 1 .. Len(l \o q)
        PROVE  (l \o q)[i] = Says(m, side, i)
    <2>1. CASE i \in 1 .. Len(l)
      BY <1>2, <2>1 DEF Stream
    <2>2. CASE i \notin 1 .. Len(l)
      <3>1. PICK j \in 1 .. Len(q) : i = Len(l) + j
        <4>1. i - Len(l) \in 1 .. Len(q) /\ i = Len(l) + (i - Len(l))
          BY <1>1, <1>2, <2>2
        <4> QED BY <4>1
      <3> QED BY <1>2, <3>1 DEF Stream
    <2> QED BY <2>1, <2>2
  <1>4. PICK e : e = << >>
    OBVIOUS
  <1>5. Len(e) = 0 /\ Len(l \o q) + Len(e) = n
    BY <1>1, <1>2, <1>4
  <1>6. Stream(m, side, l \o q, e, n)
    BY <1>3, <1>5 DEF Stream
  <1> QED BY <1>1, <1>2, <1>4, <1>6

\* The next packet for a side's main thread is the next word of the other one.
LEMMA Hears ==
    ASSUME NEW m \in Mechs, Login(m), NEW side \in Sides, NEW cmd, Handles(side, cmd)
    PROVE  LET n == handled[side] + 1 IN
           /\ n \in Nat \ {0}
           /\ n <= Said(m, Other(side), handled[Other(side)])
           /\ Packet(side) = Says(m, Other(side), n)
           /\ Packet(side).cmd = cmd
           /\ handled' = [handled EXCEPT ![side] = n]
  <1> DEFINE o == Other(side)
             n == handled[side] + 1
  <1>1. o \in Sides
    BY DEF Other, Sides
  <1>2. /\ n \in Nat \ {0} /\ sent[o] \in Nat
        /\ Len(log[o]) \in Nat /\ Len(queue[o].packets) \in Nat
    BY <1>1 DEF Login, Types
  <1>3. n <= sent[o] /\ sent[o] <= Len(log[o])
    BY <1>1, <1>2 DEF Handles, Login, Heard
  <1>4. /\ Len(log[o]) + Len(queue[o].packets) = Said(m, o, handled[o])
        /\ \A i \in 1 .. Len(log[o]) : log[o][i] = Says(m, o, i)
    BY <1>1 DEF Login, Spoken, Stream
  <1>5. n <= Said(m, o, handled[o]) /\ n \in 1 .. Len(log[o])
    <2>1. PICK ll \in Nat, lq \in Nat, s \in Nat :
              /\ ll = Len(log[o]) /\ lq = Len(queue[o].packets) /\ s = sent[o]
              /\ ll + lq = Said(m, o, handled[o])
      BY <1>2, <1>4, Zenon
    <2>2. n <= s /\ s <= ll /\ n \in Nat \ {0}
      BY <1>2, <1>3, <2>1, Zenon
    <2>3. n <= ll + lq /\ n \in 1 .. ll
      BY ONLY <2>2, ll \in Nat, lq \in Nat, s \in Nat
    <2> QED BY <2>1, <2>3, Zenon
  <1> QED BY <1>2, <1>4, <1>5 DEF Handles, Packet

-----------------------------------------------------------------------------
(* A side that handles a packet as foreseen stays in the conversation.     *)

LEMMA SaidNumbers ==
    ASSUME NEW m \in Mechs, NEW k \in Nat
    PROVE  ClientSaid(m, k) \in Int /\ ServerSaid(m, k) \in Int
  <1>1. ChallengeNo(m) \in 0 .. 1
    BY Shape
  <1>2. ServerSaid(m, k) \in 0 .. ChallengeNo(m) + 3 /\ ClientSaid(m, k) \in Nat
    BY SaidTypes
  <1> QED BY <1>1, <1>2

LEMMA SaidGrows ==
    ASSUME NEW m \in Mechs, NEW k \in Nat
    PROVE  /\ ClientSaid(m, k) <= ClientSaid(m, k + 1)
           /\ ServerSaid(m, k) <= ServerSaid(m, k + 1)
  <1>1. /\ ChallengeNo(m) \in 0 .. 1 /\ ProofNo(m) \in 1 .. 3
        /\ ProofNo(m) > ChallengeNo(m) /\ k + 1 \in Nat
    BY Shape
  <1>2. PICK p \in 0 .. 1, q \in 1 .. 3 : p = ChallengeNo(m) /\ q = ProofNo(m) /\ q > p
    BY <1>1
  <1>3. ClientSaid(m, k) <= ClientSaid(m, k + 1)
    <2>1. ClientSaid(m, k) = q - p + k /\ ClientSaid(m, k + 1) = q - p + (k + 1)
      BY <1>2 DEF ClientSaid
    <2> QED BY <2>1
  <1>4. ServerSaid(m, k) <= ServerSaid(m, k + 1)
    <2>1. CASE k >= q
      <3>1. ServerSaid(m, k + 1) = p + 3 /\ ServerSaid(m, k) \in 0 .. p + 3
        BY <1>2, <2>1, SaidTypes, k + 1 \in Nat
      <3> QED BY <3>1
    <2>2. CASE k + 1 = q
      <3>1. ServerSaid(m, k + 1) = p + 2 /\ ServerSaid(m, k) = p
        BY <1>2, <2>2, SaidTypes, k = q - 1
      <3> QED BY <3>1
    <2>3. CASE k + 1 < q
      <3>1. ServerSaid(m, k) = 0 /\ ServerSaid(m, k + 1) \in 0 .. p + 3
        BY <1>2, <2>3, SaidTypes, k < q - 1, k + 1 \in Nat
      <3> QED BY <3>1
    <2> QED BY <2>1, <2>2, <2>3
  <1> QED BY <1>3, <1>4

\* Only the server is told to encrypt, and only with the full key.
MayActivate(m, side, k, act) ==
    act => \/ queue[side].activate
           \/ side = "server" /\ k >= FullKeyAt(m, "server")

\* The k-th packet handled, with what is then in the side's command queue.
GoesOn(m, side, k, q, act) ==
    /\ k <= Said(m, Other(side), handled[Other(side)])
    /\ handled' = [handled EXCEPT ![side] = k]
    /\ queue' = [queue EXCEPT ![side] = Commands(q, act)]
    /\ Stream(m, side, log[side], q, Said(m, side, k))
    /\ peer' = [peer EXCEPT ![side] = PeerAt(m, side, k, @.active)]
    /\ client' = ClientAt(m, handled'["server"])
    /\ user' = UserAt(m, handled'["client"])
    /\ UNCHANGED <<log, sent, pending, arrived, net>>

LEMMA StepGoesOn ==
    ASSUME NEW m \in Mechs, Login(m), NEW side \in Sides,
           NEW k \in Nat, k = handled[side] + 1,
           NEW q \in Seq(Words(m)), NEW act \in BOOLEAN, GoesOn(m, side, k, q, act),
           MayActivate(m, side, k, act)
    PROVE  Login(m)'
  <1>1. /\ side \in {"client", "server"} /\ Sides = {"client", "server"}
        /\ Other("client") = "server" /\ Other("server") = "client"
    BY DEF Sides, Other
  <1>2. /\ handled'[side] = k /\ \A z \in Sides : z # side => handled'[z] = handled[z]
        /\ handled' \in [Sides -> Nat]
    BY DEF GoesOn, Login, Types
  <1>3. /\ queue'[side] = Commands(q, act)
        /\ \A z \in Sides : z # side => queue'[z] = queue[z]
        /\ queue' \in [Sides -> [packets : Seq(Words(m)), activate : BOOLEAN]]
    BY DEF GoesOn, Login, Types, Commands
  <1>4. peer' = [z \in Sides |-> PeerAt(m, z, handled'[z], peer[z].active)]
    BY <1>2 DEF GoesOn, Login, Known
  <1>5. \A z \in Sides : peer'[z].active = peer[z].active
    BY <1>4 DEF PeerAt
  <1>6. UNCHANGED <<log, sent, pending, arrived, net>>
    BY DEF GoesOn
  <1>7. Types(m)'
    BY <1>2, <1>3, <1>5, <1>6 DEF Login, Types
  <1>8. Spoken(m)'
    <2> SUFFICES ASSUME NEW z \in Sides
                 PROVE  Stream(m, z, log[z], queue'[z].packets, Said(m, z, handled'[z]))
      BY <1>6 DEF Spoken
    <2>1. CASE z = side
      BY <1>2, <1>3, <2>1 DEF GoesOn, Commands
    <2>2. CASE z # side
      BY <1>2, <1>3, <2>2 DEF Login, Spoken
    <2> QED BY <2>1, <2>2
  <1>9. Heard(m)'
    <2>1. \A z \in Sides : handled'[z] <= Said(m, Other(z), handled'[Other(z)])
      <3> SUFFICES ASSUME NEW z \in Sides
                   PROVE  handled'[z] <= Said(m, Other(z), handled'[Other(z)])
        OBVIOUS
      <3>1. CASE z = side
        BY <1>1, <1>2, <3>1 DEF GoesOn
      <3>2. CASE z # side
        <4>1. Other(z) = side /\ handled'[z] = handled[z]
          BY <1>1, <1>2, <3>2
        <4>2. handled[z] <= Said(m, side, handled[side]) /\ handled[z] \in Nat /\ handled[side] \in Nat
          BY <4>1 DEF Login, Heard, Types
        <4>3. Said(m, side, handled[side]) <= Said(m, side, k)
          BY <4>2, SaidGrows DEF Said
        <4>4. Said(m, side, handled[side]) \in Int /\ Said(m, side, k) \in Int
          BY <4>2, SaidNumbers DEF Said
        <4> QED BY <1>2, <4>1, <4>2, <4>3, <4>4
      <3> QED BY <3>1, <3>2
    <2> QED BY <1>6, <2>1 DEF Login, Heard
  <1>10. Known(m)'
    BY <1>4, <1>5 DEF GoesOn, Known
  <1>11. Switch(m)'
    <2>1. handled'["server"] >= handled["server"] /\ handled["server"] \in Nat
          /\ handled'["server"] \in Nat
      BY <1>1, <1>2 DEF Login, Types
    <2>2. FullKeyAt(m, "server") \in Nat
      BY Shape DEF FullKeyAt
    <2>3. ~pending'["client"] /\ ~queue'["client"].activate
      BY <1>1, <1>3, <1>6 DEF Login, Switch, Commands, MayActivate
    <2>4. queue'["server"].activate => handled'["server"] >= FullKeyAt(m, "server")
      BY <1>1, <1>2, <1>3, <2>1, <2>2 DEF Login, Switch, Commands, MayActivate
    <2>5. pending'["server"] \/ peer'["server"].active =>
              handled'["server"] >= FullKeyAt(m, "server")
      BY <1>1, <1>5, <1>6, <2>1, <2>2 DEF Login, Switch
    <2> QED BY <1>1, <1>5, <1>6, <2>3, <2>4, <2>5 DEF Login, Switch
  <1> QED BY <1>7, <1>8, <1>9, <1>10, <1>11 DEF Login

\* One that says nothing leaves its command queue and its keys alone.
LEMMA StepInSilence ==
    ASSUME NEW m \in Mechs, Login(m), NEW side \in Sides, NEW k \in Nat, k = handled[side] + 1,
           k <= Said(m, Other(side), handled[Other(side)]),
           handled' = [handled EXCEPT ![side] = k],
           Said(m, side, k) = Said(m, side, handled[side]),
           PeerAt(m, side, k, peer[side].active) = PeerAt(m, side, handled[side], peer[side].active),
           client' = ClientAt(m, handled'["server"]), user' = UserAt(m, handled'["client"]),
           UNCHANGED <<queue, peer, log, sent, pending, arrived, net>>
    PROVE  Login(m)'
  <1>1. PICK q, act : q = queue[side].packets /\ act = queue[side].activate
    OBVIOUS
  <1>2. q \in Seq(Words(m)) /\ act \in BOOLEAN
    BY <1>1 DEF Login, Types
  <1>3. queue' = [queue EXCEPT ![side] = Commands(q, act)]
    BY <1>1 DEF Login, Types, Commands
  <1>4. peer' = [peer EXCEPT ![side] = PeerAt(m, side, k, @.active)]
    <2>1. peer = [z \in Sides |-> PeerAt(m, z, handled[z], peer[z].active)]
      BY DEF Login, Known
    <2>2. peer[side] = PeerAt(m, side, k, peer[side].active)
      BY <2>1
    <2>3. peer = [peer EXCEPT ![side] = peer[side]]
      BY <2>1
    <2> QED BY <2>2, <2>3
  <1>5. Stream(m, side, log[side], q, Said(m, side, k))
    BY <1>1 DEF Login, Spoken
  <1>6. GoesOn(m, side, k, q, act)
    BY <1>3, <1>4, <1>5 DEF GoesOn
  <1>7. MayActivate(m, side, k, act)
    BY <1>1 DEF MayActivate
  <1> QED BY <1>1, <1>2, <1>6, <1>7, StepGoesOn

-----------------------------------------------------------------------------
(* The server's handlers                                                   *)

\* What the server knows when it handles packet k, and what it may conclude.
ServerFacts(m, k) ==
    /\ k \in 1 .. ProofNo(m) + 3
    /\ handled["server"] = k - 1 /\ k - 1 \in Nat
    /\ k <= Said(m, "client", handled["client"])
    /\ client = ClientAt(m, k - 1)
    /\ peer["server"] = PeerAt(m, "server", k - 1, peer["server"].active)
    /\ handled' = [handled EXCEPT !["server"] = k]
    /\ Packet("server") = ClientSays(m, k)

LEMMA ServerHears ==
    ASSUME NEW m \in Mechs, Login(m), NEW cmd, Handles("server", cmd)
    PROVE  \E k : ServerFacts(m, k) /\ ClientSays(m, k).cmd = cmd
  <1>1. /\ "server" \in Sides /\ "client" \in Sides /\ Other("server") = "client"
        /\ Other("client") = "server"
    BY DEF Sides, Other
  <1>2. PICK k \in Nat \ {0} : k = handled["server"] + 1
    BY <1>1 DEF Login, Types
  <1>3. /\ k <= Said(m, "client", handled["client"])
        /\ Packet("server") = Says(m, "client", k) /\ Packet("server").cmd = cmd
        /\ handled' = [handled EXCEPT !["server"] = k]
    BY <1>1, <1>2, Hears
  <1>4. handled["server"] = k - 1 /\ k - 1 \in Nat
    <2>1. PICK h \in Nat : h = handled["server"]
      BY <1>1 DEF Login, Types
    <2>2. h = k - 1
      BY <1>2, <2>1
    <2> QED BY <2>1, <2>2, Zenon
  <1>5. k <= ProofNo(m) + 3
    <2>1. PICK c \in Nat : c = handled["client"]
      BY <1>1 DEF Login, Types
    <2>2. c <= ServerSaid(m, handled["server"]) /\ handled["server"] \in Nat
      BY <1>1, <1>4, <2>1 DEF Login, Heard, Said
    <2>3. ServerSaid(m, handled["server"]) \in 0 .. ChallengeNo(m) + 3
      BY <2>2, SaidTypes
    <2>4. k <= ProofNo(m) - ChallengeNo(m) + c
      BY <1>3, <2>1 DEF Said, ClientSaid
    <2>5. ProofNo(m) \in 1 .. 3 /\ ChallengeNo(m) \in 0 .. 1
      BY Shape
    <2> QED BY <1>2, <2>1, <2>2, <2>3, <2>4, <2>5
  <1>6. ProofNo(m) \in 1 .. 3
    BY Shape
  <1>7. client = ClientAt(m, k - 1) /\ peer["server"] = PeerAt(m, "server", k - 1, peer["server"].active)
    BY <1>1, <1>4 DEF Login, Known
  <1>8. k \in 1 .. ProofNo(m) + 3
    BY <1>2, <1>5, <1>6
  <1>9. Packet("server") = ClientSays(m, k)
    BY <1>3 DEF Says
  <1>10. ServerFacts(m, k)
    BY <1>3, <1>4, <1>7, <1>8, <1>9 DEF ServerFacts
  <1> QED BY <1>3, <1>9, <1>10

\* A handler of the server's that says nothing.
LEMMA ServerInSilence ==
    ASSUME NEW m \in Mechs, Login(m), NEW k, ServerFacts(m, k),
           k # ProofNo(m), k # ProofNo(m) + 1, k # ProofNo(m) + 2,
           ~(ChallengeNo(m) = 1 /\ k = ProofNo(m) - 1),
           client' = ClientAt(m, k),
           UNCHANGED <<user, queue, peer, log, sent, pending, arrived, net>>
    PROVE  Login(m)'
  <1>1. /\ "server" \in Sides /\ Other("server") = "client" /\ Sides = {"client", "server"}
        /\ ChallengeNo(m) \in 0 .. 1 /\ ProofNo(m) \in 1 .. 3 /\ ProofNo(m) > ChallengeNo(m)
    BY Shape DEF Sides, Other
  <1>2. PICK p \in 0 .. 1, q \in 1 .. 3 : p = ChallengeNo(m) /\ q = ProofNo(m)
    BY <1>1
  <1>3. /\ k \in 1 .. q + 3 /\ handled["server"] = k - 1 /\ k - 1 \in Nat
        /\ handled' = [handled EXCEPT !["server"] = k]
    BY <1>2 DEF ServerFacts
  <1>4. ServerSaid(m, k) = ServerSaid(m, k - 1)
    <2>1. CASE k = q + 3
      <3>1. ServerSaid(m, k) = p + 3 /\ ServerSaid(m, k - 1) = p + 3
        <4>1. k \in Nat /\ k > q /\ k - 1 > q
          BY <1>2, <1>3, <2>1
        <4> QED BY <1>2, <1>3, <4>1, SaidTypes
      <3> QED BY <3>1
    <2>2. CASE k = q - 1 /\ p = 0
      BY <1>1, <1>2, <1>3, <2>2 DEF ServerSaid
    <2>3. CASE k < q - 1
      <3>1. ServerSaid(m, k) = 0 /\ ServerSaid(m, k - 1) = 0
        BY <1>2, <1>3, <2>3, SaidTypes
      <3> QED BY <3>1
    <2> QED BY <1>2, <1>3, <2>1, <2>2, <2>3
  <1>5. \A a : PeerAt(m, "server", k, a) = PeerAt(m, "server", k - 1, a)
    <2>1. /\ (k >= q <=> k - 1 >= q) /\ (k >= q + 2 <=> k - 1 >= q + 2)
          /\ (k < q + 2 <=> k - 1 < q + 2)
      BY <1>2, <1>3
    <2>2. FirstKeyAt(m, "server") = q /\ FullKeyAt(m, "server") = q + 2
      BY <1>2 DEF FirstKeyAt, FullKeyAt
    <2> QED BY <2>1, <2>2, Zenon DEF PeerAt
  <1>6. handled'["server"] = k /\ handled'["client"] = handled["client"]
    BY <1>1, <1>3 DEF Login, Types
  <1>7. user' = UserAt(m, handled'["client"])
    BY <1>6 DEF Login, Known
  <1>8. k <= Said(m, "client", handled["client"])
    BY DEF ServerFacts
  <1>9. k \in Nat /\ k = handled["server"] + 1
    BY <1>2, <1>3
  <1>10. /\ Said(m, "server", k) = Said(m, "server", handled["server"])
         /\ PeerAt(m, "server", k, peer["server"].active)
              = PeerAt(m, "server", handled["server"], peer["server"].active)
    BY <1>3, <1>4, <1>5 DEF Said
  <1> QED BY <1>1, <1>3, <1>6, <1>7, <1>8, <1>9, <1>10, StepInSilence

\* A handler of the server's that says w.
LEMMA ServerAnswers ==
    ASSUME NEW m \in Mechs, Login(m), NEW k, ServerFacts(m, k),
           NEW w, NEW act \in BOOLEAN, NEW pk,
           pk = queue["server"].packets,
           pk \o w \in Seq(Words(m)),
           Stream(m, "server", log["server"], pk \o w, ServerSaid(m, k)),
           queue' = [queue EXCEPT !["server"] = Commands(pk \o w, act)],
           act => queue["server"].activate \/ k >= ProofNo(m) + 2,
           peer' = [peer EXCEPT !["server"] = PeerAt(m, "server", k, @.active)],
           client' = ClientAt(m, k),
           UNCHANGED <<user, log, sent, pending, arrived, net>>
    PROVE  Login(m)'
  <1>1. "server" \in Sides /\ Other("server") = "client" /\ Sides = {"client", "server"}
    BY DEF Sides, Other
  <1>2. ProofNo(m) \in 1 .. 3 /\ FullKeyAt(m, "server") = ProofNo(m) + 2
    BY Shape DEF FullKeyAt
  <1>3. /\ k \in Nat /\ k = handled["server"] + 1
        /\ handled' = [handled EXCEPT !["server"] = k]
    BY <1>2 DEF ServerFacts
  <1>4. handled'["server"] = k /\ handled'["client"] = handled["client"]
    BY <1>1, <1>3 DEF Login, Types
  <1>5. user' = UserAt(m, handled'["client"])
    BY <1>4 DEF Login, Known
  <1>6. PICK q : q = pk \o w
    OBVIOUS
  <1>7. GoesOn(m, "server", k, q, act)
    BY <1>1, <1>3, <1>4, <1>5, <1>6 DEF GoesOn, ServerFacts, Said
  <1>8. MayActivate(m, "server", k, act)
    BY <1>2 DEF MayActivate
  <1> QED BY <1>1, <1>3, <1>6, <1>7, <1>8, StepGoesOn

\* A record of a client with all its fields.
ClientRecord(state, mech, auth, nonce, private, keypairs) ==
    [state |-> state, mech |-> mech, auth_data |-> auth,
     keypair_challenge_nonce |-> nonce, ecdh_private_key |-> private, keypairs |-> keypairs]

LEMMA ClientAtIs ==
    ASSUME NEW m \in Mechs, NEW k \in Nat
    PROVE  /\ k < ProofNo(m) /\ ~(m \in SrpMechs /\ k = ProofNo(m) - 1)
                  /\ ~(m = "KEYPAIR_LOGIN" /\ k = 1) =>
                 ClientAt(m, k) = ClientRecord("HelloSent", "NONE", None, None, None, 0)
           /\ m \in SrpMechs /\ k = ProofNo(m) - 1 =>
                 ClientAt(m, k) = ClientRecord("HelloSent", "SRP", SrpSecret, None, None, 0)
           /\ m = "KEYPAIR_LOGIN" /\ k = 1 =>
                 ClientAt(m, k) = ClientRecord("HelloSent", "NONE", None, Nonce, None, 0)
           /\ k = ProofNo(m) =>
                 ClientAt(m, k) = ClientRecord("AwaitingInit2", "NONE", None, None, Exchanged, 1)
           /\ k \in {ProofNo(m) + 1, ProofNo(m) + 2} =>
                 ClientAt(m, k) = ClientRecord("DefinitionsSent", "NONE", None, None, Exchanged, 1)
           /\ k = ProofNo(m) + 3 =>
                 ClientAt(m, k) = ClientRecord("Active", "NONE", None, None, Exchanged, 1)
  <1>1. PICK q \in 1 .. 3 : /\ q = ProofNo(m)
                            /\ m = "KEYPAIR_LOGIN" => q = 2 /\ m \notin SrpMechs
    BY Shape DEF SrpMechs
  <1>2. CASE k < q /\ ~(m \in SrpMechs /\ k = q - 1) /\ ~(m = "KEYPAIR_LOGIN" /\ k = 1)
    <2>1. /\ k < q /\ ~(k >= q) /\ k # q /\ ~(k = q + 3)
          /\ k \notin {q + 1, q + 2}
      BY <1>1, <1>2
    <2> QED BY <1>1, <1>2, <2>1 DEF ClientAt, ClientRecord
  <1>3. CASE m \in SrpMechs /\ k = q - 1
    <2>1. /\ k < q /\ ~(k >= q) /\ k # q /\ ~(k = q + 3)
          /\ k \notin {q + 1, q + 2} /\ m # "KEYPAIR_LOGIN"
      BY <1>1, <1>3
    <2> QED BY <1>1, <1>3, <2>1 DEF ClientAt, ClientRecord
  <1>4. CASE m = "KEYPAIR_LOGIN" /\ k = 1
    <2>1. /\ k < q /\ ~(k >= q) /\ k # q /\ ~(k = q + 3)
          /\ k \notin {q + 1, q + 2} /\ m \notin SrpMechs
      BY <1>1, <1>4
    <2> QED BY <1>1, <1>4, <2>1 DEF ClientAt, ClientRecord
  <1>5. CASE k >= q
    <2>1. /\ ~(k < q) /\ k # q - 1 /\ ~(m = "KEYPAIR_LOGIN" /\ k = 1)
      BY <1>1, <1>5
    <2>2. CASE k = q
      <3>1. k # q + 3 /\ k \notin {q + 1, q + 2}
        BY <1>1, <2>2
      <3> QED BY <1>1, <1>5, <2>1, <2>2, <3>1 DEF ClientAt, ClientRecord
    <2>3. CASE k \in {q + 1, q + 2}
      <3>1. k # q + 3 /\ k # q
        BY <1>1, <2>3
      <3> QED BY <1>1, <1>5, <2>1, <2>3, <3>1 DEF ClientAt, ClientRecord
    <2>4. CASE k = q + 3
      <3>1. k \notin {q + 1, q + 2} /\ k # q
        BY <1>1, <2>4
      <3> QED BY <1>1, <1>5, <2>1, <2>4, <3>1 DEF ClientAt, ClientRecord
    <2> QED BY <1>1, <1>5, <2>1, <2>2, <2>3, <2>4
  <1> QED BY <1>1, <1>2, <1>3, <1>4, <1>5

\* The state of the connection's encryption on the server.
LEMMA ServerPeerIs ==
    ASSUME NEW m \in Mechs, NEW k \in Nat, NEW a
    PROVE  /\ k < ProofNo(m) =>
                 PeerAt(m, "server", k, a) = [active |-> a, srp |-> None, key |-> NoKey]
           /\ k \in {ProofNo(m), ProofNo(m) + 1} =>
                 PeerAt(m, "server", k, a)
                   = [active |-> a, srp |-> AuthSecret(m), key |-> Key(AuthSecret(m), None)]
           /\ k >= ProofNo(m) + 2 =>
                 PeerAt(m, "server", k, a)
                   = [active |-> a, srp |-> AuthSecret(m),
                      key |-> Key(AuthSecret(m), <<Exchanged, Exchanged>>)]
  <1>1. PICK q \in 1 .. 3 : /\ q = ProofNo(m) /\ FirstKeyAt(m, "server") = q
                            /\ FullKeyAt(m, "server") = q + 2
    BY Shape DEF FirstKeyAt, FullKeyAt
  <1>2. CASE k < q
    <2>1. ~(k >= q) /\ ~(k >= q + 2) /\ k \notin {q, q + 1}
      BY <1>1, <1>2
    <2> QED BY <1>1, <1>2, <2>1 DEF PeerAt
  <1>3. CASE k \in {q, q + 1}
    <2>1. k >= q /\ k < q + 2 /\ ~(k >= q + 2) /\ ~(k < q)
      BY <1>1, <1>3
    <2> QED BY <1>1, <1>3, <2>1 DEF PeerAt, AuthKey
  <1>4. CASE k >= q + 2
    <2>1. k >= q /\ ~(k < q) /\ k \notin {q, q + 1}
      BY <1>1, <1>4
    <2> QED BY <1>1, <1>4, <2>1 DEF PeerAt, FullKey
  <1> QED BY <1>1, <1>2, <1>3, <1>4

\* What a side says joins what waits in its command queue.
LEMMA SendIs ==
    ASSUME NEW m, queue \in [Sides -> [packets : Seq(Words(m)), activate : BOOLEAN]],
           NEW side \in Sides, NEW w, Send(side, w)
    PROVE  queue' = [queue EXCEPT ![side] = Commands(queue[side].packets \o w, queue[side].activate)]
  <1>1. PICK r : r = queue[side]
    OBVIOUS
  <1>2. r \in [packets : Seq(Words(m)), activate : BOOLEAN]
    BY <1>1
  <1>3. PICK v : v = r.packets \o w
    OBVIOUS
  <1>4. [r EXCEPT !.packets = v] = Commands(v, r.activate)
    BY <1>2 DEF Commands
  <1>5. [queue EXCEPT ![side].packets = @ \o w] = [queue EXCEPT ![side] = [r EXCEPT !.packets = v]]
    BY <1>1, <1>3
  <1> QED BY <1>1, <1>3, <1>4, <1>5 DEF Send

\* What the server has in its command queue and in its channel.
LEMMA ServerQueue ==
    ASSUME NEW m \in Mechs, Login(m), NEW k, ServerFacts(m, k)
    PROVE  /\ queue["server"].packets \in Seq(Words(m)) /\ queue["server"].activate \in BOOLEAN
           /\ log["server"] \in Seq(Words(m))
           /\ Stream(m, "server", log["server"], queue["server"].packets, ServerSaid(m, k - 1))
           /\ queue \in [Sides -> [packets : Seq(Words(m)), activate : BOOLEAN]]
           /\ DOMAIN peer = Sides /\ peer = [side \in Sides |-> peer[side]]
           /\ peer["server"].active \in BOOLEAN
           /\ k < ProofNo(m) + 2 => ~peer["server"].active
           /\ k \in Nat /\ k - 1 \in Nat /\ ServerSaid(m, k - 1) \in Nat
           /\ "server" \in Sides
  <1>1. "server" \in Sides
    BY DEF Sides
  <1>2. k - 1 \in Nat /\ handled["server"] = k - 1 /\ ProofNo(m) \in 1 .. 3 /\ k \in 1 .. ProofNo(m) + 3
    BY Shape DEF ServerFacts
  <1>3. k \in Nat
    BY <1>2
  <1>4. ServerSaid(m, k - 1) \in Nat
    <2>1. ChallengeNo(m) \in 0 .. 1 /\ ServerSaid(m, k - 1) \in 0 .. ChallengeNo(m) + 3
      BY <1>2, Shape, SaidTypes
    <2> QED BY <2>1
  <1>5. k < ProofNo(m) + 2 => ~peer["server"].active
    <2>1. peer["server"].active => k - 1 >= ProofNo(m) + 2
      BY <1>2 DEF Login, Switch, FullKeyAt
    <2> QED BY <1>2, <1>3, <2>1
  <1>6. peer = [side \in Sides |-> PeerAt(m, side, handled[side], peer[side].active)]
    BY DEF Login, Known
  <1>7. DOMAIN peer = Sides /\ peer = [side \in Sides |-> peer[side]]
    BY <1>6
  <1>8. /\ log["server"] \in Seq(Words(m))
        /\ queue \in [Sides -> [packets : Seq(Words(m)), activate : BOOLEAN]]
        /\ peer["server"].active \in BOOLEAN
    BY <1>1 DEF Login, Types
  <1>9. queue["server"].packets \in Seq(Words(m)) /\ queue["server"].activate \in BOOLEAN
    BY <1>1, <1>8
  <1>10. Stream(m, "server", log["server"], queue["server"].packets, ServerSaid(m, k - 1))
    BY <1>1, <1>2 DEF Login, Spoken, Said
  <1> QED BY <1>1, <1>2, <1>3, <1>4, <1>5, <1>7, <1>8, <1>9, <1>10

\* The keys that a handler does not touch are those of the next packet, too.
LEMMA ServerKeysKept ==
    ASSUME NEW m \in Mechs, Login(m), NEW k, ServerFacts(m, k), peer' = peer,
           k # ProofNo(m), k # ProofNo(m) + 2
    PROVE  peer' = [peer EXCEPT !["server"] = PeerAt(m, "server", k, @.active)]
  <1>1. /\ DOMAIN peer = Sides /\ peer = [side \in Sides |-> peer[side]]
        /\ k \in Nat /\ k - 1 \in Nat /\ "server" \in Sides
    BY ServerQueue
  <1>2. PICK q \in 1 .. 3 : q = ProofNo(m)
    BY Shape
  <1>3. PICK a : a = peer["server"].active
    OBVIOUS
  <1>4. PeerAt(m, "server", k, a) = PeerAt(m, "server", k - 1, a)
    <2>1. CASE k < q
      <3>1. k - 1 < q
        BY <1>1, <1>2, <2>1
      <3> QED BY <1>1, <1>2, <2>1, <3>1, ServerPeerIs
    <2>2. CASE k = q + 1
      <3>1. k - 1 = q
        BY <1>1, <1>2, <2>2
      <3> QED BY <1>1, <1>2, <2>2, <3>1, ServerPeerIs
    <2>3. CASE k > q + 2
      <3>1. k - 1 >= q + 2 /\ k >= q + 2
        BY <1>1, <1>2, <2>3
      <3> QED BY <1>1, <1>2, <2>3, <3>1, ServerPeerIs
    <2> QED BY <1>1, <1>2, <2>1, <2>2, <2>3
  <1>5. peer["server"] = PeerAt(m, "server", k, a)
    BY <1>3, <1>4 DEF ServerFacts
  <1> QED BY <1>1, <1>3, <1>5

\* Whoever has proved who it is gets the first keys and the server's half of
\* the exchange.
LEMMA AcceptStep ==
    ASSUME NEW m \in Mechs, FALSE \notin KeygenResults, Login(m),
           NEW k, ServerFacts(m, k), k = ProofNo(m), AcceptAuth(AuthSecret(m)),
           UNCHANGED <<user, log, sent, pending, arrived, net>>
    PROVE  Login(m)'
  <1>1. PICK pk, act : pk = queue["server"].packets /\ act = queue["server"].activate
    OBVIOUS
  <1>2. /\ pk \in Seq(Words(m)) /\ act \in BOOLEAN /\ log["server"] \in Seq(Words(m))
        /\ Stream(m, "server", log["server"], pk, ServerSaid(m, k - 1))
        /\ queue \in [Sides -> [packets : Seq(Words(m)), activate : BOOLEAN]]
        /\ DOMAIN peer = Sides /\ ~peer["server"].active /\ peer["server"].active \in BOOLEAN
        /\ k \in Nat /\ k - 1 \in Nat /\ "server" \in Sides
    <2>1. k < ProofNo(m) + 2
      BY Shape
    <2> QED BY <1>1, <2>1, ServerQueue
  <1>3. PICK p \in 0 .. 1 : p = ChallengeNo(m)
    BY Shape
  <1>4. ServerSaid(m, k - 1) = p /\ ServerSaid(m, k) = p + 2
    <2>1. k - 1 = ProofNo(m) - 1
      OBVIOUS
    <2> QED BY <1>2, <1>3, <2>1, SaidTypes
  <1>5. PICK a, b : a = Message("AUTH_ACCEPT", None) /\ b = Message("ECDH_PUBKEY", Exchanged)
    OBVIOUS
  <1>6. a = Says(m, "server", p + 1) /\ b = Says(m, "server", p + 2)
    BY <1>3, <1>5 DEF Says, ServerSays
  <1>7. pk \o <<a, b>> \in Seq(Words(m)) /\ Stream(m, "server", log["server"], pk \o <<a, b>>, p + 2)
    BY <1>2, <1>3, <1>4, <1>6, StreamGoesOnByTwo
  <1>8. client.keypairs = 0 /\ \E auth, nonce, mech :
            client = ClientRecord("HelloSent", mech, auth, nonce, None, 0)
    <2>1. client = ClientAt(m, k - 1) /\ k - 1 < ProofNo(m)
      BY <1>2, Shape DEF ServerFacts
    <2>2. \E auth, nonce, mech :
              ClientAt(m, k - 1) = ClientRecord("HelloSent", mech, auth, nonce, None, 0)
      BY <1>2, <2>1, ClientAtIs
    <2>3. PICK auth, nonce, mech :
              ClientAt(m, k - 1) = ClientRecord("HelloSent", mech, auth, nonce, None, 0)
      BY <2>2
    <2>4. client = ClientRecord("HelloSent", mech, auth, nonce, None, 0)
      BY <2>1, <2>3
    <2>5. client.keypairs = 0
      BY <2>4 DEF ClientRecord
    <2> QED BY <2>4, <2>5
  <1>9. Secret("x25519", client.keypairs + 1) = Exchanged
    BY <1>8 DEF Exchanged
  <1>10. /\ client' = ClientRecord("AwaitingInit2", "NONE", None, None, Exchanged, 1)
         /\ Send("server", <<a, b>>)
         /\ peer' = [peer EXCEPT !["server"] = [active |-> FALSE, srp |-> AuthSecret(m),
                                               key |-> Key(AuthSecret(m), None)]]
    <2>1. Authenticated(AuthSecret(m), a, "AwaitingInit2")
      BY <1>5 DEF AcceptAuth
    <2>2. \A success \in KeygenResults : success = TRUE
      BY SessionAssumption
    <2>3. PICK auth, nonce, mech :
              client = ClientRecord("HelloSent", mech, auth, nonce, None, 0)
      BY <1>8
    <2>4. [[Reset(client) EXCEPT !.state = "AwaitingInit2", !.keypair_challenge_nonce = None]
             EXCEPT !.ecdh_private_key = Exchanged, !.keypairs = @ + 1]
            = ClientRecord("AwaitingInit2", "NONE", None, None, Exchanged, 1)
      <3>1. Reset(client) = ClientRecord("HelloSent", "NONE", None, nonce, None, 0)
        <4>1. Reset(client) = [[[client EXCEPT !.mech = "NONE"] EXCEPT !.auth_data = None]
                                 EXCEPT !.ecdh_private_key = None]
          BY <2>3 DEF Reset, ClientRecord
        <4>2. [client EXCEPT !.mech = "NONE"]
                = ClientRecord("HelloSent", "NONE", auth, nonce, None, 0)
          BY <2>3 DEF ClientRecord
        <4>3. [ClientRecord("HelloSent", "NONE", auth, nonce, None, 0) EXCEPT !.auth_data = None]
                = ClientRecord("HelloSent", "NONE", None, nonce, None, 0)
          BY DEF ClientRecord
        <4>4. [ClientRecord("HelloSent", "NONE", None, nonce, None, 0)
                 EXCEPT !.ecdh_private_key = None]
                = ClientRecord("HelloSent", "NONE", None, nonce, None, 0)
          BY DEF ClientRecord
        <4> QED BY <4>1, <4>2, <4>3, <4>4, Zenon
      <3>2. [Reset(client) EXCEPT !.state = "AwaitingInit2", !.keypair_challenge_nonce = None]
              = ClientRecord("AwaitingInit2", "NONE", None, None, None, 0)
        <4>1. PICK c : c = Reset(client)
          OBVIOUS
        <4>2. [c EXCEPT !.state = "AwaitingInit2", !.keypair_challenge_nonce = None]
                = [[c EXCEPT !.state = "AwaitingInit2"] EXCEPT !.keypair_challenge_nonce = None]
          BY <3>1, <4>1 DEF ClientRecord
        <4>3. [c EXCEPT !.state = "AwaitingInit2"]
                = ClientRecord("AwaitingInit2", "NONE", None, nonce, None, 0)
          BY <3>1, <4>1 DEF ClientRecord
        <4>4. [ClientRecord("AwaitingInit2", "NONE", None, nonce, None, 0)
                 EXCEPT !.keypair_challenge_nonce = None]
                = ClientRecord("AwaitingInit2", "NONE", None, None, None, 0)
          BY DEF ClientRecord
        <4> QED BY <4>1, <4>2, <4>3, <4>4, Zenon
      <3>3. [ClientRecord("AwaitingInit2", "NONE", None, None, None, 0)
               EXCEPT !.ecdh_private_key = Exchanged, !.keypairs = @ + 1]
              = ClientRecord("AwaitingInit2", "NONE", None, None, Exchanged, 1)
        <4>1. PICK c : c = ClientRecord("AwaitingInit2", "NONE", None, None, None, 0)
          OBVIOUS
        <4>2. [c EXCEPT !.ecdh_private_key = Exchanged, !.keypairs = @ + 1]
                = [[c EXCEPT !.ecdh_private_key = Exchanged] EXCEPT !.keypairs = 1]
          BY <4>1 DEF ClientRecord
        <4>3. [c EXCEPT !.ecdh_private_key = Exchanged]
                = ClientRecord("AwaitingInit2", "NONE", None, None, Exchanged, 0)
          BY <4>1 DEF ClientRecord
        <4>4. [ClientRecord("AwaitingInit2", "NONE", None, None, Exchanged, 0)
                 EXCEPT !.keypairs = 1]
                = ClientRecord("AwaitingInit2", "NONE", None, None, Exchanged, 1)
          BY DEF ClientRecord
        <4> QED BY <4>1, <4>2, <4>3, <4>4, Zenon
      <3> QED BY <3>2, <3>3
    <2>5. /\ client' = [[Reset(client) EXCEPT !.state = "AwaitingInit2",
                                              !.keypair_challenge_nonce = None]
                          EXCEPT !.ecdh_private_key = Exchanged, !.keypairs = @ + 1]
          /\ Send("server", <<a, b>>)
      BY <1>5, <1>9, <2>1, <2>2 DEF Authenticated
    <2> QED BY <2>1, <2>4, <2>5 DEF Authenticated, SetPeerEncryptionState
  <1>11. client' = ClientAt(m, k)
    BY <1>2, <1>10, ClientAtIs
  <1>12. queue' = [queue EXCEPT !["server"] = Commands(pk \o <<a, b>>, act)]
    <2>1. PICK w : w = <<a, b>>
      OBVIOUS
    <2>2. Send("server", w)
      BY <1>10, <2>1
    <2>3. queue' = [queue EXCEPT !["server"] = Commands(pk \o w, act)]
      BY <1>1, <1>2, <2>2, SendIs
    <2> QED BY <2>1, <2>3
  <1>13. peer' = [peer EXCEPT !["server"] = PeerAt(m, "server", k, @.active)]
    <2>1. PeerAt(m, "server", k, FALSE) = [active |-> FALSE, srp |-> AuthSecret(m),
                                           key |-> Key(AuthSecret(m), None)]
      BY <1>2, ServerPeerIs
    <2>2. peer["server"].active = FALSE
      BY <1>2
    <2> QED BY <1>10, <2>1, <2>2
  <1>14. PICK w : w = <<a, b>>
    OBVIOUS
  <1>15. ServerSaid(m, k) = p + 2
    BY <1>4
  <1> QED BY <1>1, <1>2, <1>7, <1>11, <1>12, <1>13, <1>14, <1>15, ServerAnswers

\* What the handlers of the server leave alone.
ServerLeaves == UNCHANGED <<user, log, sent, pending, arrived, net>>

\* One more packet, with keys and activation as they are.
LEMMA ServerSays1 ==
    ASSUME NEW m \in Mechs, Login(m), NEW k, ServerFacts(m, k), ServerLeaves,
           k # ProofNo(m), k # ProofNo(m) + 2, peer' = peer, client' = ClientAt(m, k),
           NEW n \in Nat, ServerSaid(m, k - 1) = n, ServerSaid(m, k) = n + 1,
           NEW w, w = ServerSays(m, n + 1), Send("server", <<w>>)
    PROVE  Login(m)'
  <1>1. PICK pk, act : pk = queue["server"].packets /\ act = queue["server"].activate
    OBVIOUS
  <1>2. /\ pk \in Seq(Words(m)) /\ act \in BOOLEAN /\ log["server"] \in Seq(Words(m))
        /\ Stream(m, "server", log["server"], pk, n) /\ "server" \in Sides
        /\ queue \in [Sides -> [packets : Seq(Words(m)), activate : BOOLEAN]]
    BY <1>1, ServerQueue
  <1>3. w = Says(m, "server", n + 1)
    BY DEF Says
  <1>4. pk \o <<w>> \in Seq(Words(m)) /\ Stream(m, "server", log["server"], pk \o <<w>>, n + 1)
    BY <1>2, <1>3, StreamGoesOnByOne
  <1>5. PICK v : v = <<w>>
    OBVIOUS
  <1>6. queue' = [queue EXCEPT !["server"] = Commands(pk \o v, act)]
    <2>1. Send("server", v)
      BY <1>5
    <2> QED BY <1>1, <1>2, <2>1, SendIs
  <1>7. peer' = [peer EXCEPT !["server"] = PeerAt(m, "server", k, @.active)]
    BY ServerKeysKept
  <1>8. UNCHANGED <<user, log, sent, pending, arrived, net>>
    BY DEF ServerLeaves
  <1>9. pk \o v \in Seq(Words(m)) /\ Stream(m, "server", log["server"], pk \o v, ServerSaid(m, k))
    BY <1>4, <1>5
  <1> QED BY <1>1, <1>2, <1>6, <1>7, <1>8, <1>9, ServerAnswers

LEMMA FirstSrpKeeps ==
    ASSUME NEW m \in Mechs, Login(m), FirstSrp
    PROVE  Login(m)'
  <1>1. PICK k : ServerFacts(m, k) /\ ClientSays(m, k).cmd = "FIRST_SRP"
    BY ServerHears DEF FirstSrp
  <1>2. m = "FIRST_SRP" /\ k = 1 /\ ProofNo(m) = 3 /\ ChallengeNo(m) = 1
    BY <1>1, ClientWords, Shape DEF ServerFacts
  <1>3. client = ClientAt(m, 0)
    BY <1>1, <1>2 DEF ServerFacts
  <1>4. client = ClientRecord("HelloSent", "NONE", None, None, None, 0)
        /\ ClientAt(m, k) = ClientRecord("HelloSent", "NONE", None, None, None, 0)
    BY <1>2, <1>3, ClientAtIs
  <1>5. client.state = "HelloSent"
    BY <1>4 DEF ClientRecord
  <1>6. client' = ClientAt(m, k) /\ UNCHANGED <<user, queue, peer, log, sent, pending, arrived, net>>
    BY <1>4, <1>5 DEF FirstSrp, sendVars
  <1> QED BY <1>1, <1>2, <1>6, ServerInSilence

LEMMA SrpBytesAKeeps ==
    ASSUME NEW m \in Mechs, Login(m), SrpBytesA
    PROVE  Login(m)'
  <1>1. PICK k : ServerFacts(m, k) /\ ClientSays(m, k).cmd = "SRP_BYTES_A"
    BY ServerHears DEF SrpBytesA
  <1>2. /\ m \in SrpMechs /\ k = ProofNo(m) - 1 /\ Packet("server").id = SrpSecret
        /\ ProofNo(m) \in {2, 3} /\ ChallengeNo(m) = 1
    BY <1>1, ClientWords, Shape DEF ServerFacts, SrpMechs
  <1>3. k \in Nat /\ k - 1 \in Nat /\ k < ProofNo(m) /\ k - 1 < ProofNo(m) - 1
    BY <1>2
  <1>4. /\ client = ClientRecord("HelloSent", "NONE", None, None, None, 0)
        /\ ClientAt(m, k) = ClientRecord("HelloSent", "SRP", SrpSecret, None, None, 0)
    <2>1. client = ClientAt(m, k - 1)
      BY <1>1 DEF ServerFacts
    <2>2. k - 1 < ProofNo(m) /\ k - 1 # ProofNo(m) - 1 /\ m # "KEYPAIR_LOGIN"
      BY <1>2, <1>3 DEF SrpMechs
    <2> QED BY <1>2, <1>3, <2>1, <2>2, ClientAtIs
  <1>5. client.state = "HelloSent" /\ client.mech = "NONE"
    BY <1>4 DEF ClientRecord
  <1>6. /\ client' = [client EXCEPT !.mech = "SRP", !.auth_data = SrpSecret]
        /\ Send("server", <<Message("SRP_BYTES_S_B", SrpSecret)>>)
        /\ peer' = peer /\ ServerLeaves
    BY <1>2, <1>5 DEF SrpBytesA, sendVars, ServerLeaves
  <1>7. client' = ClientAt(m, k)
    <2>1. PICK c : c = client
      OBVIOUS
    <2>2. [c EXCEPT !.mech = "SRP", !.auth_data = SrpSecret]
            = [[c EXCEPT !.mech = "SRP"] EXCEPT !.auth_data = SrpSecret]
      BY <1>4, <2>1 DEF ClientRecord
    <2>3. [c EXCEPT !.mech = "SRP"] = ClientRecord("HelloSent", "SRP", None, None, None, 0)
      BY <1>4, <2>1 DEF ClientRecord
    <2>4. [ClientRecord("HelloSent", "SRP", None, None, None, 0) EXCEPT !.auth_data = SrpSecret]
            = ClientRecord("HelloSent", "SRP", SrpSecret, None, None, 0)
      BY DEF ClientRecord
    <2> QED BY <1>4, <1>6, <2>1, <2>2, <2>3, <2>4, Zenon
  <1>8. ServerSaid(m, k - 1) = 0 /\ ServerSaid(m, k) = 0 + 1
    BY <1>2, <1>3, SaidTypes
  <1>9. PICK w : w = Message("SRP_BYTES_S_B", SrpSecret)
    OBVIOUS
  <1>10. w = ServerSays(m, 0 + 1)
    BY <1>2, <1>9 DEF ServerSays, Challenges
  <1> QED BY <1>1, <1>2, <1>6, <1>7, <1>8, <1>9, <1>10, ServerSays1

LEMMA SrpBytesMKeeps ==
    ASSUME NEW m \in Mechs, FALSE \notin KeygenResults, Login(m), SrpBytesM
    PROVE  Login(m)'
  <1>1. PICK k : ServerFacts(m, k) /\ ClientSays(m, k).cmd = "SRP_BYTES_M"
    BY ServerHears DEF SrpBytesM
  <1>2. /\ m \in SrpMechs /\ k = ProofNo(m) /\ Packet("server").id = SrpSecret
        /\ ProofNo(m) \in {2, 3} /\ AuthSecret(m) = SrpSecret
    BY <1>1, ClientWords, Shape DEF ServerFacts, SrpMechs, AuthSecret
  <1>3. client = ClientRecord("HelloSent", "SRP", SrpSecret, None, None, 0)
    <2>1. client = ClientAt(m, k - 1) /\ k - 1 = ProofNo(m) - 1 /\ k - 1 \in Nat
      BY <1>1, <1>2 DEF ServerFacts
    <2> QED BY <1>2, <2>1, ClientAtIs
  <1>4. client.state = "HelloSent" /\ client.mech = "SRP" /\ client.auth_data = SrpSecret
    BY <1>3 DEF ClientRecord
  <1>5. AcceptAuth(AuthSecret(m)) /\ UNCHANGED <<user, log, sent, pending, arrived, net>>
    BY <1>2, <1>4 DEF SrpBytesM, sendVars
  <1> QED BY <1>1, <1>2, <1>5, AcceptStep

LEMMA KeypairRegisterKeeps ==
    ASSUME NEW m \in Mechs, FALSE \notin KeygenResults, Login(m), KeypairRegister
    PROVE  Login(m)'
  <1>1. PICK k : ServerFacts(m, k) /\ ClientSays(m, k).cmd = "KEYPAIR_REGISTER"
    BY ServerHears DEF KeypairRegister
  <1>2. m = "KEYPAIR_REGISTER" /\ k = 1 /\ ProofNo(m) = 1 /\ AuthSecret(m) = PublicKey
    BY <1>1, ClientWords, Shape DEF ServerFacts, AuthSecret
  <1>3. client = ClientAt(m, 0)
    BY <1>1, <1>2 DEF ServerFacts
  <1>4. client = ClientRecord("HelloSent", "NONE", None, None, None, 0)
    BY <1>2, <1>3, ClientAtIs DEF SrpMechs
  <1>5. client.state = "HelloSent"
    BY <1>4 DEF ClientRecord
  <1>6. AcceptAuth(AuthSecret(m)) /\ UNCHANGED <<user, log, sent, pending, arrived, net>>
    BY <1>2, <1>5 DEF KeypairRegister, sendVars
  <1> QED BY <1>1, <1>2, <1>6, AcceptStep

LEMMA KeypairLoginKeeps ==
    ASSUME NEW m \in Mechs, Login(m), KeypairLogin
    PROVE  Login(m)'
  <1>1. PICK k : ServerFacts(m, k) /\ ClientSays(m, k).cmd = "KEYPAIR_LOGIN"
    BY ServerHears DEF KeypairLogin
  <1>2. m = "KEYPAIR_LOGIN" /\ k = 1 /\ ProofNo(m) = 2 /\ ChallengeNo(m) = 1
    BY <1>1, ClientWords, Shape DEF ServerFacts
  <1>3. client = ClientAt(m, 0)
    BY <1>1, <1>2 DEF ServerFacts
  <1>4. /\ client = ClientRecord("HelloSent", "NONE", None, None, None, 0)
        /\ ClientAt(m, k) = ClientRecord("HelloSent", "NONE", None, Nonce, None, 0)
    BY <1>2, <1>3, ClientAtIs DEF SrpMechs
  <1>5. client.state = "HelloSent"
    BY <1>4 DEF ClientRecord
  <1>6. PICK w : w = Message("KEYPAIR_CHALLENGE", Nonce)
    OBVIOUS
  <1>7. /\ client' = [client EXCEPT !.keypair_challenge_nonce = Nonce]
        /\ Send("server", <<w>>)
        /\ peer' = peer /\ ServerLeaves
    BY <1>5, <1>6 DEF KeypairLogin, sendVars, ServerLeaves, Nonce
  <1>8. client' = ClientAt(m, k)
    <2>1. [ClientRecord("HelloSent", "NONE", None, None, None, 0)
             EXCEPT !.keypair_challenge_nonce = Nonce]
            = ClientRecord("HelloSent", "NONE", None, Nonce, None, 0)
      BY DEF ClientRecord
    <2> QED BY <1>4, <1>7, <2>1, Zenon
  <1>9. ServerSaid(m, k - 1) = 0 /\ ServerSaid(m, k) = 0 + 1
    <2>1. k - 1 \in Nat /\ k \in Nat /\ k - 1 < ProofNo(m) - 1 /\ k = ProofNo(m) - 1
      BY <1>2
    <2> QED BY <1>2, <2>1, SaidTypes
  <1>10. w = ServerSays(m, 0 + 1)
    BY <1>2, <1>6 DEF ServerSays, Challenges, SrpMechs
  <1> QED BY <1>1, <1>2, <1>7, <1>8, <1>9, <1>10, ServerSays1

LEMMA KeypairResponseKeeps ==
    ASSUME NEW m \in Mechs, FALSE \notin KeygenResults, Login(m), KeypairResponse
    PROVE  Login(m)'
  <1>1. PICK k : ServerFacts(m, k) /\ ClientSays(m, k).cmd = "KEYPAIR_RESPONSE"
    BY ServerHears DEF KeypairResponse
  <1>2. /\ m = "KEYPAIR_LOGIN" /\ k = 2 /\ ProofNo(m) = 2 /\ AuthSecret(m) = Nonce
        /\ Packet("server").id = Nonce
    BY <1>1, ClientWords, Shape DEF ServerFacts, AuthSecret
  <1>3. client = ClientAt(m, 1)
    BY <1>1, <1>2 DEF ServerFacts
  <1>4. client = ClientRecord("HelloSent", "NONE", None, Nonce, None, 0)
    BY <1>2, <1>3, ClientAtIs
  <1>5. client.keypair_challenge_nonce = Nonce
    BY <1>4 DEF ClientRecord
  <1>6. AcceptAuth(AuthSecret(m)) /\ UNCHANGED <<user, log, sent, pending, arrived, net>>
    BY <1>2, <1>5 DEF KeypairResponse, sendVars
  <1> QED BY <1>1, <1>2, <1>6, AcceptStep

\* The client's half of the exchange is mixed into the keys, and only then is
\* the connection told to encrypt.
LEMMA EcdhPubkeyToServerKeeps ==
    ASSUME NEW m \in Mechs, Login(m), EcdhPubkeyToServer
    PROVE  Login(m)'
  <1>1. PICK k : ServerFacts(m, k) /\ ClientSays(m, k).cmd = "ECDH_PUBKEY"
    BY ServerHears DEF EcdhPubkeyToServer
  <1>2. /\ k = ProofNo(m) + 2 /\ Packet("server").id = Exchanged
        /\ ProofNo(m) \in 1 .. 3 /\ ChallengeNo(m) \in 0 .. 1
    BY <1>1, ClientWords, Shape DEF ServerFacts
  <1>3. /\ client = ClientAt(m, k - 1) /\ k - 1 = ProofNo(m) + 1
        /\ k \in Nat /\ k - 1 \in Nat
    BY <1>1, <1>2 DEF ServerFacts
  <1>4. /\ client = ClientRecord("DefinitionsSent", "NONE", None, None, Exchanged, 1)
        /\ ClientAt(m, k) = ClientRecord("DefinitionsSent", "NONE", None, None, Exchanged, 1)
    BY <1>2, <1>3, ClientAtIs
  <1>5. client.ecdh_private_key = Exchanged /\ Exchanged # None
    BY <1>4, KeysDiffer DEF ClientRecord
  <1>6. PICK a, pk : a = peer["server"].active /\ pk = queue["server"].packets
    OBVIOUS
  <1>7. /\ MixECDHSecretOnPeer(<<Exchanged, Exchanged>>)
        /\ SendAndActivate("server", << >>)
        /\ client' = ClientAt(m, k) /\ UNCHANGED <<user, log, sent, pending, arrived, net>>
    BY <1>2, <1>4, <1>5 DEF EcdhPubkeyToServer, sendVars
  <1>8. /\ pk \in Seq(Words(m)) /\ log["server"] \in Seq(Words(m)) /\ "server" \in Sides
        /\ Stream(m, "server", log["server"], pk, ServerSaid(m, k - 1))
        /\ DOMAIN peer = Sides /\ ServerSaid(m, k - 1) \in Nat
    BY <1>1, <1>6, ServerQueue
  <1>9. ServerSaid(m, k) = ServerSaid(m, k - 1)
    <2>1. k > ProofNo(m) /\ k - 1 > ProofNo(m)
      BY <1>2, <1>3
    <2> QED BY <1>3, <2>1, SaidTypes
  <1>10. PICK w : w = << >>
    OBVIOUS
  <1>11. pk \o w \in Seq(Words(m)) /\ Stream(m, "server", log["server"], pk \o w, ServerSaid(m, k))
    <2>1. w \in Seq(Words(m)) /\ Len(w) = 0
      BY <1>10
    <2>2. \A i \in 1 .. Len(w) : w[i] = Says(m, "server", ServerSaid(m, k - 1) + i)
      BY <2>1
    <2>3. ServerSaid(m, k - 1) + Len(w) = ServerSaid(m, k)
      BY <1>8, <1>9, <2>1
    <2> QED BY <1>8, <2>1, <2>2, <2>3, StreamGoesOn
  <1>12. queue' = [queue EXCEPT !["server"] = Commands(pk \o w, TRUE)]
    BY <1>6, <1>7, <1>10 DEF SendAndActivate
  <1>13. peer' = [peer EXCEPT !["server"] = PeerAt(m, "server", k, @.active)]
    <2>1. peer["server"] = [active |-> a, srp |-> AuthSecret(m), key |-> Key(AuthSecret(m), None)]
      <3>1. peer["server"] = PeerAt(m, "server", k - 1, a)
        BY <1>1, <1>6 DEF ServerFacts
      <3> QED BY <1>2, <1>3, <3>1, ServerPeerIs
    <2>2. PICK r : r = peer["server"]
      OBVIOUS
    <2>3. PICK full : full = Key(AuthSecret(m), <<Exchanged, Exchanged>>)
      OBVIOUS
    <2>4. PeerAt(m, "server", k, a) = [active |-> a, srp |-> AuthSecret(m), key |-> full]
      <3>1. k >= ProofNo(m) + 2
        BY <1>2
      <3> QED BY <1>3, <2>3, <3>1, ServerPeerIs
    <2>5. r.srp = AuthSecret(m) /\ DOMAIN r = {"active", "srp", "key"}
      BY <2>1, <2>2
    <2>6. [r EXCEPT !.key = full] = PeerAt(m, "server", k, a)
      <3>1. r = [active |-> a, srp |-> AuthSecret(m), key |-> Key(AuthSecret(m), None)]
        BY <2>1, <2>2
      <3>2. PICK s, o : s = AuthSecret(m) /\ o = Key(AuthSecret(m), None)
        OBVIOUS
      <3>3. r = [active |-> a, srp |-> s, key |-> o]
        BY <3>1, <3>2, Zenon
      <3>4. [[active |-> a, srp |-> s, key |-> o] EXCEPT !.key = full]
              = [active |-> a, srp |-> s, key |-> full]
        OBVIOUS
      <3> QED BY <2>4, <3>2, <3>3, <3>4, Zenon
    <2>7. peer' = [peer EXCEPT !["server"].key = full]
      BY <1>7, <2>2, <2>3, <2>5 DEF MixECDHSecretOnPeer
    <2>8. [peer EXCEPT !["server"].key = full] = [peer EXCEPT !["server"] = [r EXCEPT !.key = full]]
      BY <2>2
    <2> QED BY <1>6, <2>6, <2>7, <2>8
  <1>14. k >= ProofNo(m) + 2
    BY <1>2
  <1> QED BY <1>1, <1>6, <1>7, <1>11, <1>12, <1>13, <1>14, ServerAnswers

LEMMA Init2Keeps ==
    ASSUME NEW m \in Mechs, Login(m), Init2
    PROVE  Login(m)'
  <1>1. PICK k : ServerFacts(m, k) /\ ClientSays(m, k).cmd = "INIT2"
    BY ServerHears DEF Init2
  <1>2. /\ k = ProofNo(m) + 1 /\ ProofNo(m) \in 1 .. 3 /\ ChallengeNo(m) \in 0 .. 1
    BY <1>1, ClientWords, Shape DEF ServerFacts
  <1>3. /\ client = ClientAt(m, k - 1) /\ k - 1 = ProofNo(m)
        /\ k \in Nat /\ k - 1 \in Nat /\ k # ProofNo(m) /\ k # ProofNo(m) + 2
    <2>1. client = ClientAt(m, k - 1)
      BY <1>1 DEF ServerFacts
    <2>2. PICK q \in 1 .. 3 : q = ProofNo(m)
      BY <1>2
    <2>3. k = q + 1
      BY <1>2, <2>2
    <2> QED BY <2>1, <2>2, <2>3, SMTT(30)
  <1>4. /\ client = ClientRecord("AwaitingInit2", "NONE", None, None, Exchanged, 1)
        /\ ClientAt(m, k) = ClientRecord("DefinitionsSent", "NONE", None, None, Exchanged, 1)
    BY <1>2, <1>3, ClientAtIs
  <1>5. client.state = "AwaitingInit2"
    BY <1>4 DEF ClientRecord
  <1>6. PICK w : w = Message("DEFINITIONS", None)
    OBVIOUS
  <1>7. /\ client' = [client EXCEPT !.state = "DefinitionsSent"]
        /\ Send("server", <<w>>)
        /\ peer' = peer /\ ServerLeaves
    BY <1>5, <1>6 DEF Init2, sendVars, ServerLeaves
  <1>8. client' = ClientAt(m, k)
    <2>1. [ClientRecord("AwaitingInit2", "NONE", None, None, Exchanged, 1)
             EXCEPT !.state = "DefinitionsSent"]
            = ClientRecord("DefinitionsSent", "NONE", None, None, Exchanged, 1)
      BY DEF ClientRecord
    <2> QED BY <1>4, <1>7, <2>1, Zenon
  <1>9. PICK n \in Nat : n = ChallengeNo(m) + 2
    BY <1>2
  <1>10. ServerSaid(m, k - 1) = n /\ ServerSaid(m, k) = n + 1
    <2>1. k > ProofNo(m) /\ ChallengeNo(m) + 3 = n + 1
      BY <1>2, <1>9
    <2> QED BY <1>3, <1>9, <2>1, SaidTypes
  <1>11. w = ServerSays(m, n + 1)
    BY <1>2, <1>6, <1>9 DEF ServerSays
  <1> QED BY <1>1, <1>3, <1>7, <1>8, <1>10, <1>11, ServerSays1

LEMMA ClientReadyKeeps ==
    ASSUME NEW m \in Mechs, Login(m), ClientReady
    PROVE  Login(m)'
  <1>1. PICK k : ServerFacts(m, k) /\ ClientSays(m, k).cmd = "CLIENT_READY"
    BY ServerHears DEF ClientReady
  <1>2. k = ProofNo(m) + 3 /\ ProofNo(m) \in 1 .. 3
    BY <1>1, ClientWords, Shape DEF ServerFacts
  <1>3. /\ client = ClientAt(m, k - 1) /\ k - 1 = ProofNo(m) + 2
        /\ k \in Nat /\ k - 1 \in Nat
    BY <1>1, <1>2 DEF ServerFacts
  <1>4. /\ client = ClientRecord("DefinitionsSent", "NONE", None, None, Exchanged, 1)
        /\ ClientAt(m, k) = ClientRecord("Active", "NONE", None, None, Exchanged, 1)
    BY <1>2, <1>3, ClientAtIs
  <1>5. client' = [client EXCEPT !.state = "Active"]
        /\ UNCHANGED <<user, queue, peer, log, sent, pending, arrived, net>>
    BY DEF ClientReady, sendVars
  <1>6. client' = ClientAt(m, k)
    <2>1. [ClientRecord("DefinitionsSent", "NONE", None, None, Exchanged, 1)
             EXCEPT !.state = "Active"]
            = ClientRecord("Active", "NONE", None, None, Exchanged, 1)
      BY DEF ClientRecord
    <2> QED BY <1>4, <1>5, <2>1, Zenon
  <1>7. /\ k # ProofNo(m) /\ k # ProofNo(m) + 1 /\ k # ProofNo(m) + 2 /\ k # ProofNo(m) - 1
    BY <1>2
  <1> QED BY <1>1, <1>5, <1>6, <1>7, ServerInSilence

LEMMA ServerKeeps ==
    ASSUME NEW m \in Mechs, FALSE \notin KeygenResults, Login(m), ServerHandlers
    PROVE  Login(m)'
  BY FirstSrpKeeps, SrpBytesAKeeps, SrpBytesMKeeps, KeypairRegisterKeeps, KeypairLoginKeeps,
     KeypairResponseKeeps, EcdhPubkeyToServerKeeps, Init2Keeps, ClientReadyKeeps
     DEF ServerHandlers

-----------------------------------------------------------------------------
(* The client's handlers                                                   *)

ClientFacts(m, k) ==
    /\ k \in 1 .. ChallengeNo(m) + 3
    /\ handled["client"] = k - 1 /\ k - 1 \in Nat
    /\ k <= Said(m, "server", handled["server"])
    /\ user = UserAt(m, k - 1)
    /\ peer["client"] = PeerAt(m, "client", k - 1, peer["client"].active)
    /\ handled' = [handled EXCEPT !["client"] = k]
    /\ Packet("client") = ServerSays(m, k)

LEMMA ClientHears ==
    ASSUME NEW m \in Mechs, Login(m), NEW cmd, Handles("client", cmd)
    PROVE  \E k : ClientFacts(m, k) /\ ServerSays(m, k).cmd = cmd
  <1>1. /\ "server" \in Sides /\ "client" \in Sides /\ Other("server") = "client"
        /\ Other("client") = "server"
    BY DEF Sides, Other
  <1>2. PICK k \in Nat \ {0} : k = handled["client"] + 1
    BY <1>1 DEF Login, Types
  <1>3. /\ k <= Said(m, "server", handled["server"])
        /\ Packet("client") = Says(m, "server", k) /\ Packet("client").cmd = cmd
        /\ handled' = [handled EXCEPT !["client"] = k]
    BY <1>1, <1>2, Hears
  <1>4. handled["client"] = k - 1 /\ k - 1 \in Nat
    <2>1. PICK h \in Nat : h = handled["client"]
      BY <1>1 DEF Login, Types
    <2>2. h = k - 1
      BY <1>2, <2>1
    <2> QED BY <2>1, <2>2, Zenon
  <1>5. k \in 1 .. ChallengeNo(m) + 3
    <2>1. PICK s \in Nat : s = handled["server"]
      BY <1>1 DEF Login, Types
    <2>2. k <= ServerSaid(m, s) /\ ServerSaid(m, s) \in 0 .. ChallengeNo(m) + 3
      BY <1>3, <2>1, SaidTypes DEF Said
    <2>3. ChallengeNo(m) \in 0 .. 1
      BY Shape
    <2> QED BY <1>2, <2>2, <2>3
  <1>6. user = UserAt(m, k - 1) /\ peer["client"] = PeerAt(m, "client", k - 1, peer["client"].active)
    BY <1>1, <1>4 DEF Login, Known
  <1>7. Packet("client") = ServerSays(m, k)
    BY <1>3 DEF Says
  <1>8. ClientFacts(m, k)
    BY <1>3, <1>4, <1>5, <1>6, <1>7 DEF ClientFacts
  <1> QED BY <1>3, <1>7, <1>8

\* The client does not encrypt before it has the full key: the server does not.
LEMMA ClientInClear ==
    ASSUME NEW m \in Mechs, Login(m), NEW k, ClientFacts(m, k), k <= ChallengeNo(m) + 2
    PROVE  peer["client"].active = FALSE
  <1>1. PICK p \in 0 .. 1, q \in 1 .. 3 : p = ChallengeNo(m) /\ q = ProofNo(m) /\ q > p
    BY Shape
  <1>2. k \in Nat /\ k - 1 \in Nat /\ handled["client"] = k - 1 /\ k <= p + 2
    BY <1>1 DEF ClientFacts
  <1>3. "server" \in Sides /\ "client" \in Sides /\ Other("server") = "client"
    BY DEF Sides, Other
  <1>4. PICK s \in Nat : s = handled["server"]
    BY <1>3 DEF Login, Types
  <1>5. s <= q - p + (k - 1)
    BY <1>1, <1>2, <1>3, <1>4 DEF Login, Heard, Said, ClientSaid
  <1>6. peer["client"].active => s >= q + 2
    BY <1>1, <1>4 DEF Login, Switch, FullKeyAt
  <1>7. ~(s >= q + 2)
    BY <1>1, <1>2, <1>5
  <1>8. peer["client"].active \in BOOLEAN
    BY <1>3 DEF Login, Types
  <1> QED BY <1>6, <1>7, <1>8

\* Every handler of the client's says one packet.
LEMMA ClientAnswers ==
    ASSUME NEW m \in Mechs, Login(m), NEW k, ClientFacts(m, k),
           NEW w, w = ClientSays(m, ProofNo(m) - ChallengeNo(m) + k), Send("client", <<w>>),
           peer' = [peer EXCEPT !["client"] = PeerAt(m, "client", k, @.active)],
           user' = UserAt(m, k),
           UNCHANGED <<client, log, sent, pending, arrived, net>>
    PROVE  Login(m)'
  <1>1. "client" \in Sides /\ Other("client") = "server" /\ Sides = {"client", "server"}
    BY DEF Sides, Other
  <1>2. PICK p \in 0 .. 1, q \in 1 .. 3 : p = ChallengeNo(m) /\ q = ProofNo(m) /\ q > p
    BY Shape
  <1>3. /\ k \in Nat /\ k - 1 \in Nat /\ k = handled["client"] + 1 /\ handled["client"] = k - 1
        /\ handled' = [handled EXCEPT !["client"] = k]
    BY <1>2 DEF ClientFacts
  <1>4. PICK pk, act : pk = queue["client"].packets /\ act = queue["client"].activate
    OBVIOUS
  <1>5. PICK n \in Nat : n = q - p + (k - 1)
    BY <1>2, <1>3
  <1>6. ClientSaid(m, k - 1) = n /\ ClientSaid(m, k) = n + 1 /\ n + 1 = ProofNo(m) - ChallengeNo(m) + k
    BY <1>2, <1>3, <1>5 DEF ClientSaid
  <1>7. /\ pk \in Seq(Words(m)) /\ act \in BOOLEAN /\ log["client"] \in Seq(Words(m))
        /\ queue \in [Sides -> [packets : Seq(Words(m)), activate : BOOLEAN]]
    BY <1>1, <1>4 DEF Login, Types
  <1>8. Stream(m, "client", log["client"], pk, n)
    BY <1>1, <1>3, <1>4, <1>6 DEF Login, Spoken, Said
  <1>9. w = Says(m, "client", n + 1)
    BY <1>6 DEF Says
  <1>10. PICK v : v = <<w>>
    OBVIOUS
  <1>11. pk \o v \in Seq(Words(m)) /\ Stream(m, "client", log["client"], pk \o v, n + 1)
    BY <1>1, <1>7, <1>8, <1>9, <1>10, StreamGoesOnByOne
  <1>12. queue' = [queue EXCEPT !["client"] = Commands(pk \o v, act)]
    <2>1. Send("client", v)
      BY <1>10
    <2> QED BY <1>1, <1>4, <1>7, <2>1, SendIs
  <1>13. handled'["client"] = k /\ handled'["server"] = handled["server"]
    BY <1>1, <1>3 DEF Login, Types
  <1>14. client' = ClientAt(m, handled'["server"])
    BY <1>13 DEF Login, Known
  <1>15. PICK u : u = pk \o v
    OBVIOUS
  <1>16. k <= Said(m, Other("client"), handled[Other("client")])
    BY <1>1 DEF ClientFacts
  <1>17. GoesOn(m, "client", k, u, act)
    BY <1>3, <1>6, <1>11, <1>12, <1>13, <1>14, <1>15, <1>16 DEF GoesOn, Said
  <1>18. u \in Seq(Words(m)) /\ (act => queue["client"].activate)
    BY <1>4, <1>11, <1>15
  <1>19. MayActivate(m, "client", k, act)
    BY <1>18 DEF MayActivate
  <1>20. k = handled["client"] + 1 /\ k \in Nat /\ act \in BOOLEAN /\ u \in Seq(Words(m))
    BY <1>3, <1>7, <1>18
  <1> QED BY ONLY m \in Mechs, Login(m), <1>1, <1>17, <1>19, <1>20, StepGoesOn

\* A record of a user with all its fields.
UserRecord(mech, account, auth, session, key, exchanges, keypairs, ready) ==
    [mech |-> mech, account |-> account, auth_data |-> auth, session_key |-> session,
     key |-> key, exchanges |-> exchanges, keypairs |-> keypairs, ready |-> ready]

\* What the user has besides: the proof, and what an account by password costs.
OwnSecret(m) == IF m \in SrpMechs THEN SrpSecret ELSE None
Exchanges(m) == IF m \in SrpMechs THEN 1 ELSE 0

LEMMA UserAtIs ==
    ASSUME NEW m \in Mechs, NEW k \in Nat
    PROVE  /\ k = 0 => UserAt(m, k)
                = UserRecord(m, m, OwnSecret(m), None, NoKey, Exchanges(m), 0, FALSE)
           /\ k = 1 /\ ChallengeNo(m) = 1 => UserAt(m, k)
                = UserRecord(m, m, OwnSecret(m), AuthSecret(m), NoKey, Exchanges(m), 0, FALSE)
           /\ k = ChallengeNo(m) + 1 => UserAt(m, k)
                = UserRecord("NONE", m, None, None, AuthKey(m), Exchanges(m), 0, FALSE)
           /\ k = ChallengeNo(m) + 2 => UserAt(m, k)
                = UserRecord("NONE", m, None, None, FullKey(m), Exchanges(m), 1, FALSE)
           /\ k = ChallengeNo(m) + 3 => UserAt(m, k)
                = UserRecord("NONE", m, None, None, FullKey(m), Exchanges(m), 1, TRUE)
  <1>1. PICK p \in 0 .. 1 : p = ChallengeNo(m) /\ (p = 0 <=> m = "KEYPAIR_REGISTER")
    BY Shape DEF ChallengeNo
  <1>2. PICK o, x, a, b, c : /\ o = OwnSecret(m) /\ x = Exchanges(m) /\ a = AuthSecret(m)
                             /\ b = AuthKey(m) /\ c = FullKey(m)
    OBVIOUS
  <1>3. ASSUME k <= p PROVE
          /\ UserAt(m, k).mech = m /\ UserAt(m, k).auth_data = o /\ UserAt(m, k).key = NoKey
          /\ UserAt(m, k).keypairs = 0 /\ UserAt(m, k).ready = FALSE
    <2>1. k <= p /\ ~(k >= p + 2) /\ ~(k >= p + 3)
      BY <1>1, <1>3
    <2>2. UserAt(m, k).mech = m /\ UserAt(m, k).auth_data = o
      BY <1>1, <1>2, <2>1 DEF UserAt, OwnSecret
    <2>3. UserAt(m, k).key = NoKey /\ UserAt(m, k).keypairs = 0
      BY <1>1, <2>1 DEF UserAt
    <2>4. UserAt(m, k).ready = FALSE
      BY <1>1, <2>1 DEF UserAt
    <2> QED BY <2>2, <2>3, <2>4
  <1>4. ASSUME k > p PROVE
          UserAt(m, k).mech = "NONE" /\ UserAt(m, k).auth_data = None
    <2>1. ~(k <= p)
      BY <1>1, <1>4
    <2> QED BY <1>1, <2>1 DEF UserAt
  <1>5. /\ UserAt(m, k).account = m /\ UserAt(m, k).exchanges = x
        /\ UserAt(m, k).session_key = IF m # "KEYPAIR_REGISTER" /\ k = 1 THEN a ELSE None
    BY <1>2 DEF UserAt, Exchanges
  <1>6. k = p + 1 => /\ UserAt(m, k).key = b /\ UserAt(m, k).keypairs = 0
                     /\ UserAt(m, k).ready = FALSE
    <2>1. k = p + 1 => ~(k <= p) /\ ~(k >= p + 2) /\ ~(k >= p + 3)
      BY <1>1
    <2>2. k = p + 1 => UserAt(m, k).key = b /\ UserAt(m, k).keypairs = 0
      BY <1>1, <1>2, <2>1 DEF UserAt
    <2>3. k = p + 1 => UserAt(m, k).ready = FALSE
      BY <1>1, <2>1 DEF UserAt
    <2> QED BY <2>2, <2>3
  <1>7. k \in {p + 2, p + 3} => UserAt(m, k).key = c /\ UserAt(m, k).keypairs = 1
    <2>1. k \in {p + 2, p + 3} => ~(k <= p) /\ k >= p + 2 /\ k # p + 1
      BY <1>1
    <2> QED BY <1>1, <1>2, <2>1 DEF UserAt
  <1>8. (k = p + 2 => UserAt(m, k).ready = FALSE) /\ (k = p + 3 => UserAt(m, k).ready = TRUE)
    <2>1. (k = p + 2 => ~(k >= p + 3)) /\ (k = p + 3 => k >= p + 3)
      BY <1>1
    <2> QED BY <1>1, <2>1 DEF UserAt
  <1>9. \A me, au, se, ke, kp, re :
            (/\ UserAt(m, k).mech = me /\ UserAt(m, k).auth_data = au
             /\ UserAt(m, k).session_key = se /\ UserAt(m, k).key = ke
             /\ UserAt(m, k).keypairs = kp /\ UserAt(m, k).ready = re)
              => UserAt(m, k) = UserRecord(me, m, au, se, ke, x, kp, re)
    BY <1>2, ZenonT(30) DEF UserAt, UserRecord, Exchanges
  <1>10. k = 0 => UserAt(m, k) = UserRecord(m, m, o, None, NoKey, x, 0, FALSE)
    <2>1. k = 0 => k <= p /\ UserAt(m, k).session_key = None
      BY <1>1, <1>5
    <2> QED BY <1>3, <1>9, <2>1, Zenon
  <1>11. k = 1 /\ p = 1 => UserAt(m, k) = UserRecord(m, m, o, a, NoKey, x, 0, FALSE)
    <2>1. k = 1 /\ p = 1 => k <= p /\ UserAt(m, k).session_key = a
      BY <1>1, <1>5
    <2> QED BY <1>3, <1>9, <2>1, Zenon
  <1>12. k > p => UserAt(m, k).session_key = None
    BY <1>1, <1>5
  <1>13. k = p + 1 => UserAt(m, k) = UserRecord("NONE", m, None, None, b, x, 0, FALSE)
    <2>1. k = p + 1 => k > p
      BY <1>1
    <2> QED BY <1>4, <1>6, <1>9, <1>12, <2>1, Zenon
  <1>14. k = p + 2 => UserAt(m, k) = UserRecord("NONE", m, None, None, c, x, 1, FALSE)
    <2>1. k = p + 2 => k > p
      BY <1>1
    <2> QED BY <1>4, <1>7, <1>8, <1>9, <1>12, <2>1, Zenon
  <1>15. k = p + 3 => UserAt(m, k) = UserRecord("NONE", m, None, None, c, x, 1, TRUE)
    <2>1. k = p + 3 => k > p
      BY <1>1
    <2>2. SUFFICES ASSUME k = p + 3
                   PROVE  UserAt(m, k) = UserRecord("NONE", m, None, None, c, x, 1, TRUE)
      OBVIOUS
    <2>3. k > p /\ ~(k <= p) /\ k >= p + 2 /\ k >= p + 3 /\ k # p + 1 /\ ~(m # "KEYPAIR_REGISTER" /\ k = 1)
      BY <1>1, <2>2
    <2>4. PICK f : f = FullKey(m)
      OBVIOUS
    <2> QED BY <1>1, <1>2, <2>3, <2>4 DEF UserAt, UserRecord, Exchanges
  <1> QED BY <1>1, <1>2, <1>10, <1>11, <1>13, <1>14, <1>15

\* The state of the connection's encryption on the client.
LEMMA ClientPeerIs ==
    ASSUME NEW m \in Mechs, NEW k \in Nat, NEW a
    PROVE  /\ k <= ChallengeNo(m) =>
                 PeerAt(m, "client", k, a) = [active |-> a, srp |-> None, key |-> NoKey]
           /\ k = ChallengeNo(m) + 1 =>
                 PeerAt(m, "client", k, a)
                   = [active |-> a, srp |-> AuthSecret(m), key |-> AuthKey(m)]
           /\ k >= ChallengeNo(m) + 2 =>
                 PeerAt(m, "client", k, a)
                   = [active |-> a, srp |-> AuthSecret(m), key |-> FullKey(m)]
  <1>1. PICK p \in 0 .. 1 : /\ p = ChallengeNo(m) /\ FirstKeyAt(m, "client") = p + 1
                            /\ FullKeyAt(m, "client") = p + 2
    BY Shape DEF FirstKeyAt, FullKeyAt
  <1>2. CASE k <= p
    <2>1. ~(k >= p + 1) /\ ~(k >= p + 2) /\ k # p + 1
      BY <1>1, <1>2
    <2> QED BY <1>1, <1>2, <2>1 DEF PeerAt
  <1>3. CASE k = p + 1
    <2>1. k >= p + 1 /\ k < p + 2 /\ ~(k >= p + 2) /\ ~(k <= p)
      BY <1>1, <1>3
    <2> QED BY <1>1, <1>3, <2>1 DEF PeerAt
  <1>4. CASE k >= p + 2
    <2>1. k >= p + 1 /\ ~(k <= p) /\ k # p + 1
      BY <1>1, <1>4
    <2> QED BY <1>1, <1>4, <2>1 DEF PeerAt
  <1> QED BY <1>1, <1>2, <1>3, <1>4

\* The connections on both sides, and the numbers that go with packet k.
LEMMA ClientNumbers ==
    ASSUME NEW m \in Mechs, Login(m), NEW k, ClientFacts(m, k)
    PROVE  /\ DOMAIN peer = Sides /\ peer = [side \in Sides |-> peer[side]]
           /\ k \in Nat /\ k - 1 \in Nat /\ "client" \in Sides
           /\ user = UserAt(m, k - 1)
           /\ ChallengeNo(m) \in 0 .. 1 /\ ProofNo(m) \in 1 .. 3
  <1>1. peer = [side \in Sides |-> PeerAt(m, side, handled[side], peer[side].active)]
    BY DEF Login, Known
  <1>2. DOMAIN peer = Sides /\ peer = [side \in Sides |-> peer[side]]
    BY <1>1
  <1>3. ChallengeNo(m) \in 0 .. 1 /\ ProofNo(m) \in 1 .. 3
    BY Shape
  <1>4. k \in 1 .. ChallengeNo(m) + 3 /\ k - 1 \in Nat /\ user = UserAt(m, k - 1)
    BY DEF ClientFacts
  <1>5. k \in Nat /\ "client" \in Sides
    BY <1>3, <1>4 DEF Sides
  <1> QED BY <1>2, <1>3, <1>4, <1>5

\* The keys that a handler does not touch are those of the next packet, too.
LEMMA ClientKeysKept ==
    ASSUME NEW m \in Mechs, Login(m), NEW k, ClientFacts(m, k), peer' = peer,
           k <= ChallengeNo(m) \/ k = ChallengeNo(m) + 3
    PROVE  peer' = [peer EXCEPT !["client"] = PeerAt(m, "client", k, @.active)]
  <1>1. /\ DOMAIN peer = Sides /\ peer = [side \in Sides |-> peer[side]]
        /\ k \in Nat /\ k - 1 \in Nat /\ "client" \in Sides
    BY ClientNumbers
  <1>2. PICK p \in 0 .. 1 : p = ChallengeNo(m)
    BY Shape
  <1>3. PICK a : a = peer["client"].active
    OBVIOUS
  <1>4. PeerAt(m, "client", k, a) = PeerAt(m, "client", k - 1, a)
    <2>1. CASE k <= p
      <3>1. k - 1 <= p
        BY <1>1, <1>2, <2>1
      <3> QED BY <1>1, <1>2, <2>1, <3>1, ClientPeerIs
    <2>2. CASE k = p + 3
      <3>1. k - 1 >= p + 2 /\ k >= p + 2
        BY <1>1, <1>2, <2>2
      <3> QED BY <1>1, <1>2, <3>1, ClientPeerIs
    <2> QED BY <1>2, <2>1, <2>2
  <1>5. peer["client"] = PeerAt(m, "client", k, a)
    BY <1>3, <1>4 DEF ClientFacts
  <1> QED BY <1>1, <1>3, <1>5

\* What the handlers of the client leave alone.
ClientLeaves == UNCHANGED <<client, log, sent, pending, arrived, net>>

LEMMA SrpBytesSandBKeeps ==
    ASSUME NEW m \in Mechs, Login(m), SrpBytesSandB
    PROVE  Login(m)'
  <1>1. PICK k : ClientFacts(m, k) /\ ServerSays(m, k).cmd = "SRP_BYTES_S_B"
    BY ClientHears DEF SrpBytesSandB
  <1>2. /\ m \in SrpMechs /\ k = 1 /\ Packet("client").id = SrpSecret /\ ChallengeNo(m) = 1
        /\ ProofNo(m) \in 1 .. 3
    BY <1>1, ServerWords, Shape DEF ClientFacts, SrpMechs
  <1>3. PICK x, f : x = Exchanges(m) /\ f = FALSE
    OBVIOUS
  <1>4. /\ user = UserRecord(m, m, SrpSecret, None, NoKey, x, 0, f)
        /\ UserAt(m, k) = UserRecord(m, m, SrpSecret, SrpSecret, NoKey, x, 0, f)
    <2>1. user = UserAt(m, 0) /\ OwnSecret(m) = SrpSecret /\ AuthSecret(m) = SrpSecret
      BY <1>1, <1>2 DEF ClientFacts, OwnSecret, AuthSecret, SrpMechs
    <2>2. UserAt(m, 0) = UserRecord(m, m, OwnSecret(m), None, NoKey, Exchanges(m), 0, FALSE)
      BY UserAtIs
    <2>3. UserAt(m, 1) = UserRecord(m, m, OwnSecret(m), AuthSecret(m), NoKey, Exchanges(m), 0, FALSE)
      BY <1>2, UserAtIs
    <2> QED BY <1>2, <1>3, <2>1, <2>2, <2>3, Zenon
  <1>5. user.mech \in {"SRP", "FIRST_SRP"} /\ user.auth_data = SrpSecret
    BY <1>2, <1>4 DEF UserRecord, SrpMechs
  <1>6. PICK w : w = Message("SRP_BYTES_M", SrpSecret)
    OBVIOUS
  <1>7. /\ user' = [user EXCEPT !.session_key = SrpSecret]
        /\ Send("client", <<w>>)
        /\ peer' = peer /\ ClientLeaves
    BY <1>2, <1>5, <1>6 DEF SrpBytesSandB, sendVars, ClientLeaves
  <1>8. user' = UserAt(m, k)
    <2>1. [UserRecord(m, m, SrpSecret, None, NoKey, x, 0, f) EXCEPT !.session_key = SrpSecret]
            = UserRecord(m, m, SrpSecret, SrpSecret, NoKey, x, 0, f)
      BY DEF UserRecord
    <2> QED BY <1>4, <1>7, <2>1, Zenon
  <1>9. peer' = [peer EXCEPT !["client"] = PeerAt(m, "client", k, @.active)]
    <2>1. k <= ChallengeNo(m)
      BY <1>2
    <2> QED BY <1>1, <1>7, <2>1, ClientKeysKept
  <1>10. w = ClientSays(m, ProofNo(m) - ChallengeNo(m) + k)
    <2>1. ProofNo(m) - ChallengeNo(m) + k = ProofNo(m)
      BY <1>2
    <2>2. ClientSays(m, ProofNo(m)) = Proves(m)
      <3>1. PICK q \in 1 .. 3 : q = ProofNo(m)
        BY <1>2
      <3> QED BY <3>1 DEF ClientSays
    <2>3. Proves(m) = w
      BY <1>2, <1>6 DEF Proves, SrpMechs
    <2> QED BY <2>1, <2>2, <2>3
  <1>11. UNCHANGED <<client, log, sent, pending, arrived, net>>
    BY <1>7 DEF ClientLeaves
  <1> QED BY <1>1, <1>7, <1>8, <1>9, <1>10, <1>11, ClientAnswers

LEMMA KeypairChallengeKeeps ==
    ASSUME NEW m \in Mechs, Login(m), KeypairChallenge
    PROVE  Login(m)'
  <1>1. PICK k : ClientFacts(m, k) /\ ServerSays(m, k).cmd = "KEYPAIR_CHALLENGE"
    BY ClientHears DEF KeypairChallenge
  <1>2. /\ m = "KEYPAIR_LOGIN" /\ k = 1 /\ Packet("client").id = Nonce /\ ChallengeNo(m) = 1
        /\ ProofNo(m) \in 1 .. 3
    BY <1>1, ServerWords, Shape DEF ClientFacts
  <1>3. PICK x, o, f : x = Exchanges(m) /\ o = OwnSecret(m) /\ f = FALSE
    OBVIOUS
  <1>4. /\ user = UserRecord(m, m, o, None, NoKey, x, 0, f)
        /\ UserAt(m, k) = UserRecord(m, m, o, Nonce, NoKey, x, 0, f)
    <2>1. user = UserAt(m, 0) /\ AuthSecret(m) = Nonce
      BY <1>1, <1>2 DEF ClientFacts, AuthSecret
    <2>2. UserAt(m, 0) = UserRecord(m, m, OwnSecret(m), None, NoKey, Exchanges(m), 0, FALSE)
      BY UserAtIs
    <2>3. UserAt(m, 1) = UserRecord(m, m, OwnSecret(m), AuthSecret(m), NoKey, Exchanges(m), 0, FALSE)
      BY <1>2, UserAtIs
    <2> QED BY <1>2, <1>3, <2>1, <2>2, <2>3, Zenon
  <1>5. PICK w : w = Message("KEYPAIR_RESPONSE", Nonce)
    OBVIOUS
  <1>6. /\ user' = [user EXCEPT !.session_key = Nonce]
        /\ Send("client", <<w>>)
        /\ peer' = peer /\ ClientLeaves
    BY <1>2, <1>5 DEF KeypairChallenge, sendVars, ClientLeaves
  <1>7. user' = UserAt(m, k)
    <2>1. [UserRecord(m, m, o, None, NoKey, x, 0, f) EXCEPT !.session_key = Nonce]
            = UserRecord(m, m, o, Nonce, NoKey, x, 0, f)
      BY DEF UserRecord
    <2> QED BY <1>4, <1>6, <2>1, Zenon
  <1>8. peer' = [peer EXCEPT !["client"] = PeerAt(m, "client", k, @.active)]
    <2>1. k <= ChallengeNo(m)
      BY <1>2
    <2> QED BY <1>1, <1>6, <2>1, ClientKeysKept
  <1>9. w = ClientSays(m, ProofNo(m) - ChallengeNo(m) + k)
    <2>1. ProofNo(m) - ChallengeNo(m) + k = ProofNo(m)
      BY <1>2
    <2>2. ClientSays(m, ProofNo(m)) = Proves(m)
      <3>1. PICK q \in 1 .. 3 : q = ProofNo(m)
        BY <1>2
      <3> QED BY <3>1 DEF ClientSays
    <2>3. Proves(m) = w
      BY <1>2, <1>5 DEF Proves
    <2> QED BY <2>1, <2>2, <2>3
  <1>10. UNCHANGED <<client, log, sent, pending, arrived, net>>
    BY <1>6 DEF ClientLeaves
  <1> QED BY <1>1, <1>6, <1>7, <1>8, <1>9, <1>10, ClientAnswers

\* The client derives the first keys from what it has authenticated with.
LEMMA AuthAcceptKeeps ==
    ASSUME NEW m \in Mechs, Login(m), AuthAccept
    PROVE  Login(m)'
  <1>1. PICK k : ClientFacts(m, k) /\ ServerSays(m, k).cmd = "AUTH_ACCEPT"
    BY ClientHears DEF AuthAccept
  <1>2. k = ChallengeNo(m) + 1 /\ ChallengeNo(m) \in 0 .. 1 /\ ProofNo(m) \in 1 .. 3
    BY <1>1, ServerWords, Shape DEF ClientFacts
  <1>3. PICK p \in 0 .. 1 : p = ChallengeNo(m) /\ k = p + 1 /\ k - 1 = p /\ k \in Nat
    BY <1>2
  <1>4. PICK x, a, o, f : x = Exchanges(m) /\ a = AuthSecret(m) /\ o = OwnSecret(m) /\ f = FALSE
    OBVIOUS
  <1>5. \E s : /\ user = UserRecord(m, m, o, s, NoKey, x, 0, f)
               /\ a = IF m = "KEYPAIR_REGISTER" THEN PublicKey ELSE s
    <2>1. user = UserAt(m, p)
      BY <1>1, <1>3 DEF ClientFacts
    <2>2. CASE p = 0
      <3>1. m = "KEYPAIR_REGISTER" /\ a = PublicKey
        BY <1>3, <1>4, <2>2, Shape DEF AuthSecret, ChallengeNo
      <3>2. UserAt(m, 0) = UserRecord(m, m, OwnSecret(m), None, NoKey, Exchanges(m), 0, FALSE)
        BY UserAtIs
      <3>3. user = UserRecord(m, m, o, None, NoKey, x, 0, f)
        BY <1>4, <2>1, <2>2, <3>2, Zenon
      <3> QED BY <3>1, <3>3, Zenon
    <2>3. CASE p = 1
      <3>1. m # "KEYPAIR_REGISTER"
        BY <1>3, <2>3 DEF ChallengeNo
      <3>2. UserAt(m, 1) = UserRecord(m, m, OwnSecret(m), AuthSecret(m), NoKey, Exchanges(m), 0, FALSE)
        BY <1>3, <2>3, UserAtIs
      <3>3. user = UserRecord(m, m, o, a, NoKey, x, 0, f)
        BY <1>4, <2>1, <2>3, <3>2, Zenon
      <3> QED BY <3>1, <3>3, Zenon
    <2>4. p = 0 \/ p = 1
      BY <1>3
    <2> QED BY <2>2, <2>3, <2>4, Zenon
  <1>6. PICK s : /\ user = UserRecord(m, m, o, s, NoKey, x, 0, f)
                 /\ a = IF m = "KEYPAIR_REGISTER" THEN PublicKey ELSE s
    BY <1>5
  <1>7. user.mech = m /\ user.auth_data = o /\ user.session_key = s
    BY <1>6 DEF UserRecord
  <1>8. m \in {"KEYPAIR_LOGIN", "KEYPAIR_REGISTER"} \/ o # None
    <2>1. m \in SrpMechs \/ m \in {"KEYPAIR_LOGIN", "KEYPAIR_REGISTER"}
      BY Shape DEF SrpMechs
    <2> QED BY <1>4, <2>1, KeysDiffer DEF OwnSecret
  <1>9. DeleteAuthData(user) = UserRecord("NONE", m, None, None, NoKey, x, 0, f)
    <2>1. DeleteAuthData(user)
            = [user EXCEPT !.mech = "NONE", !.auth_data = None, !.session_key = None]
      BY <1>7, <1>8 DEF DeleteAuthData
    <2>2. [user EXCEPT !.mech = "NONE", !.auth_data = None, !.session_key = None]
            = [[[user EXCEPT !.mech = "NONE"] EXCEPT !.auth_data = None] EXCEPT !.session_key = None]
      BY <1>6 DEF UserRecord
    <2>3. [UserRecord(m, m, o, s, NoKey, x, 0, f) EXCEPT !.mech = "NONE"]
            = UserRecord("NONE", m, o, s, NoKey, x, 0, f)
      BY DEF UserRecord
    <2>4. [UserRecord("NONE", m, o, s, NoKey, x, 0, f) EXCEPT !.auth_data = None]
            = UserRecord("NONE", m, None, s, NoKey, x, 0, f)
      BY DEF UserRecord
    <2>5. [UserRecord("NONE", m, None, s, NoKey, x, 0, f) EXCEPT !.session_key = None]
            = UserRecord("NONE", m, None, None, NoKey, x, 0, f)
      BY DEF UserRecord
    <2> QED BY <1>6, <2>1, <2>2, <2>3, <2>4, <2>5, Zenon
  <1>10. PICK w : w = Message("INIT2", None)
    OBVIOUS
  <1>11. PICK key : key = Key(a, None) /\ key = AuthKey(m)
    BY <1>4 DEF AuthKey
  <1>12. /\ user' = [DeleteAuthData(user) EXCEPT !.key = key]
         /\ SetPeerEncryptionState("client", a, key)
         /\ Send("client", <<w>>) /\ ClientLeaves
    BY <1>6, <1>7, <1>10, <1>11 DEF AuthAccept, sendVars, ClientLeaves
  <1>13. user' = UserAt(m, k)
    <2>1. [UserRecord("NONE", m, None, None, NoKey, x, 0, f) EXCEPT !.key = key]
            = UserRecord("NONE", m, None, None, key, x, 0, f)
      BY DEF UserRecord
    <2>2. UserAt(m, k) = UserRecord("NONE", m, None, None, AuthKey(m), Exchanges(m), 0, FALSE)
      BY <1>2, <1>3, UserAtIs
    <2> QED BY <1>4, <1>9, <1>11, <1>12, <2>1, <2>2, Zenon
  <1>14. peer' = [peer EXCEPT !["client"] = PeerAt(m, "client", k, @.active)]
    <2>1. peer["client"].active = FALSE
      <3>1. k <= ChallengeNo(m) + 2
        BY <1>2
      <3> QED BY <1>1, <3>1, ClientInClear
    <2>2. PeerAt(m, "client", k, FALSE) = [active |-> FALSE, srp |-> AuthSecret(m), key |-> AuthKey(m)]
      BY <1>2, <1>3, ClientPeerIs
    <2> QED BY <1>4, <1>11, <1>12, <2>1, <2>2 DEF SetPeerEncryptionState
  <1>15. w = ClientSays(m, ProofNo(m) - ChallengeNo(m) + k)
    <2>1. PICK q \in 1 .. 3 : q = ProofNo(m)
      BY <1>2
    <2>2. q - p + k = q + 1
      BY <1>3
    <2> QED BY <1>3, <1>10, <2>1, <2>2 DEF ClientSays
  <1>16. UNCHANGED <<client, log, sent, pending, arrived, net>>
    BY <1>12 DEF ClientLeaves
  <1> QED BY <1>1, <1>12, <1>13, <1>14, <1>15, <1>16, ClientAnswers

\* The exchange is mixed into the keys: the client has the full key.
LEMMA EcdhPubkeyToClientKeeps ==
    ASSUME NEW m \in Mechs, Login(m), EcdhPubkeyToClient
    PROVE  Login(m)'
  <1>1. PICK k : ClientFacts(m, k) /\ ServerSays(m, k).cmd = "ECDH_PUBKEY"
    BY ClientHears DEF EcdhPubkeyToClient
  <1>2. /\ k = ChallengeNo(m) + 2 /\ ChallengeNo(m) \in 0 .. 1 /\ ProofNo(m) \in 1 .. 3
        /\ Packet("client").id = Exchanged
    BY <1>1, ServerWords, Shape DEF ClientFacts
  <1>3. PICK p \in 0 .. 1 : /\ p = ChallengeNo(m) /\ k = p + 2 /\ k - 1 = p + 1
                            /\ k \in Nat /\ k - 1 \in Nat
    BY <1>2
  <1>4. PICK x, b, c, f : x = Exchanges(m) /\ b = AuthKey(m) /\ c = FullKey(m) /\ f = FALSE
    OBVIOUS
  <1>5. user = UserRecord("NONE", m, None, None, b, x, 0, f)
    <2>1. user = UserAt(m, k - 1)
      BY <1>1 DEF ClientFacts
    <2> QED BY <1>3, <1>4, <2>1, UserAtIs
  <1>6. user.keypairs = 0 /\ user.key = b /\ b.auth = AuthSecret(m)
    BY <1>4, <1>5 DEF UserRecord, AuthKey, Key
  <1>7. Secret("x25519", user.keypairs + 1) = Exchanged
    BY <1>6 DEF Exchanged
  <1>8. Key(user.key.auth, <<Packet("client").id, Secret("x25519", user.keypairs + 1)>>) = c
    BY <1>2, <1>4, <1>6, <1>7 DEF FullKey
  <1>9. PICK w : w = Message("ECDH_PUBKEY", Exchanged)
    OBVIOUS
  <1>10. /\ user' = [user EXCEPT !.keypairs = @ + 1, !.key = c]
         /\ SetPeerEncryptionState("client", c.auth, c)
         /\ Send("client", <<w>>) /\ ClientLeaves
    BY <1>7, <1>8, <1>9 DEF EcdhPubkeyToClient, sendVars, ClientLeaves
  <1>11. user' = UserAt(m, k)
    <2>1. [user EXCEPT !.keypairs = @ + 1, !.key = c] = [[user EXCEPT !.keypairs = 1] EXCEPT !.key = c]
      BY <1>5 DEF UserRecord
    <2>2. [UserRecord("NONE", m, None, None, b, x, 0, f) EXCEPT !.keypairs = 1]
            = UserRecord("NONE", m, None, None, b, x, 1, f)
      BY DEF UserRecord
    <2>3. [UserRecord("NONE", m, None, None, b, x, 1, f) EXCEPT !.key = c]
            = UserRecord("NONE", m, None, None, c, x, 1, f)
      BY DEF UserRecord
    <2>4. UserAt(m, k) = UserRecord("NONE", m, None, None, FullKey(m), Exchanges(m), 1, FALSE)
      BY <1>2, <1>3, UserAtIs
    <2> QED BY <1>4, <1>5, <1>10, <2>1, <2>2, <2>3, <2>4, Zenon
  <1>12. peer' = [peer EXCEPT !["client"] = PeerAt(m, "client", k, @.active)]
    <2>1. peer["client"].active = FALSE
      <3>1. k <= ChallengeNo(m) + 2
        BY <1>2
      <3> QED BY <1>1, <3>1, ClientInClear
    <2>2. PeerAt(m, "client", k, FALSE) = [active |-> FALSE, srp |-> AuthSecret(m), key |-> FullKey(m)]
      <3>1. k >= ChallengeNo(m) + 2
        BY <1>2
      <3> QED BY <1>3, <3>1, ClientPeerIs
    <2>3. c.auth = AuthSecret(m)
      BY <1>4 DEF FullKey, Key
    <2> QED BY <1>4, <1>10, <2>1, <2>2, <2>3 DEF SetPeerEncryptionState
  <1>13. w = ClientSays(m, ProofNo(m) - ChallengeNo(m) + k)
    <2>1. PICK q \in 1 .. 3 : q = ProofNo(m)
      BY <1>2
    <2>2. q - p + k = q + 2
      BY <1>3
    <2> QED BY <1>3, <1>9, <2>1, <2>2 DEF ClientSays
  <1>14. UNCHANGED <<client, log, sent, pending, arrived, net>>
    BY <1>10 DEF ClientLeaves
  <1> QED BY <1>1, <1>10, <1>11, <1>12, <1>13, <1>14, ClientAnswers

LEMMA DefinitionsKeeps ==
    ASSUME NEW m \in Mechs, Login(m), Definitions
    PROVE  Login(m)'
  <1>1. PICK k : ClientFacts(m, k) /\ ServerSays(m, k).cmd = "DEFINITIONS"
    BY ClientHears DEF Definitions
  <1>2. k = ChallengeNo(m) + 3 /\ ChallengeNo(m) \in 0 .. 1 /\ ProofNo(m) \in 1 .. 3
    BY <1>1, ServerWords, Shape DEF ClientFacts
  <1>3. PICK p \in 0 .. 1 : /\ p = ChallengeNo(m) /\ k = p + 3 /\ k - 1 = p + 2
                            /\ k \in Nat /\ k - 1 \in Nat
    BY <1>2
  <1>4. PICK x, c, f, t : f = FALSE /\ t = TRUE /\ x = Exchanges(m) /\ c = FullKey(m)
    OBVIOUS
  <1>5. user = UserRecord("NONE", m, None, None, c, x, 1, f)
    <2>1. user = UserAt(m, k - 1)
      BY <1>1 DEF ClientFacts
    <2> QED BY <1>3, <1>4, <2>1, UserAtIs
  <1>6. PICK w : w = Message("CLIENT_READY", None)
    OBVIOUS
  <1>7. /\ user' = [user EXCEPT !.ready = TRUE]
        /\ Send("client", <<w>>) /\ peer' = peer /\ ClientLeaves
    BY <1>6 DEF Definitions, sendVars, ClientLeaves
  <1>8. user' = UserAt(m, k)
    <2>1. [UserRecord("NONE", m, None, None, c, x, 1, f) EXCEPT !.ready = t]
            = UserRecord("NONE", m, None, None, c, x, 1, t)
      BY DEF UserRecord
    <2>2. UserAt(m, k) = UserRecord("NONE", m, None, None, FullKey(m), Exchanges(m), 1, TRUE)
      BY <1>2, <1>3, UserAtIs
    <2> QED BY <1>4, <1>5, <1>7, <2>1, <2>2, Zenon
  <1>9. peer' = [peer EXCEPT !["client"] = PeerAt(m, "client", k, @.active)]
    BY <1>1, <1>2, <1>7, ClientKeysKept
  <1>10. w = ClientSays(m, ProofNo(m) - ChallengeNo(m) + k)
    <2>1. PICK q \in 1 .. 3 : q = ProofNo(m)
      BY <1>2
    <2>2. q - p + k = q + 3
      BY <1>3
    <2> QED BY <1>3, <1>6, <2>1, <2>2 DEF ClientSays
  <1>11. UNCHANGED <<client, log, sent, pending, arrived, net>>
    BY <1>7 DEF ClientLeaves
  <1> QED BY <1>1, <1>7, <1>8, <1>9, <1>10, <1>11, ClientAnswers

LEMMA ClientKeeps ==
    ASSUME NEW m \in Mechs, Login(m), ClientHandlers
    PROVE  Login(m)'
  <1>1. ~AcceptSudoMode /\ ~DenySudoMode
    <2>1. ASSUME NEW cmd \in {"ACCEPT_SUDO_MODE", "DENY_SUDO_MODE"}, Handles("client", cmd)
          PROVE  FALSE
      <3>1. PICK k : ClientFacts(m, k) /\ ServerSays(m, k).cmd = cmd
        BY <2>1, ClientHears
      <3> QED BY <2>1, <3>1, ServerWords DEF ClientFacts
    <2> QED BY <2>1 DEF AcceptSudoMode, DenySudoMode
  <1> QED BY <1>1, SrpBytesSandBKeeps, KeypairChallengeKeeps, AuthAcceptKeeps,
             EcdhPubkeyToClientKeeps, DefinitionsKeeps DEF ClientHandlers

-----------------------------------------------------------------------------
(* The send and receive threads                                            *)

\* Who encrypts does it with the full key, and both sides have it by then.
LEMMA FullKeyInForce ==
    ASSUME NEW m \in Mechs, Login(m), peer["server"].active
    PROVE  \A side \in Sides :
              peer[side] = [active |-> peer[side].active, srp |-> AuthSecret(m), key |-> FullKey(m)]
  <1>1. PICK p \in 0 .. 1, q \in 1 .. 3 : p = ChallengeNo(m) /\ q = ProofNo(m) /\ q > p
    BY Shape
  <1>2. "server" \in Sides /\ "client" \in Sides /\ Other("server") = "client"
    BY DEF Sides, Other
  <1>3. PICK s \in Nat, c \in Nat : s = handled["server"] /\ c = handled["client"]
    BY <1>2 DEF Login, Types
  <1>4. s >= q + 2
    BY <1>1, <1>3 DEF Login, Switch, FullKeyAt
  <1>5. c >= p + 2
    <2>1. s <= q - p + c
      BY <1>1, <1>2, <1>3 DEF Login, Heard, Said, ClientSaid
    <2> QED BY <1>1, <1>4, <2>1
  <1>6. \A side \in Sides : peer[side] = PeerAt(m, side, handled[side], peer[side].active)
    BY DEF Login, Known
  <1>7. peer["server"]
          = [active |-> peer["server"].active, srp |-> AuthSecret(m), key |-> FullKey(m)]
    <2>1. PICK a : a = peer["server"].active
      OBVIOUS
    <2>2. peer["server"] = PeerAt(m, "server", s, a)
      BY <1>2, <1>3, <1>6, <2>1
    <2>3. PeerAt(m, "server", s, a)
            = [active |-> a, srp |-> AuthSecret(m), key |-> Key(AuthSecret(m), <<Exchanged, Exchanged>>)]
      BY <1>1, <1>4, ServerPeerIs
    <2> QED BY <2>1, <2>2, <2>3, Zenon DEF FullKey
  <1>8. peer["client"]
          = [active |-> peer["client"].active, srp |-> AuthSecret(m), key |-> FullKey(m)]
    <2>1. PICK a : a = peer["client"].active
      OBVIOUS
    <2>2. peer["client"] = PeerAt(m, "client", c, a)
      BY <1>2, <1>3, <1>6, <2>1
    <2>3. PeerAt(m, "client", c, a) = [active |-> a, srp |-> AuthSecret(m), key |-> FullKey(m)]
      BY <1>1, <1>5, ClientPeerIs
    <2> QED BY <2>1, <2>2, <2>3, Zenon
  <1> QED BY <1>7, <1>8, Zenon DEF Sides

\* What is left in the network was there: perhaps only as an acknowledgement.
LEMMA MeaningfulIs ==
    ASSUME NEW K, NEW ds, ds \subseteq [to : Sides, n : Nat, key : K], NEW r
    PROVE  \A e \in Meaningful(ds, r) :
              /\ e \in [to : Sides, n : Nat, key : K]
              /\ \E d \in ds : e.to = d.to /\ e.key = d.key /\ e.n \in {0, d.n}
  <1> SUFFICES ASSUME NEW e \in Meaningful(ds, r)
               PROVE  /\ e \in [to : Sides, n : Nat, key : K]
                      /\ \E d \in ds : e.to = d.to /\ e.key = d.key /\ e.n \in {0, d.n}
    OBVIOUS
  <1>1. PICK d \in ds : e = [d EXCEPT !.n = IF d.n \in r[d.to] THEN 0 ELSE d.n]
    BY Zenon DEF Meaningful
  <1>2. PICK n : n = IF d.n \in r[d.to] THEN 0 ELSE d.n
    OBVIOUS
  <1>3. d \in [to : Sides, n : Nat, key : K]
    BY <1>1
  <1>4. n \in Nat /\ n \in {0, d.n}
    BY <1>2, <1>3
  <1>5. e = [d EXCEPT !.n = n]
    BY <1>1, <1>2
  <1>6. e.to = d.to /\ e.key = d.key /\ e.n = n /\ e \in [to : Sides, n : Nat, key : K]
    BY <1>3, <1>4, <1>5
  <1> QED BY <1>1, <1>4, <1>6

\* A datagram leaves, for a packet that has been sent or for none.
LEMMA LeavesInForce ==
    ASSUME NEW m \in Mechs, Login(m), NEW side \in Sides, NEW n \in Nat, rawSend(side, n),
           sent' \in [Sides -> Nat],
           \A z \in Sides : sent[z] <= sent'[z] /\ sent'[z] <= Len(log[z]),
           n <= sent'[side],
           UNCHANGED <<client, user, peer, queue, pending, log, handled, arrived>>
    PROVE  Login(m)'
  <1>1. "server" \in Sides /\ "client" \in Sides /\ Other(side) \in Sides /\ Other(Other(side)) = side
    BY DEF Sides, Other
  <1>2. PICK key : key = IF peer[side].active THEN peer[side].key ELSE Plain
    OBVIOUS
  <1>3. key \in {Plain, FullKey(m)} /\ (key # Plain => peer["server"].active)
    <2>1. CASE peer[side].active
      <3>1. peer["server"].active
        BY <2>1 DEF Login, Switch, Sides
      <3>2. peer[side] = [active |-> peer[side].active, srp |-> AuthSecret(m), key |-> FullKey(m)]
        BY <3>1, FullKeyInForce
      <3>3. peer[side].key = FullKey(m)
        BY <3>2
      <3> QED BY <1>2, <2>1, <3>1, <3>3
    <2>2. CASE ~peer[side].active
      BY <1>2, <2>2
    <2> QED BY <2>1, <2>2
  <1>4. PICK d : d = [to |-> Other(side), n |-> n, key |-> key]
    OBVIOUS
  <1>5. d \in [to : Sides, n : Nat, key : {Plain, FullKey(m)}] /\ d.n = n /\ d.to = Other(side) /\ d.key = key
    BY <1>1, <1>3, <1>4
  <1>6. net' = Meaningful(net \cup {d}, arrived)
    BY <1>2, <1>4 DEF rawSend
  <1>7. net \cup {d} \subseteq [to : Sides, n : Nat, key : {Plain, FullKey(m)}]
    BY <1>5 DEF Login, Types
  <1>8. \A e \in net \cup {d} : /\ e.n <= sent'[Other(e.to)] /\ e.n \in Nat
                                /\ e.to \in Sides
                                /\ e.key # Plain => peer["server"].active
    <2> SUFFICES ASSUME NEW e \in net \cup {d}
                 PROVE  /\ e.n <= sent'[Other(e.to)] /\ e.n \in Nat /\ e.to \in Sides
                        /\ e.key # Plain => peer["server"].active
      OBVIOUS
    <2>1. e.n \in Nat /\ e.to \in Sides
      BY <1>7
    <2>2. CASE e = d
      BY <1>1, <1>3, <1>5, <2>1, <2>2
    <2>3. CASE e \in net
      <3>1. e.n <= sent[Other(e.to)] /\ (e.key # Plain => peer["server"].active)
        BY <2>3 DEF Login, Heard, Switch
      <3>2. Other(e.to) \in Sides /\ sent[Other(e.to)] \in Nat /\ sent'[Other(e.to)] \in Nat
        BY <2>1 DEF Login, Types, Sides, Other
      <3>3. sent[Other(e.to)] <= sent'[Other(e.to)]
        BY <3>2
      <3> QED BY <2>1, <3>1, <3>2, <3>3
    <2> QED BY <2>2, <2>3
  <1>9. \A e \in net' : /\ e \in [to : Sides, n : Nat, key : {Plain, FullKey(m)}]
                        /\ e.n <= sent'[Other(e.to)]
                        /\ e.key # Plain => peer["server"].active
    <2> SUFFICES ASSUME NEW e \in net'
                 PROVE  /\ e \in [to : Sides, n : Nat, key : {Plain, FullKey(m)}]
                        /\ e.n <= sent'[Other(e.to)]
                        /\ e.key # Plain => peer["server"].active
      OBVIOUS
    <2>1. /\ e \in [to : Sides, n : Nat, key : {Plain, FullKey(m)}]
          /\ \E c \in net \cup {d} : e.to = c.to /\ e.key = c.key /\ e.n \in {0, c.n}
      BY <1>6, <1>7, MeaningfulIs, ZenonT(30)
    <2>2. PICK c \in net \cup {d} : e.to = c.to /\ e.key = c.key /\ e.n \in {0, c.n}
      BY <2>1
    <2>3. c.n <= sent'[Other(e.to)] /\ c.n \in Nat /\ (e.key # Plain => peer["server"].active)
      BY <1>8, <2>2
    <2>4. sent'[Other(e.to)] \in Nat
      <3>1. e.to \in Sides
        BY <2>1
      <3> QED BY <3>1 DEF Sides, Other
    <2> QED BY <2>1, <2>2, <2>3, <2>4
  <1>10. Types(m)'
    BY <1>9 DEF Login, Types
  <1>11. Spoken(m)'
    BY DEF Login, Spoken
  <1>12. Heard(m)'
    <2>1. \A z \in Sides : \A i \in arrived[z] : i \in 1 .. sent'[Other(z)]
      <3> SUFFICES ASSUME NEW z \in Sides, NEW i \in arrived[z]
                   PROVE  i \in 1 .. sent'[Other(z)]
        OBVIOUS
      <3>1. Other(z) \in Sides
        BY DEF Sides, Other
      <3>2. PICK o \in Sides, old \in Nat, new \in Nat :
                o = Other(z) /\ old = sent[o] /\ new = sent'[o] /\ old <= new
        BY <3>1 DEF Login, Types
      <3>3. i \in 1 .. old
        BY <3>2 DEF Login, Heard
      <3>4. i \in 1 .. new
        BY <3>2, <3>3
      <3> QED BY <3>2, <3>4
    <2> QED BY <1>9, <2>1 DEF Login, Heard
  <1>13. Known(m)'
    BY DEF Login, Known
  <1>14. Switch(m)'
    BY <1>9 DEF Login, Switch
  <1> QED BY <1>10, <1>11, <1>12, <1>13, <1>14 DEF Login

LEMMA SendsKeep ==
    ASSUME NEW m \in Mechs, Login(m), NEW side \in Sides,
           \/ sendPackets(side) \/ SendOther(side)
           \/ \E n \in 1 .. Len(log[side]) : resendReliable(side, n)
    PROVE  Login(m)'
  <1>1. /\ sent \in [Sides -> Nat] /\ \A z \in Sides : sent[z] <= Len(log[z]) /\ Len(log[z]) \in Nat
    BY DEF Login, Types, Heard
  <1>2. PICK s \in Nat : s = sent[side]
    BY <1>1
  <1>3. CASE sendPackets(side)
    <2>1. /\ sent' = [sent EXCEPT ![side] = s + 1] /\ s < Len(log[side]) /\ rawSend(side, s + 1)
          /\ UNCHANGED <<client, user, peer, queue, pending, log, handled, arrived>>
      BY <1>2, <1>3 DEF sendPackets, mainVars
    <2>2. s + 1 \in Nat /\ sent' \in [Sides -> Nat] /\ s + 1 <= sent'[side]
      BY <1>1, <2>1
    <2>3. \A z \in Sides : sent[z] <= sent'[z] /\ sent'[z] <= Len(log[z])
      <3> SUFFICES ASSUME NEW z \in Sides
                   PROVE  sent[z] <= sent'[z] /\ sent'[z] <= Len(log[z])
        OBVIOUS
      <3>1. CASE z = side
        BY <1>1, <1>2, <2>1, <3>1
      <3>2. CASE z # side
        BY <1>1, <2>1, <3>2
      <3> QED BY <3>1, <3>2
    <2> QED BY <2>1, <2>2, <2>3, LeavesInForce
  <1>4. ASSUME NEW n \in Nat, n <= sent[side], rawSend(side, n),
               UNCHANGED <<client, user, peer, queue, pending, log, handled, arrived, sent>>
        PROVE  Login(m)'
    <2>1. sent' \in [Sides -> Nat] /\ n <= sent'[side]
      BY <1>1, <1>4
    <2>2. \A z \in Sides : sent[z] <= sent'[z] /\ sent'[z] <= Len(log[z])
      BY <1>1, <1>4
    <2> QED BY <1>4, <2>1, <2>2, LeavesInForce
  <1>5. CASE SendOther(side)
    <2>1. 0 \in Nat /\ 0 <= sent[side]
      BY <1>2
    <2> QED BY <1>4, <1>5, <2>1 DEF SendOther, mainVars, sendVars
  <1>6. CASE \E n \in 1 .. Len(log[side]) : resendReliable(side, n)
    <2>1. PICK n \in 1 .. Len(log[side]) : resendReliable(side, n)
      BY <1>6
    <2>2. n \in Nat
      BY <1>1, <2>1
    <2> QED BY <1>4, <2>1, <2>2 DEF resendReliable, mainVars, sendVars
  <1> QED BY <1>3, <1>5, <1>6

\* The state of the encryption is switched, with the keys as they are.
LEMMA Activated ==
    ASSUME NEW m \in Mechs, Login(m), NEW side \in Sides, NEW b \in BOOLEAN,
           peer' = [peer EXCEPT ![side].active = b]
    PROVE  /\ peer' = [z \in Sides |-> PeerAt(m, z, handled[z], peer'[z].active)]
           /\ \A z \in Sides : peer'[z].active = IF z = side THEN b ELSE peer[z].active
  <1>1. peer = [z \in Sides |-> PeerAt(m, z, handled[z], peer[z].active)]
    BY DEF Login, Known
  <1>2. PICK r : r = peer[side]
    OBVIOUS
  <1>3. peer' = [peer EXCEPT ![side] = [r EXCEPT !.active = b]]
    BY <1>2
  <1>4. [r EXCEPT !.active = b] = PeerAt(m, side, handled[side], b)
    <2>1. PICK a : a = peer[side].active
      OBVIOUS
    <2>2. r = PeerAt(m, side, handled[side], a)
      BY <1>1, <1>2, <2>1
    <2>3. PICK s, key : \A x : PeerAt(m, side, handled[side], x)
                                 = [active |-> x, srp |-> s, key |-> key]
      BY Zenon DEF PeerAt
    <2>4. r = [active |-> a, srp |-> s, key |-> key]
      BY <2>2, <2>3
    <2>5. [[active |-> a, srp |-> s, key |-> key] EXCEPT !.active = b]
            = [active |-> b, srp |-> s, key |-> key]
      OBVIOUS
    <2> QED BY <2>3, <2>4, <2>5, Zenon
  <1>5. peer' = [z \in Sides |-> PeerAt(m, z, handled[z], IF z = side THEN b ELSE peer[z].active)]
    BY <1>1, <1>3, <1>4
  <1>6. \A z \in Sides : peer'[z].active = IF z = side THEN b ELSE peer[z].active
    BY <1>5 DEF PeerAt
  <1> QED BY <1>5, <1>6

LEMMA RunCommandsKeeps ==
    ASSUME NEW m \in Mechs, Login(m), NEW side \in Sides, RunCommands(side)
    PROVE  Login(m)'
  <1>1. PICK pk, act, l : pk = queue[side].packets /\ act = queue[side].activate /\ l = log[side]
    OBVIOUS
  <1>2. /\ pk \in Seq(Words(m)) /\ act \in BOOLEAN /\ l \in Seq(Words(m))
        /\ Stream(m, side, l, pk, Said(m, side, handled[side]))
        /\ handled[side] \in Nat
    BY <1>1 DEF Login, Types, Spoken
  <1>3. /\ log' = [log EXCEPT ![side] = l \o pk]
        /\ pending' = [pending EXCEPT ![side] = act]
        /\ queue' = [queue EXCEPT ![side] = Commands(<< >>, FALSE)]
        /\ UNCHANGED <<client, user, handled, changes, peer, sent, arrived, net>>
    BY <1>1 DEF RunCommands, mainVars
  <1>4. Said(m, side, handled[side]) \in Nat
    <2>1. ClientSaid(m, handled[side]) \in Nat /\ ServerSaid(m, handled[side]) \in 0 .. ChallengeNo(m) + 3
          /\ ChallengeNo(m) \in 0 .. 1
      BY <1>2, SaidTypes, Shape
    <2>2. ServerSaid(m, handled[side]) \in Nat
      BY <2>1
    <2> QED BY <2>1, <2>2 DEF Said
  <1>5. PICK ll : ll = l \o pk
    OBVIOUS
  <1>6. /\ ll \in Seq(Words(m)) /\ Stream(m, side, ll, << >>, Said(m, side, handled[side]))
        /\ Len(l) <= Len(ll)
    BY <1>2, <1>4, <1>5, StreamTaken
  <1>7. PICK e : e = << >> /\ e \in Seq(Words(m))
    <2>1. << >> \in Seq(Words(m))
      OBVIOUS
    <2> QED BY <2>1
  <1>8. PICK f : f = FALSE /\ f \in BOOLEAN
    OBVIOUS
  <1>9. /\ log' = [log EXCEPT ![side] = ll]
        /\ queue' = [queue EXCEPT ![side] = Commands(e, f)]
    BY <1>3, <1>5, <1>7, <1>8
  <1>10. Types(m)'
    <2>1. Commands(e, f) \in [packets : Seq(Words(m)), activate : BOOLEAN]
      BY <1>7, <1>8 DEF Commands
    <2>2. queue' \in [Sides -> [packets : Seq(Words(m)), activate : BOOLEAN]]
      BY <1>9, <2>1 DEF Login, Types
    <2>3. log' \in [Sides -> Seq(Words(m))]
      BY <1>6, <1>9 DEF Login, Types
    <2>4. pending' \in [Sides -> BOOLEAN]
      BY <1>2, <1>3 DEF Login, Types
    <2> QED BY <1>3, <2>2, <2>3, <2>4 DEF Login, Types
  <1>11. Spoken(m)'
    <2> SUFFICES ASSUME NEW z \in Sides
                 PROVE  Stream(m, z, log'[z], queue'[z].packets, Said(m, z, handled[z]))
      BY <1>3 DEF Spoken
    <2>1. CASE z = side
      <3>1. log'[z] = ll /\ queue'[z] = Commands(e, f)
        BY <1>9, <2>1 DEF Login, Types
      <3>2. Commands(e, f).packets = e
        BY DEF Commands
      <3> QED BY <1>6, <1>7, <2>1, <3>1, <3>2
    <2>2. CASE z # side
      <3>1. log'[z] = log[z] /\ queue'[z] = queue[z]
        BY <1>9, <2>2 DEF Login, Types
      <3> QED BY <3>1 DEF Login, Spoken
    <2> QED BY <2>1, <2>2
  <1>12. Heard(m)'
    <2>1. \A z \in Sides : sent[z] <= Len(log'[z])
      <3> SUFFICES ASSUME NEW z \in Sides
                   PROVE  sent[z] <= Len(log'[z])
        OBVIOUS
      <3>1. CASE z = side
        <4>1. log'[z] = ll
          BY <1>9, <3>1 DEF Login, Types
        <4>2. sent[z] <= Len(l) /\ sent[z] \in Nat /\ Len(l) \in Nat /\ Len(ll) \in Nat
          BY <1>1, <1>2, <1>6, <3>1 DEF Login, Heard, Types
        <4> QED BY <1>6, <4>1, <4>2
      <3>2. CASE z # side
        <4>1. log'[z] = log[z]
          BY <1>9, <3>2 DEF Login, Types
        <4> QED BY <4>1 DEF Login, Heard
      <3> QED BY <3>1, <3>2
    <2> QED BY <1>3, <2>1 DEF Login, Heard
  <1>13. Known(m)'
    BY <1>3 DEF Login, Known
  <1>14. Switch(m)'
    <2>1. "client" \in Sides /\ "server" \in Sides
      BY DEF Sides
    <2>2. Commands(e, f).activate = FALSE
      BY <1>8 DEF Commands
    <2>3. \A z \in Sides : queue'[z].activate => queue[z].activate
      BY <1>9, <2>2 DEF Login, Types
    <2>4. \A z \in Sides : pending'[z] => pending[z] \/ queue[z].activate
      BY <1>1, <1>2, <1>3 DEF Login, Types
    <2> QED BY <1>3, <2>1, <2>3, <2>4 DEF Login, Switch
  <1> QED BY <1>10, <1>11, <1>12, <1>13, <1>14 DEF Login

LEMMA ActivatePendingKeeps ==
    ASSUME NEW m \in Mechs, Login(m), NEW side \in Sides, ActivatePending(side)
    PROVE  Login(m)'
  <1>1. /\ pending[side] /\ peer' = [peer EXCEPT ![side].active = TRUE]
        /\ pending' = [pending EXCEPT ![side] = FALSE]
        /\ UNCHANGED <<client, user, handled, changes, queue, log, sent, arrived, net>>
    BY DEF ActivatePending, mainVars
  <1>2. side = "server"
    BY <1>1 DEF Login, Switch, Sides
  <1>3. PICK b \in BOOLEAN : b = TRUE
    OBVIOUS
  <1>4. /\ peer' = [z \in Sides |-> PeerAt(m, z, handled[z], peer'[z].active)]
        /\ \A z \in Sides : peer'[z].active = IF z = side THEN b ELSE peer[z].active
    <2>1. peer' = [peer EXCEPT ![side].active = b]
      BY <1>1, <1>3
    <2> QED BY <2>1, Activated
  <1>5. peer'["server"].active /\ peer'["client"].active = peer["client"].active
    BY <1>2, <1>3, <1>4 DEF Sides
  <1>6. Types(m)'
    <2>1. \A z \in Sides : peer'[z].active \in BOOLEAN
      BY <1>4 DEF Login, Types
    <2> QED BY <1>1, <2>1 DEF Login, Types
  <1>7. Spoken(m)' /\ Heard(m)'
    BY <1>1 DEF Login, Spoken, Heard
  <1>8. Known(m)'
    BY <1>1, <1>4 DEF Login, Known
  <1>9. Switch(m)'
    <2>1. handled["server"] >= FullKeyAt(m, "server")
      BY <1>1, <1>2 DEF Login, Switch
    <2>2. ~pending'["client"]
      BY <1>1, <1>2 DEF Login, Switch, Types, Sides
    <2> QED BY <1>1, <1>5, <2>1, <2>2 DEF Login, Switch
  <1> QED BY <1>6, <1>7, <1>8, <1>9 DEF Login

LEMMA ReceiveKeeps ==
    ASSUME NEW m \in Mechs, Login(m), NEW side \in Sides, NEW d \in net, receive(side, d)
    PROVE  Login(m)'
  <1>1. /\ d.to = side
        /\ arrived' = [arrived EXCEPT ![side] = IF d.n = 0 THEN @ ELSE @ \cup {d.n}]
        /\ peer' = [peer EXCEPT ![side].active = AutoActivated(side, d)]
        /\ net' = Meaningful(net, arrived')
        /\ UNCHANGED <<client, user, handled, changes, queue, pending, log, sent>>
    BY DEF receive, mainVars, sendVars
  <1>2. "server" \in Sides /\ "client" \in Sides /\ Sides = {"client", "server"}
    BY DEF Sides
  <1>3. PICK b \in BOOLEAN : b = AutoActivated(side, d)
    BY DEF AutoActivated, Login, Types
  <1>4. b => peer[side].active \/ peer["server"].active
    BY <1>3 DEF AutoActivated, Login, Switch
  <1>5. /\ peer' = [z \in Sides |-> PeerAt(m, z, handled[z], peer'[z].active)]
        /\ \A z \in Sides : peer'[z].active = IF z = side THEN b ELSE peer[z].active
    <2>1. peer' = [peer EXCEPT ![side].active = b]
      BY <1>1, <1>3
    <2> QED BY <2>1, Activated
  <1>6. /\ peer'["server"].active => peer["server"].active
        /\ peer["server"].active => peer'["server"].active
        /\ peer'["client"].active => peer["server"].active
    <2>1. peer["client"].active => peer["server"].active
      BY DEF Login, Switch
    <2>2. peer[side].active => b
      BY <1>3 DEF AutoActivated
    <2> QED BY <1>2, <1>4, <1>5, <2>1, <2>2
  <1>7. net \subseteq [to : Sides, n : Nat, key : {Plain, FullKey(m)}]
    BY DEF Login, Types
  <1>8. \A e \in net' : /\ e \in [to : Sides, n : Nat, key : {Plain, FullKey(m)}]
                        /\ e.n <= sent[Other(e.to)]
                        /\ e.key # Plain => peer["server"].active
    <2> SUFFICES ASSUME NEW e \in net'
                 PROVE  /\ e \in [to : Sides, n : Nat, key : {Plain, FullKey(m)}]
                        /\ e.n <= sent[Other(e.to)]
                        /\ e.key # Plain => peer["server"].active
      OBVIOUS
    <2>1. /\ e \in [to : Sides, n : Nat, key : {Plain, FullKey(m)}]
          /\ \E c \in net : e.to = c.to /\ e.key = c.key /\ e.n \in {0, c.n}
      <3>1. PICK r : r = arrived'
        OBVIOUS
      <3>2. e \in Meaningful(net, r)
        BY <1>1, <3>1
      <3> QED BY <1>7, <3>2, MeaningfulIs
    <2>2. PICK c \in net : e.to = c.to /\ e.key = c.key /\ e.n \in {0, c.n}
      BY <2>1
    <2>3. /\ c.n <= sent[Other(e.to)] /\ c.n \in Nat
          /\ e.key # Plain => peer["server"].active
      BY <1>7, <2>2 DEF Login, Heard, Switch
    <2>4. sent[Other(e.to)] \in Nat
      <3>1. e.to \in Sides /\ Other(e.to) \in Sides
        BY <2>1 DEF Sides, Other
      <3> QED BY <3>1 DEF Login, Types
    <2> QED BY <2>1, <2>2, <2>3, <2>4
  <1>9. \A z \in Sides : arrived'[z] \subseteq arrived[z] \cup (IF z = side /\ d.n # 0 THEN {d.n} ELSE {})
    BY <1>1 DEF Login, Types
  <1>10. d.n \in Nat /\ d.n <= sent[Other(side)]
    BY <1>1, <1>7 DEF Login, Heard
  <1>11. \A z \in Sides : \A i \in arrived'[z] : i \in 1 .. sent[Other(z)]
    <2> SUFFICES ASSUME NEW z \in Sides, NEW i \in arrived'[z]
                 PROVE  i \in 1 .. sent[Other(z)]
      OBVIOUS
    <2>1. Other(z) \in Sides
      BY DEF Sides, Other
    <2>2. CASE i \in arrived[z]
      BY <2>2 DEF Login, Heard
    <2>3. CASE i \notin arrived[z]
      <3>1. i = d.n /\ z = side /\ d.n # 0
        BY <1>9, <2>3
      <3>2. sent[Other(z)] \in Nat
        BY <2>1 DEF Login, Types
      <3> QED BY <1>10, <3>1, <3>2
    <2> QED BY <2>2, <2>3
  <1>12. Types(m)'
    <2>1. \A z \in Sides : peer'[z].active \in BOOLEAN
      BY <1>5 DEF Login, Types
    <2>2. arrived' \in [Sides -> SUBSET Nat]
      BY <1>1, <1>10 DEF Login, Types
    <2>3. net' \subseteq [to : Sides, n : Nat, key : {Plain, FullKey(m)}]
      BY <1>8
    <2> QED BY <1>1, <2>1, <2>2, <2>3 DEF Login, Types
  <1>13. Spoken(m)'
    BY <1>1 DEF Login, Spoken
  <1>14. Heard(m)'
    BY <1>1, <1>8, <1>11 DEF Login, Heard
  <1>15. Known(m)'
    BY <1>1, <1>5 DEF Login, Known
  <1>16. Switch(m)'
    BY <1>1, <1>6, <1>8 DEF Login, Switch
  <1> QED BY <1>12, <1>13, <1>14, <1>15, <1>16 DEF Login

-----------------------------------------------------------------------------
(* The login and what follows from it                                      *)

\* What a client sends first.
LEMMA FirstWords ==
    ASSUME NEW m \in Mechs
    PROVE  LET start == StartAuth(m, NewUser(m)) IN
           /\ start.user = UserAt(m, 0)
           /\ start.msgs \in Seq(Words(m))
           /\ Stream(m, "client", << >>, start.msgs, ClientSaid(m, 0))
  <1>0. PICK start : start = StartAuth(m, NewUser(m))
    OBVIOUS
  <1>1. PICK x, o, f : x = Exchanges(m) /\ o = OwnSecret(m) /\ f = FALSE
    OBVIOUS
  <1>2. NewUser(m) = UserRecord(m, m, None, None, NoKey, 0, 0, f)
    <2>1. PICK u : u = NewUser(m)
      OBVIOUS
    <2> QED BY <1>1, <2>1 DEF NewUser, UserRecord
  <1>3. UserAt(m, 0) = UserRecord(m, m, o, None, NoKey, x, 0, f)
    <2>1. UserAt(m, 0) = UserRecord(m, m, OwnSecret(m), None, NoKey, Exchanges(m), 0, FALSE)
      BY UserAtIs
    <2> QED BY <1>1, <2>1, Zenon
  <1>4. PICK u : u = UserRecord(m, m, None, None, NoKey, 0, 0, f)
    OBVIOUS
  <1>5. u.exchanges = 0 /\ SrpSecret = Secret("srp", u.exchanges + 1)
    BY <1>4 DEF UserRecord, SrpSecret
  <1>6. PICK a : a = SrpSecret
    OBVIOUS
  <1>7. [[[u EXCEPT !.mech = m] EXCEPT !.auth_data = a] EXCEPT !.exchanges = 1]
          = UserRecord(m, m, a, None, NoKey, 1, 0, f)
    <2>1. [u EXCEPT !.mech = m] = UserRecord(m, m, None, None, NoKey, 0, 0, f)
      BY <1>4 DEF UserRecord
    <2>2. [UserRecord(m, m, None, None, NoKey, 0, 0, f) EXCEPT !.auth_data = a]
            = UserRecord(m, m, a, None, NoKey, 0, 0, f)
      BY DEF UserRecord
    <2>3. [UserRecord(m, m, a, None, NoKey, 0, 0, f) EXCEPT !.exchanges = 1]
            = UserRecord(m, m, a, None, NoKey, 1, 0, f)
      BY DEF UserRecord
    <2> QED BY <2>1, <2>2, <2>3, Zenon
  <1>8. [u EXCEPT !.mech = m, !.auth_data = a, !.exchanges = @ + 1]
          = [[[u EXCEPT !.mech = m] EXCEPT !.auth_data = a] EXCEPT !.exchanges = 1]
    BY <1>4, <1>5 DEF UserRecord
  <1>9. [u EXCEPT !.mech = m] = u
    BY <1>4 DEF UserRecord
  <1>10. ClientSaid(m, 0) = ProofNo(m) - ChallengeNo(m)
    BY Shape DEF ClientSaid
  <1>11. PICK e : e = << >> /\ e \in Seq(Words(m)) /\ Len(e) = 0
    <2>1. << >> \in Seq(Words(m)) /\ Len(<< >>) = 0
      OBVIOUS
    <2> QED BY <2>1
  <1>12. Stream(m, "client", e, e, 0)
    BY <1>11 DEF Stream
  <1>13. ASSUME NEW w, w = ClientSays(m, 1)
         PROVE  e \o <<w>> \in Seq(Words(m)) /\ Stream(m, "client", e, e \o <<w>>, 1)
    <2>1. w = Says(m, "client", 0 + 1) /\ "client" \in Sides /\ 0 \in Nat
      BY <1>13 DEF Says, Sides
    <2>2. e \o <<w>> \in Seq(Words(m)) /\ Stream(m, "client", e, e \o <<w>>, 0 + 1)
      BY <1>11, <1>12, <2>1, StreamGoesOnByOne
    <2> QED BY <2>2
  <1>14. \A w : e \o <<w>> = <<w>>
    BY <1>11
  <1>15. \A v, w : e \o <<v, w>> = <<v, w>>
    BY <1>11
  <1>16. CASE m = "SRP"
    <2>1. /\ ProofNo(m) = 2 /\ ChallengeNo(m) = 1 /\ m \in SrpMechs
          /\ x = 1 /\ o = a
      BY <1>1, <1>6, <1>16, Shape DEF Exchanges, OwnSecret, SrpMechs
    <2>2. PICK w : w = Message("SRP_BYTES_A", a)
      OBVIOUS
    <2>3. StartAuth(m, u) = [user |-> UserRecord(m, m, a, None, NoKey, 1, 0, f), msgs |-> <<w>>]
      BY <1>5, <1>6, <1>7, <1>8, <1>16, <2>2 DEF StartAuth
    <2>4. w = ClientSays(m, 1)
      BY <1>6, <2>1, <2>2 DEF ClientSays, Asks
    <2>5. ClientSaid(m, 0) = 1
      BY <1>10, <2>1
    <2>6. start.user = UserAt(m, 0) /\ start.msgs = <<w>>
      <3>1. start = StartAuth(m, u)
        BY <1>2, <1>4, <1>0, Zenon
      <3>2. start.user = UserRecord(m, m, o, None, NoKey, x, 0, f) /\ start.msgs = <<w>>
        BY <1>4, <2>1, <2>3, <3>1
      <3> QED BY <1>3, <3>2
    <2>7. <<w>> \in Seq(Words(m)) /\ Stream(m, "client", e, <<w>>, ClientSaid(m, 0))
      BY <1>13, <1>14, <2>4, <2>5
    <2> QED BY <1>11, <1>0, <2>6, <2>7
  <1>17. CASE m = "FIRST_SRP"
    <2>1. /\ ProofNo(m) = 3 /\ ChallengeNo(m) = 1 /\ m \in SrpMechs
          /\ x = 1 /\ o = a
      BY <1>1, <1>6, <1>17, Shape DEF Exchanges, OwnSecret, SrpMechs
    <2>2. PICK v, w : v = Message("FIRST_SRP", None) /\ w = Message("SRP_BYTES_A", a)
      OBVIOUS
    <2>3. StartAuth(m, u) = [user |-> UserRecord(m, m, a, None, NoKey, 1, 0, f), msgs |-> <<v, w>>]
      BY <1>5, <1>6, <1>7, <1>8, <1>17, <2>2 DEF StartAuth
    <2>4. v = Says(m, "client", 0 + 1) /\ w = Says(m, "client", 0 + 2) /\ "client" \in Sides
      BY <1>6, <2>1, <2>2 DEF ClientSays, Asks, Says, Sides
    <2>5. ClientSaid(m, 0) = 2
      BY <1>10, <2>1
    <2>6. e \o <<v, w>> \in Seq(Words(m)) /\ Stream(m, "client", e, e \o <<v, w>>, 0 + 2)
      BY <1>11, <1>12, <2>4, StreamGoesOnByTwo
    <2>7. start.user = UserAt(m, 0) /\ start.msgs = <<v, w>>
      <3>1. start = StartAuth(m, u)
        BY <1>2, <1>4, <1>0, Zenon
      <3>2. start.user = UserRecord(m, m, o, None, NoKey, x, 0, f) /\ start.msgs = <<v, w>>
        BY <1>4, <2>1, <2>3, <3>1
      <3> QED BY <1>3, <3>2
    <2>8. <<v, w>> \in Seq(Words(m)) /\ Stream(m, "client", e, <<v, w>>, ClientSaid(m, 0))
      <3>1. e \o <<v, w>> = <<v, w>>
        BY <1>15
      <3>2. PICK vw : vw = <<v, w>>
        OBVIOUS
      <3>3. e \o vw \in Seq(Words(m)) /\ Stream(m, "client", e, e \o vw, ClientSaid(m, 0))
        BY <2>5, <2>6, <3>2
      <3>4. e \o vw = vw
        BY <3>1, <3>2
      <3> QED BY <3>2, <3>3, <3>4, Zenon
    <2> QED BY <1>11, <1>0, <2>7, <2>8
  <1>18. CASE m \in {"KEYPAIR_LOGIN", "KEYPAIR_REGISTER"}
    <2>1. x = 0 /\ o = None /\ ProofNo(m) - ChallengeNo(m) = 1 /\ m \notin SrpMechs
      BY <1>1, <1>18, Shape DEF Exchanges, OwnSecret, SrpMechs
    <2>2. PICK w : w = Message(m, None)
      OBVIOUS
    <2>3. StartAuth(m, u) = [user |-> u, msgs |-> <<w>>]
      BY <1>9, <1>18, <2>2 DEF StartAuth
    <2>4. w = ClientSays(m, 1)
      <3>1. CASE m = "KEYPAIR_LOGIN"
        BY <2>1, <2>2, <3>1, Shape DEF ClientSays, Asks
      <3>2. CASE m = "KEYPAIR_REGISTER"
        BY <2>1, <2>2, <3>2, Shape DEF ClientSays, Proves
      <3> QED BY <1>18, <3>1, <3>2
    <2>5. ClientSaid(m, 0) = 1
      BY <1>10, <2>1
    <2>6. start.user = UserAt(m, 0) /\ start.msgs = <<w>>
      <3>1. start = StartAuth(m, u)
        BY <1>2, <1>4, <1>0, Zenon
      <3>2. start.user = UserRecord(m, m, o, None, NoKey, x, 0, f) /\ start.msgs = <<w>>
        BY <1>4, <2>1, <2>3, <3>1
      <3> QED BY <1>3, <3>2
    <2>7. <<w>> \in Seq(Words(m)) /\ Stream(m, "client", e, <<w>>, ClientSaid(m, 0))
      BY <1>13, <1>14, <2>4, <2>5
    <2> QED BY <1>11, <1>0, <2>6, <2>7
  <1> QED BY <1>16, <1>17, <1>18, SessionAssumption

LEMMA LoginBegins ==
    ASSUME Init
    PROVE  LoginInv
  <1>1. PICK m \in Mechs :
            LET start == StartAuth(m, NewUser(m)) IN
            /\ user = start.user
            /\ queue = [side \in Sides |->
                           Commands(IF side = "client" THEN start.msgs ELSE << >>, FALSE)]
    BY DEF Init
  <1>2. PICK msgs, e, f : msgs = StartAuth(m, NewUser(m)).msgs /\ e = << >> /\ f = FALSE
    OBVIOUS
  <1>3. e \in Seq(Words(m)) /\ Len(e) = 0 /\ f \in BOOLEAN
    <2>1. << >> \in Seq(Words(m)) /\ Len(<< >>) = 0
      OBVIOUS
    <2> QED BY <1>2, <2>1
  <1>4. /\ user = UserAt(m, 0) /\ msgs \in Seq(Words(m))
        /\ Stream(m, "client", e, msgs, ClientSaid(m, 0))
    BY <1>1, <1>2, FirstWords
  <1>5. queue = [side \in Sides |-> Commands(IF side = "client" THEN msgs ELSE e, f)]
    BY <1>1, <1>2
  <1>6. /\ client = NewClient
        /\ peer = [side \in Sides |-> [active |-> f, srp |-> None, key |-> NoKey]]
        /\ pending = [side \in Sides |-> f]
        /\ log = [side \in Sides |-> e]
        /\ sent = [side \in Sides |-> 0]
        /\ arrived = [side \in Sides |-> {}]
        /\ handled = [side \in Sides |-> 0]
        /\ net = {} /\ changes = 0
    BY <1>2 DEF Init
  <1>7. "client" \in Sides /\ "server" \in Sides /\ Sides = {"client", "server"}
    BY DEF Sides
  <1>8. PICK p \in 0 .. 1, q \in 1 .. 3 : p = ChallengeNo(m) /\ q = ProofNo(m) /\ q > p
    BY Shape
  <1>9. ClientSaid(m, 0) \in Nat /\ ServerSaid(m, 0) = 0
    <2>1. ClientSaid(m, 0) \in Nat
      BY SaidTypes
    <2>2. ~(0 > q) /\ 0 # q /\ ~(0 >= q - p)
      BY <1>8
    <2> QED BY <1>8, <2>1, <2>2 DEF ServerSaid
  <1>10. \A z \in Sides : queue[z] = Commands(IF z = "client" THEN msgs ELSE e, f)
    BY <1>5
  <1>11. /\ queue["client"].packets = msgs /\ queue["server"].packets = e
         /\ \A z \in Sides : queue[z].activate = f
    <2>1. queue["client"] = Commands(msgs, f) /\ queue["server"] = Commands(e, f)
      BY <1>7, <1>10
    <2> QED BY <1>7, <2>1 DEF Commands
  <1>12. Types(m)
    <2>1. queue \in [Sides -> [packets : Seq(Words(m)), activate : BOOLEAN]]
      <3>1. \A z \in Sides : queue[z] \in [packets : Seq(Words(m)), activate : BOOLEAN]
        <4>1. ASSUME NEW v \in Seq(Words(m))
              PROVE  Commands(v, f) \in [packets : Seq(Words(m)), activate : BOOLEAN]
          BY <1>3 DEF Commands
        <4> QED BY <1>3, <1>4, <1>10, <4>1
      <3> QED BY <1>5, <3>1
    <2>2. \A z \in Sides : peer[z].active \in BOOLEAN
      BY <1>3, <1>6
    <2> QED BY <1>3, <1>6, <2>1, <2>2 DEF Types
  <1>13. Spoken(m)
    <2>1. Stream(m, "client", log["client"], queue["client"].packets, Said(m, "client", handled["client"]))
      BY <1>4, <1>6, <1>7, <1>11 DEF Said
    <2>2. Stream(m, "server", e, e, 0)
      BY <1>3 DEF Stream
    <2>3. Stream(m, "server", log["server"], queue["server"].packets, Said(m, "server", handled["server"]))
      BY <1>6, <1>7, <1>9, <1>11, <2>2 DEF Said
    <2> QED BY <1>7, <2>1, <2>3 DEF Spoken
  <1>14. Heard(m)
    <2>1. \A z \in Sides : 0 <= Said(m, Other(z), handled[Other(z)])
      <3>1. \A z \in Sides : Other(z) \in Sides
        BY DEF Sides, Other
      <3>2. \A z \in Sides : handled[Other(z)] = 0
        BY <1>6, <3>1
      <3> QED BY <1>9, <3>2 DEF Said
    <2> QED BY <1>3, <1>6, <2>1 DEF Heard
  <1>15. Known(m)
    <2>1. client = ClientAt(m, 0)
      <3>1. NewClient = ClientRecord("HelloSent", "NONE", None, None, None, 0)
        BY DEF NewClient, ClientRecord
      <3>2. 0 < q /\ ~(m \in SrpMechs /\ 0 = q - 1)
        BY <1>8, Shape DEF SrpMechs
      <3>3. ClientAt(m, 0) = ClientRecord("HelloSent", "NONE", None, None, None, 0)
        BY <1>8, <3>2, ClientAtIs
      <3> QED BY <1>6, <3>1, <3>3
    <2>2. \A z \in Sides : PeerAt(m, z, 0, f) = [active |-> f, srp |-> None, key |-> NoKey]
      <3>1. 0 < ProofNo(m) /\ 0 <= ChallengeNo(m)
        BY <1>8
      <3>2. PeerAt(m, "server", 0, f) = [active |-> f, srp |-> None, key |-> NoKey]
        BY <3>1, ServerPeerIs
      <3>3. PeerAt(m, "client", 0, f) = [active |-> f, srp |-> None, key |-> NoKey]
        BY <3>1, ClientPeerIs
      <3> QED BY <1>7, <3>2, <3>3
    <2>3. \A z \in Sides : peer[z].active = f /\ handled[z] = 0
      BY <1>6
    <2>4. peer = [z \in Sides |-> PeerAt(m, z, handled[z], peer[z].active)]
      <3>1. \A z \in Sides : PeerAt(m, z, handled[z], peer[z].active)
                               = [active |-> f, srp |-> None, key |-> NoKey]
        BY <2>2, <2>3
      <3> QED BY <1>6, <3>1
    <2>5. handled["server"] = 0 /\ handled["client"] = 0
      BY <1>6, <1>7
    <2> QED BY <1>4, <2>1, <2>4, <2>5 DEF Known
  <1>16. Switch(m)
    <2>1. \A z \in Sides : ~peer[z].active /\ ~pending[z] /\ ~queue[z].activate
      BY <1>2, <1>6, <1>11
    <2> QED BY <1>6, <1>7, <2>1 DEF Switch
  <1> QED BY <1>6, <1>12, <1>13, <1>14, <1>15, <1>16 DEF LoginInv, Login

\* No step of the login leaves the conversation, and none of the steps after it
\* takes a change of the password back.
LEMMA LoginGoesOn ==
    ASSUME FALSE \notin KeygenResults, LoginInv, [Next]_vars
    PROVE  LoginInv'
  <1>1. changes \in Nat /\ (changes = 0 => \E m \in Mechs : Login(m))
    BY DEF LoginInv
  <1>2. CASE sendChangePassword
    <2>1. changes' \in Nat /\ changes' # 0
      BY <1>1, <1>2 DEF sendChangePassword
    <2> QED BY <2>1 DEF LoginInv
  <1>3. CASE UNCHANGED vars
    <2>1. UNCHANGED <<client, user, peer, queue, pending, log, sent, arrived, handled, net, changes>>
      BY <1>3 DEF vars, mainVars, sendVars
    <2>2. \A m \in Mechs : Login(m) => Login(m)'
      BY <2>1 DEF Login, Types, Spoken, Heard, Known, Switch
    <2> QED BY <1>1, <2>1, <2>2 DEF LoginInv
  <1>4. ASSUME \/ ServerHandlers \/ ClientHandlers
               \/ \E side \in Sides : SendThread(side) \/ ReceiveThread(side)
        PROVE  LoginInv'
    <2>1. changes' = changes
      <3>1. ServerHandlers => changes' = changes
        BY DEF ServerHandlers, FirstSrp, SrpBytesA, SrpBytesM, KeypairRegister, KeypairLogin,
               KeypairResponse, EcdhPubkeyToServer, Init2, ClientReady
      <3>2. ClientHandlers => changes' = changes
        BY DEF ClientHandlers, SrpBytesSandB, KeypairChallenge, AuthAccept, EcdhPubkeyToClient,
               Definitions, AcceptSudoMode, DenySudoMode
      <3>3. \A side \in Sides : SendThread(side) => changes' = changes
        BY DEF SendThread, RunCommands, sendPackets, SendOther, ActivatePending, resendReliable,
               mainVars
      <3>4. \A side \in Sides : ReceiveThread(side) => changes' = changes
        BY DEF ReceiveThread, receive, mainVars
      <3> QED BY <1>4, <3>1, <3>2, <3>3, <3>4
    <2>2. ASSUME NEW m \in Mechs, Login(m)
          PROVE  Login(m)'
      <3>1. CASE ServerHandlers
        BY <2>2, <3>1, ServerKeeps
      <3>2. CASE ClientHandlers
        BY <2>2, <3>2, ClientKeeps
      <3>3. ASSUME NEW side \in Sides, SendThread(side)
            PROVE  Login(m)'
        BY <2>2, <3>3, RunCommandsKeeps, ActivatePendingKeeps, SendsKeep DEF SendThread
      <3>4. ASSUME NEW side \in Sides, ReceiveThread(side)
            PROVE  Login(m)'
        BY <2>2, <3>4, ReceiveKeeps DEF ReceiveThread
      <3> QED BY <1>4, <3>1, <3>2, <3>3, <3>4
    <2> QED BY <1>1, <2>1, <2>2 DEF LoginInv
  <1> QED BY <1>2, <1>3, <1>4 DEF Next

LEMMA LoginReadable ==
    ASSUME LoginInv
    PROVE  Decryptable
  <1> SUFFICES ASSUME changes = 0, NEW d \in net
               PROVE  Readable(d.to, d)
    BY DEF Decryptable
  <1>1. PICK m \in Mechs : Login(m)
    BY DEF LoginInv
  <1>2. d.to \in Sides /\ d.key \in {Plain, FullKey(m)}
    BY <1>1 DEF Login, Types
  <1>3. CASE d.key = Plain
    BY <1>3 DEF Readable
  <1>4. CASE d.key # Plain
    <2>1. peer["server"].active
      BY <1>1, <1>4 DEF Login, Switch
    <2>2. peer[d.to] = [active |-> peer[d.to].active, srp |-> AuthSecret(m), key |-> FullKey(m)]
      BY <1>1, <1>2, <2>1, FullKeyInForce
    <2>3. peer[d.to].key = FullKey(m)
      BY <2>2
    <2> QED BY <1>2, <1>4, <2>3, KeysDiffer DEF Readable
  <1> QED BY <1>3, <1>4

LEMMA LoginFollows ==
    ASSUME LoginInv
    PROVE  ClientFollows
  <1> SUFFICES ASSUME changes = 0, peer["client"].active
               PROVE  /\ peer["server"] = peer["client"]
                      /\ peer["client"].key.auth # None /\ peer["client"].key.ecdh # None
    BY DEF ClientFollows
  <1>1. PICK m \in Mechs : Login(m)
    BY DEF LoginInv
  <1>2. /\ peer["server"].active = TRUE /\ peer["client"].active = TRUE
        /\ "server" \in Sides /\ "client" \in Sides
    BY <1>1 DEF Login, Switch, Types, Sides
  <1>3. \A side \in Sides :
            peer[side] = [active |-> peer[side].active, srp |-> AuthSecret(m), key |-> FullKey(m)]
    BY <1>1, <1>2, FullKeyInForce
  <1>4. PICK a, b : a = peer["server"].active /\ b = peer["client"].active /\ a = b
    BY <1>2
  <1>5. /\ peer["server"] = [active |-> a, srp |-> AuthSecret(m), key |-> FullKey(m)]
        /\ peer["client"] = [active |-> b, srp |-> AuthSecret(m), key |-> FullKey(m)]
    BY <1>2, <1>3, <1>4
  <1>6. peer["server"] = peer["client"] /\ peer["client"].key = FullKey(m)
    BY <1>4, <1>5
  <1> QED BY <1>6, KeysDiffer

\* From the login to the first change of the password, every datagram that is
\* encrypted, sent again or delayed as it may be, finds a reader with the key:
\* Connection::Send, rawSend and processPackets between them lose nothing to
\* the transition.  The server's key generation must not fail (acceptAuth goes
\* on without the exchange when it does, and then the two keys differ).
THEOREM WhatIsSentCanBeRead ==
    ASSUME FALSE \notin KeygenResults
    PROVE  Spec => []Decryptable
  <1>1. Init => LoginInv
    BY LoginBegins
  <1>2. LoginInv /\ [Next]_vars => LoginInv'
    BY LoginGoesOn
  <1>3. LoginInv => Decryptable
    BY LoginReadable
  <1> QED BY <1>1, <1>2, <1>3, PTL DEF Spec

\* Up to there a client that encrypts has a server that does, with the same
\* keys, made of the authentication and of the exchange.
THEOREM ServerEncryptsFirst ==
    ASSUME FALSE \notin KeygenResults
    PROVE  Spec => []ClientFollows
  <1>1. Init => LoginInv
    BY LoginBegins
  <1>2. LoginInv /\ [Next]_vars => LoginInv'
    BY LoginGoesOn
  <1>3. LoginInv => ClientFollows
    BY LoginFollows
  <1> QED BY <1>1, <1>2, <1>3, PTL DEF Spec
=============================================================================
