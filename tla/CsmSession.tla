----------------------------- MODULE CsmSession -----------------------------
(***************************************************************************)
(* naion.h Layer 5, CSM-Session: naion_csm_sess_client and                 *)
(* naion_csm_sess_server structs, the 1-RTT handshake (client_hello,       *)
(* server_handshake, client_finish) and the traffic calls, over a          *)
(* transport that loses, repeats, reorders and damages messages.           *)
(*                                                                         *)
(* Cryptography is symbolic.  An ephemeral X25519 pair is one element of   *)
(* Key, standing for both halves; the shared secret of a and b is {a, b};  *)
(* a signature is a record of who signed what; the zero buffer is NoKey    *)
(* (a key) or Zeroed (a session key).  An Ed25519 identity is the endpoint *)
(* that holds it.                                                          *)
(***************************************************************************)
EXTENDS Naturals, FiniteSets

CONSTANTS
    Client,     \* client structs, one identity each
    Server,     \* server structs, one identity each
    Certified,  \* the servers whose ca_signature the clients' CA made
    Foreign,    \* the identities that also run other software, see Init
    Key,        \* ephemeral X25519 key pairs that can be generated
    LowKey,     \* a public key X25519 refuses (small order)
    NoKey,      \* 32 zero bytes
    Nobody,     \* a zeroed Ed25519 public key
    Payload,    \* application payloads, none of them empty
    MaxPackets  \* how many packets the transport keeps

ASSUME ConstantsDistinct ==
    /\ Client \cap Server = {}
    /\ Certified \subseteq Server
    /\ Foreign \subseteq Client \cup Server
    /\ Nobody \notin Client \cup Server
    /\ LowKey \notin Key
    /\ NoKey \notin Key
    /\ LowKey # NoKey

Endpoint == Client \cup Server
XPublic == Key \cup {LowKey, NoKey}

Zeroed == {}
Shared(xsk, xpk) == {xsk, xpk}
SessionKey == {Zeroed} \cup {Shared(a, b) : a \in Key \cup {NoKey}, b \in Key}

Signature(who, what) == [by |-> who, over |-> what]
Verifies(sig, what, who) == sig = Signature(who, what)

Code == {"OK", "INVALID_ARGUMENT", "BUFFER_TOO_SMALL", "CRYPTO",
         "VERIFY_FAILED", "STATE", "NO_DATA"}

VARIABLES
    st,         \* the struct of each endpoint
    owner,      \* which endpoint generated a key (Nobody: not yet generated)
    hellos,     \* CLIENT_HELLO messages that reached the transport
    replies,    \* SERVER_RESPONSE (m1) messages that reached the transport
    packets,    \* traffic packets that reached the transport
    ret         \* the last call: whose struct, the code, the payload returned

vars == <<st, owner, hellos, replies, packets, ret>>

Struct == [created : BOOLEAN, xsk : Key \cup {NoKey}, peer_xpk : Key \cup {NoKey},
           peer : Endpoint \cup {Nobody}, aead : SessionKey, complete : BOOLEAN]

Hello == [xpk : XPublic, ed : Client,
          sig : [by : Client, over : XPublic]]
Reply == [xpk : XPublic, sig : [by : Server, over : XPublic],
          ed : Server, cert : Server \cup {Nobody}, for : XPublic]
Body == [aead : SessionKey, payload : Payload]
Packet == [sig : [by : Endpoint, over : Body], body : Body, to : Endpoint]

Delivery == [from : Endpoint, to : Endpoint, session : SessionKey, payload : Payload]

Zero == [created |-> FALSE, xsk |-> NoKey, peer_xpk |-> NoKey,
         peer |-> Nobody, aead |-> Zeroed, complete |-> FALSE]
Created == [Zero EXCEPT !.created = TRUE]

TypeOK ==
    /\ st \in [Endpoint -> Struct]
    /\ owner \in [Key -> Endpoint \cup {Nobody}]
    /\ hellos \subseteq Hello
    /\ replies \subseteq Reply
    /\ packets \subseteq Packet
    /\ ret \in [at : Endpoint, code : Code, out : SUBSET Delivery]

(* CLIENT_HELLO = xpk || ed_pk || sign(xpk). *)
HelloOf(c, x) == [xpk |-> x, ed |-> c, sig |-> Signature(c, x)]

(* SERVER_RESPONSE = xpk || sign(xpk) || ed_pk || ca_signature.  "for" is   *)
(* not on the wire: it remembers which hello the response answers.         *)
ReplyOf(s, x, xpk) ==
    [xpk |-> x, sig |-> Signature(s, x), ed |-> s,
     cert |-> IF s \in Certified THEN s ELSE Nobody, for |-> xpk]

(* Both sides were created.  The transport holds nothing but the handshake *)
(* messages of peers that run other software and whose X25519 key is of    *)
(* small order: they verify, and no key can be derived from them.          *)
Init ==
    /\ st = [e \in Endpoint |-> Created]
    /\ owner = [k \in Key |-> Nobody]
    /\ hellos = {HelloOf(c, LowKey) : c \in Client \cap Foreign}
    /\ replies = {ReplyOf(s, LowKey, NoKey) : s \in Server \cap Foreign}
    /\ packets = {}
    /\ ret \in [at : Endpoint, code : {"OK"}, out : {{}}]

Return(e, code) == ret' = [at |-> e, code |-> code, out |-> {}]

-----------------------------------------------------------------------------
(* The transport.  Every message stays available, so it can be lost (never *)
(* taken), repeated, delayed and reordered; damage replaces one field of a *)
(* message by another value.                                               *)

HelloInTransit ==
    hellos \cup {[h EXCEPT !.xpk = NoKey] : h \in hellos}
           \cup {[p[1] EXCEPT !.ed = p[2].ed] : p \in hellos \X hellos}
           \cup {[p[1] EXCEPT !.xpk = p[2].xpk] : p \in hellos \X hellos}

ReplyInTransit ==
    replies \cup {[r EXCEPT !.xpk = NoKey] : r \in replies}
            \cup {[p[1] EXCEPT !.ed = p[2].ed, !.cert = p[2].cert] :
                    p \in replies \X replies}
            \cup {[p[1] EXCEPT !.cert = p[2].cert] : p \in replies \X replies}

PacketInTransit ==
    packets \cup {[p[1] EXCEPT !.sig = p[2].sig] : p \in packets \X packets}

-----------------------------------------------------------------------------
(* naion_box_keypair: a pair nobody has generated before. *)
FreshKey(k) == owner[k] = Nobody

ClientCreate(c) ==
    /\ st' = [st EXCEPT ![c] = Created]
    /\ Return(c, "OK")
    /\ UNCHANGED <<owner, hellos, replies, packets>>

ServerCreate(s) ==
    /\ st' = [st EXCEPT ![s] = Created]
    /\ Return(s, "OK")
    /\ UNCHANGED <<owner, hellos, replies, packets>>

ClientWipe(c) ==
    /\ st' = [st EXCEPT ![c] = Zero]
    /\ Return(c, "OK")
    /\ UNCHANGED <<owner, hellos, replies, packets>>

ServerWipe(s) ==
    /\ st' = [st EXCEPT ![s] = Zero]
    /\ Return(s, "OK")
    /\ UNCHANGED <<owner, hellos, replies, packets>>

\* Mutated: a new hello leaves handshake_complete set.
ClientHelloStaysComplete(c) ==
    /\ st[c].created
    /\ \E x \in Key :
        /\ FreshKey(x)
        /\ owner' = [owner EXCEPT ![x] = c]
        /\ st' = [st EXCEPT ![c].xsk = x]
        /\ hellos' = hellos \cup {HelloOf(c, x)}
    /\ Return(c, "OK")
    /\ UNCHANGED <<replies, packets>>

(* A session in progress is dropped: handshake_complete returns to 0, the   *)
(* rest of the old session stays in the struct.                           *)
ClientHello(c) ==
    /\ st[c].created
    /\ \E x \in Key :
        /\ FreshKey(x)
        /\ owner' = [owner EXCEPT ![x] = c]
        /\ st' = [st EXCEPT ![c].xsk = x, ![c].complete = FALSE]
        /\ hellos' = hellos \cup {HelloOf(c, x)}
    /\ Return(c, "OK")
    /\ UNCHANGED <<replies, packets>>

\* Mutated: the signature of the hello is not verified.
HelloStatusUnverified(h) == IF h.xpk = NoKey THEN "INVALID_ARGUMENT" ELSE "OK"

(* naion_csm_sess_server_handshake up to the verification of the hello. *)
HelloStatus(h) ==
    IF h.xpk = NoKey THEN "INVALID_ARGUMENT"
    ELSE IF ~Verifies(h.sig, h.xpk, h.ed) THEN "VERIFY_FAILED"
    ELSE "OK"

(* naion_csm_sess_derive_aead_key fails on a public key of small order. *)
Derives(xpk) == xpk # LowKey

(* out_cap is checked before the hello is read. *)
RefuseBuffer(s) ==
    /\ Return(s, "BUFFER_TOO_SMALL")
    /\ UNCHANGED <<st, owner, hellos, replies, packets>>

\* Mutated: the key pair is generated before the hello is verified.
RejectHelloAfterKeypair(s) ==
    /\ \E code \in {HelloStatus(h) : h \in HelloInTransit} \ {"OK"} : Return(s, code)
    /\ \E x \in Key :
        /\ FreshKey(x)
        /\ owner' = [owner EXCEPT ![x] = s]
        /\ st' = [st EXCEPT ![s].xsk = x]
    /\ UNCHANGED <<hellos, replies, packets>>

RejectHello(s) ==
    /\ \E code \in {HelloStatus(h) : h \in HelloInTransit} \ {"OK"} : Return(s, code)
    /\ UNCHANGED <<st, owner, hellos, replies, packets>>

\* Mutated: a server that has a session key pair uses it again.
AcceptHelloReusingPair(s, h) ==
    /\ HelloStatus(h) = "OK"
    /\ Derives(h.xpk)
    /\ \E x \in Key :
        /\ x = st[s].xsk \/ (st[s].xsk = NoKey /\ FreshKey(x))
        /\ owner' = [owner EXCEPT ![x] = s]
        /\ st' = [st EXCEPT ![s] = [created |-> TRUE, xsk |-> x, peer_xpk |-> h.xpk,
                                    peer |-> h.ed, aead |-> Shared(x, h.xpk),
                                    complete |-> TRUE]]
        /\ replies' = replies \cup {ReplyOf(s, x, h.xpk)}
    /\ Return(s, "OK")
    /\ UNCHANGED <<hellos, packets>>

(* The one session slot of the struct is overwritten by the new session.   *)
AcceptHello(s, h) ==
    /\ HelloStatus(h) = "OK"
    /\ Derives(h.xpk)
    /\ \E x \in Key :
        /\ FreshKey(x)
        /\ owner' = [owner EXCEPT ![x] = s]
        /\ st' = [st EXCEPT ![s] = [created |-> TRUE, xsk |-> x, peer_xpk |-> h.xpk,
                                    peer |-> h.ed, aead |-> Shared(x, h.xpk),
                                    complete |-> TRUE]]
        /\ replies' = replies \cup {ReplyOf(s, x, h.xpk)}
    /\ Return(s, "OK")
    /\ UNCHANGED <<hellos, packets>>

\* Mutated: the client's public key is stored before the key is derived.
FailHelloStoringPeer(s, h) ==
    /\ HelloStatus(h) = "OK"
    /\ ~Derives(h.xpk)
    /\ \E x \in Key : FreshKey(x) /\ owner' = [owner EXCEPT ![x] = s]
    /\ st' = [st EXCEPT ![s].xsk = NoKey, ![s].aead = Zeroed, ![s].peer_xpk = h.xpk]
    /\ Return(s, "CRYPTO")
    /\ UNCHANGED <<hellos, replies, packets>>

(* The derivation fails after the key pair was generated: the error path   *)
(* zeroes the server's session keys and leaves client_session_xpk,         *)
(* client_ed_public_key and handshake_complete as they were.               *)
FailHello(s, h) ==
    /\ HelloStatus(h) = "OK"
    /\ ~Derives(h.xpk)
    /\ \E x \in Key : FreshKey(x) /\ owner' = [owner EXCEPT ![x] = s]
    /\ st' = [st EXCEPT ![s].xsk = NoKey, ![s].aead = Zeroed]
    /\ Return(s, "CRYPTO")
    /\ UNCHANGED <<hellos, replies, packets>>

ServerHandshake(s) ==
    /\ st[s].created
    /\ \/ RefuseBuffer(s)
       \/ RejectHello(s)
       \/ \E h \in HelloInTransit : AcceptHello(s, h) \/ FailHello(s, h)

(* naion_csm_sess_client_finish up to the end of the certificate chain. *)
ReplyStatus(m1) ==
    IF m1.xpk = NoKey THEN "INVALID_ARGUMENT"
    ELSE IF m1.cert # m1.ed THEN "VERIFY_FAILED"
    ELSE IF ~Verifies(m1.sig, m1.xpk, m1.ed) THEN "VERIFY_FAILED"
    ELSE "OK"

RejectReply(c) ==
    /\ \E code \in {ReplyStatus(m1) : m1 \in ReplyInTransit} \ {"OK"} : Return(c, code)
    /\ UNCHANGED <<st, owner, hellos, replies, packets>>

(* Nothing relates m1 to the hello: any certified response completes the   *)
(* handshake with the session key pair the struct holds now, which is the  *)
(* zero one if client_hello was never called.                              *)
AcceptReply(c, m1) ==
    /\ ReplyStatus(m1) = "OK"
    /\ Derives(m1.xpk)
    /\ st' = [st EXCEPT ![c] = [created |-> TRUE, xsk |-> st[c].xsk, peer_xpk |-> m1.xpk,
                                peer |-> m1.ed, aead |-> Shared(st[c].xsk, m1.xpk),
                                complete |-> TRUE]]
    /\ Return(c, "OK")
    /\ UNCHANGED <<owner, hellos, replies, packets>>

FailReply(c, m1) ==
    /\ ReplyStatus(m1) = "OK"
    /\ ~Derives(m1.xpk)
    /\ st' = [st EXCEPT ![c].aead = Zeroed]
    /\ Return(c, "CRYPTO")
    /\ UNCHANGED <<owner, hellos, replies, packets>>

ClientFinish(c) ==
    /\ st[c].created
    /\ \/ RejectReply(c)
       \/ \E m1 \in ReplyInTransit : AcceptReply(c, m1) \/ FailReply(c, m1)

-----------------------------------------------------------------------------
(* Traffic: the two sides run the same steps with each other's identity.   *)
(* The length and capacity checks depend on nothing but the arguments.     *)

(* naion_csm_sess_seal, then the detached signature over the sealed body.  *)
(* "to" is not on the wire: it names the peer the sender's struct holds.   *)
SignedPacket(e, p) ==
    LET body == [aead |-> st[e].aead, payload |-> p]
    IN  [sig |-> Signature(e, body), body |-> body, to |-> st[e].peer]

(* A full transport loses the packet. *)
Transmit(pkt) ==
    packets' = IF Cardinality(packets) < MaxPackets THEN packets \cup {pkt} ELSE packets

Encrypt(e) ==
    /\ \/ /\ Return(e, "NO_DATA")
          /\ UNCHANGED packets
       \/ /\ ~st[e].complete
          /\ Return(e, "STATE")
          /\ UNCHANGED packets
       \/ /\ st[e].complete
          /\ Return(e, "BUFFER_TOO_SMALL")
          /\ UNCHANGED packets
       \/ /\ st[e].complete
          /\ Return(e, "OK")
          /\ \E p \in Payload : Transmit(SignedPacket(e, p))
    /\ UNCHANGED <<st, owner, hellos, replies>>

(* naion_csm_sess_open: the tag is good exactly under the sealing key. *)
Opens(e, body) == body.aead = st[e].aead

\* Mutated: a packet that opens is taken without its signature.
PacketStatusUnverified(e, pkt) == IF ~Opens(e, pkt.body) THEN "CRYPTO" ELSE "OK"

(* Verify, then open. *)
PacketStatus(e, pkt) ==
    IF ~Verifies(pkt.sig, pkt.body, st[e].peer) THEN "VERIFY_FAILED"
    ELSE IF ~Opens(e, pkt.body) THEN "CRYPTO"
    ELSE "OK"

ReturnPayload(e, pkt) ==
    ret' = [at |-> e, code |-> "OK",
            out |-> {[from |-> st[e].peer, to |-> e, session |-> st[e].aead,
                      payload |-> pkt.body.payload]}]

Decrypt(e) ==
    /\ \/ ~st[e].complete /\ Return(e, "STATE")
       \/ st[e].complete /\ \E code \in {"INVALID_ARGUMENT", "BUFFER_TOO_SMALL"} : Return(e, code)
       \/ /\ st[e].complete
          /\ \E code \in {PacketStatus(e, pkt) : pkt \in PacketInTransit} \ {"OK"} :
                Return(e, code)
       \/ /\ st[e].complete
          /\ \E pkt \in PacketInTransit :
                PacketStatus(e, pkt) = "OK" /\ ReturnPayload(e, pkt)
    /\ UNCHANGED <<st, owner, hellos, replies, packets>>

ClientEncrypt(c) == Encrypt(c)
ServerEncrypt(s) == Encrypt(s)
ClientDecrypt(c) == Decrypt(c)
ServerDecrypt(s) == Decrypt(s)

-----------------------------------------------------------------------------
Next ==
    \/ \E c \in Client : \/ ClientCreate(c) \/ ClientWipe(c) \/ ClientHello(c)
                         \/ ClientFinish(c) \/ ClientEncrypt(c) \/ ClientDecrypt(c)
    \/ \E s \in Server : \/ ServerCreate(s) \/ ServerWipe(s) \/ ServerHandshake(s)
                         \/ ServerEncrypt(s) \/ ServerDecrypt(s)

Spec == Init /\ [][Next]_vars

-----------------------------------------------------------------------------
(* Two endpoints in a session hold the same key exactly when each is       *)
(* the other's peer and holds the other's session public key: no other     *)
(* endpoint ever shares the key, however hellos and responses were         *)
(* repeated, mixed up or delivered late (derive_aead_key, called by        *)
(* server_handshake and client_finish).                                    *)
KeyAgreement ==
    \A c \in Client, s \in Server :
        (/\ st[c].complete /\ st[c].aead # Zeroed
         /\ st[s].complete /\ st[s].aead # Zeroed) =>
            (st[c].aead = st[s].aead <=>
                /\ st[c].peer = s /\ st[c].peer_xpk = st[s].xsk
                /\ st[s].peer = c /\ st[s].peer_xpk = st[c].xsk)

(* What a complete handshake says about the peer is true: the session      *)
(* public key the struct stores was generated by the identity it stores,   *)
(* and a client's peer is certified by its CA (the signature checks of     *)
(* server_handshake and client_finish).                                    *)
HandshakeBindsIdentity ==
    \A e \in Endpoint : st[e].complete =>
        /\ st[e].peer_xpk \in Key
        /\ owner[st[e].peer_xpk] = st[e].peer
        /\ e \in Client => st[e].peer \in Certified
        /\ e \in Server => st[e].peer \in Client

(* A session key a server installs has never sealed a packet before: a     *)
(* repeated hello opens a new session, it does not reopen an old one whose *)
(* recorded packets would be accepted again (server_handshake).            *)
ServerNeverReopensASession ==
    [][\A s \in Server : (st'[s].aead # st[s].aead /\ st'[s].aead # Zeroed) =>
            \A p \in packets : p.body.aead # st'[s].aead]_vars

(* A call that fails never moves a struct to another session: peer,        *)
(* handshake_complete and session key stay, except that a failed key       *)
(* derivation may zero the key; and a handshake message that fails         *)
(* verification leaves the whole struct untouched (the comment above       *)
(* server_handshake, test T5.7).                                           *)
FailedCallInstallsNothing ==
    [][/\ ret'.code # "OK" =>
            \A e \in Endpoint :
                /\ st'[e].peer = st[e].peer /\ st'[e].peer_xpk = st[e].peer_xpk
                /\ st'[e].complete => st[e].complete
                /\ st'[e].aead \in {st[e].aead, Zeroed}
       /\ ret'.code \notin {"OK", "CRYPTO"} => st' = st]_vars

(* The messages CsmSession exchanges under a session key that is not zero  *)
(* form an authentic channel between the two endpoints of that session.    *)
Sealed == {[from |-> p.sig.by, to |-> p.to, session |-> p.body.aead,
            payload |-> p.body.payload] : p \in {q \in packets : q.body.aead # Zeroed}}
Opened == {d \in ret.out : d.session # Zeroed}

Channel == INSTANCE AuthChannel WITH Session <- SessionKey, sent <- Sealed,
                                     out <- Opened
ImplementsChannel == Channel!Spec

-----------------------------------------------------------------------------
(* The strengthening under which the invariants above are inductive.       *)

\* Every handshake message on the transport is what its signer made.
HellosGenuine ==
    \A h \in hellos :
        /\ h.sig = Signature(h.ed, h.xpk)
        /\ h.xpk # LowKey => h.xpk \in Key /\ owner[h.xpk] = h.ed

RepliesGenuine ==
    \A r \in replies :
        /\ r.sig = Signature(r.ed, r.xpk)
        /\ r.cert \in {r.ed, Nobody}
        /\ r.cert = r.ed => r.ed \in Certified
        /\ r.xpk # LowKey => r.xpk \in Key /\ owner[r.xpk] = r.ed

\* A session secret is the struct's own, and a server in a session has one.
OwnSecrets ==
    \A e \in Endpoint :
        /\ st[e].xsk # NoKey => owner[st[e].xsk] = e
        /\ (e \in Server /\ st[e].aead # Zeroed) => st[e].xsk # NoKey

\* In a session the key is the one derived from the struct's own fields.
KeysDerived ==
    \A e \in Endpoint : (st[e].complete /\ st[e].aead # Zeroed) =>
        st[e].aead = Shared(st[e].xsk, st[e].peer_xpk)

\* The halves of the key that sealed a packet belong to its two ends.
PacketsGenuine ==
    \A p \in packets :
        /\ p.sig.over = p.body
        /\ p.sig.by \in Client <=> p.to \in Server
        /\ p.body.aead # Zeroed =>
            \E a \in Key \cup {NoKey}, b \in Key :
                /\ p.body.aead = Shared(a, b)
                /\ a # NoKey => owner[a] = p.sig.by
                /\ owner[b] = p.to

IInv ==
    /\ TypeOK
    /\ HandshakeBindsIdentity
    /\ HellosGenuine
    /\ RepliesGenuine
    /\ OwnSecrets
    /\ KeysDerived
    /\ PacketsGenuine

-----------------------------------------------------------------------------
(* What the code does not give: see the runs that refute these.            *)

(* "int handshake_complete; 0 = not finished, 1 = ready for traffic".      *)
ReadyWhenComplete == \A e \in Endpoint : st[e].complete => st[e].aead # Zeroed

(* client_finish "derives the matching session AEAD key": some server      *)
(* derived the key of a complete client, in answer to that client's hello. *)
FinishedClientIsAnswered ==
    \A c \in Client : (st[c].complete /\ st[c].xsk # NoKey) =>
        \E r \in replies : r.xpk = st[c].peer_xpk /\ r.for = st[c].xsk
=============================================================================
