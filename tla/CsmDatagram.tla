----------------------------- MODULE CsmDatagram -----------------------------
(***************************************************************************)
(* naion.h Layer 3 (CSM) and Layer 4 (CSM-CA), and the Client and Server   *)
(* classes of naion.hpp that own Layer 3 structs.  Every datagram is       *)
(* sealed under a key pair of its own and signed; a client's datagram      *)
(* carries the client's public key inside the sealed part, and the server  *)
(* learns from it whom to answer.  The transport loses, repeats, reorders  *)
(* and damages what it carries.                                            *)
(*                                                                         *)
(* Cryptography is symbolic: an Ed25519 identity (and the X25519 key made  *)
(* from it) is the endpoint that holds it; a sealed body is a record that  *)
(* only its "to" can open, a signature a record of who signed what.        *)
(***************************************************************************)
EXTENDS Naturals, FiniteSets

CONSTANTS
    Client,     \* Layer 3 client structs
    Server,     \* Layer 3 server structs
    CaClient,   \* Layer 4 client structs
    CaServer,   \* Layer 4 server structs
    Certified,  \* the Layer 4 servers whose ca_signature the CA made
    Foreign,    \* clients that also run other software, see ForeignPackets
    Nobody,     \* a zeroed public key or signature
    Payload,    \* application payloads, none of them empty
    MaxPackets  \* how many packets the transport keeps

AnyClient == Client \cup CaClient
AnyServer == Server \cup CaServer
Endpoint == AnyClient \cup AnyServer

ASSUME ConstantsDistinct ==
    /\ Client \cap CaClient = {} /\ Server \cap CaServer = {}
    /\ AnyClient \cap AnyServer = {}
    /\ Certified \subseteq CaServer
    /\ Foreign \subseteq AnyClient
    /\ Nobody \notin Endpoint

\* "OUT_OF_RANGE" is naion.hpp's own, "RAISED" any exception that naion.py
\* lets through from below.
Code == {"OK", "INVALID_ARGUMENT", "BUFFER_TOO_SMALL", "CRYPTO", "VERIFY_FAILED",
         "STATE", "RANDOM_PROVIDER", "NO_DATA", "OUT_OF_RANGE", "RAISED"}

VARIABLES
    cl,         \* the client structs
    sv,         \* the server structs
    mirror,     \* the naion.hpp Server object that owns a Layer 3 server struct,
                \* if any, and what it remembers of its client
    certs,      \* certificates (m1) that reached the transport
    packets,    \* packets that reached the transport
    ret         \* the last call: whose struct, the code, the payload returned

vars == <<cl, sv, mirror, certs, packets, ret>>

ClientStruct == [created : BOOLEAN, server : AnyServer \cup {Nobody}, verified : BOOLEAN]
View == [peer : AnyClient \cup {Nobody}, known : BOOLEAN]
ServerStruct == [created : BOOLEAN, view : View]
Mirror == [object : BOOLEAN, view : View]

Cert == [ed : CaServer \cup {Nobody}, sig : Certified \cup {Nobody}]
Body == [to : Endpoint, carried : AnyClient \cup {Nobody}, payload : Payload]
Signature(who, what) == [by |-> who, over |-> what]
Packet == [sig : [by : Endpoint, over : Body], body : Body]
\* The Ed25519 of naion.h and libsodium verify nothing under the zero key,
\* which is of small order.
Verifies(sig, what, who) == who # Nobody /\ sig = Signature(who, what)

\* What a decrypt call returns is attributed to the key it was verified under.
NoSession == "no session"
Delivery == [from : Endpoint \cup {Nobody}, to : Endpoint, session : {NoSession},
             payload : Payload]

NoView == [peer |-> Nobody, known |-> FALSE]
ZeroClient == [created |-> FALSE, server |-> Nobody, verified |-> FALSE]
ZeroServer == [created |-> FALSE, view |-> NoView]
NoObject == [object |-> FALSE, view |-> NoView]

TypeOK ==
    /\ cl \in [AnyClient -> ClientStruct]
    /\ sv \in [AnyServer -> ServerStruct]
    /\ mirror \in [Server -> Mirror]
    /\ certs \subseteq Cert
    /\ packets \subseteq Packet
    /\ ret \in [at : Endpoint, code : Code, out : SUBSET Delivery]

Init ==
    /\ cl = [c \in AnyClient |-> ZeroClient]
    /\ sv = [s \in AnyServer |-> ZeroServer]
    /\ mirror = [s \in Server |-> NoObject]
    /\ certs = {}
    /\ packets = {}
    /\ ret \in [at : Endpoint, code : {"OK"}, out : {{}}]

Return(e, code) == ret' = [at |-> e, code |-> code, out |-> {}]

\* A call that returns an error and changes no struct.
Refuse(e, codes) ==
    /\ \E code \in codes : Return(e, code)
    /\ UNCHANGED <<cl, sv, mirror, certs, packets>>

-----------------------------------------------------------------------------
(* The transport.  Every message stays available, so it can be lost,       *)
(* repeated, delayed and reordered; damage swaps the signatures of two     *)
(* packets, or leaves a body that nobody can open.                         *)

(* Other software that holds a client's keys and seals another client's    *)
(* public key into its packets.                                            *)
ForeignPackets ==
    {[sig |-> Signature(f, b), body |-> b] :
        f \in Foreign,
        b \in {x \in Body : x.to \in AnyServer /\ x.carried \in AnyClient \ Foreign}}

PacketInTransit ==
    LET all == packets \cup ForeignPackets
    IN  all \cup {[p[1] EXCEPT !.sig = p[2].sig] : p \in packets \X all}
            \cup {[p EXCEPT !.body.to = Nobody] : p \in all}

CertInTransit ==
    certs \cup {[m[1] EXCEPT !.ed = m[2].ed] : m \in certs \X certs}

(* A full transport loses the packet. *)
Transmit(pkt) ==
    packets' = IF Cardinality(packets) < MaxPackets THEN packets \cup {pkt} ELSE packets

-----------------------------------------------------------------------------
(* Layer 3.  The internal errors of the signature and cipher calls cannot  *)
(* happen with the arguments these calls pass; malloc can fail ("CRYPTO"). *)

ClientCreate(c) ==
    /\ \E s \in AnyServer :
        cl' = [cl EXCEPT ![c] = [created |-> TRUE, server |-> s, verified |-> FALSE]]
    /\ Return(c, "OK")
    /\ UNCHANGED <<sv, mirror, certs, packets>>

ClientWipe(c) ==
    /\ cl' = [cl EXCEPT ![c] = ZeroClient]
    /\ Return(c, "OK")
    /\ UNCHANGED <<sv, mirror, certs, packets>>

ServerCreate(s) ==
    /\ sv' = [sv EXCEPT ![s] = [created |-> TRUE, view |-> NoView]]
    /\ Return(s, "OK")
    /\ UNCHANGED <<cl, certs, packets>>

ServerWipe(s) ==
    /\ sv' = [sv EXCEPT ![s] = ZeroServer]
    /\ Return(s, "OK")
    /\ UNCHANGED <<cl, certs, packets>>

ClientPacket(c, p) ==
    LET body == [to |-> cl[c].server, carried |-> c, payload |-> p]
    IN  [sig |-> Signature(c, body), body |-> body]

(* A zeroed server key is of small order and has no X25519 key.            *)
ClientSeals(c) ==
    /\ cl[c].created /\ cl[c].server # Nobody
    /\ \E p \in Payload : Transmit(ClientPacket(c, p))
    /\ Return(c, "OK")
    /\ UNCHANGED <<cl, sv, mirror, certs>>

ClientEncrypt(c) ==
    \/ Refuse(c, {"NO_DATA", "BUFFER_TOO_SMALL", "CRYPTO"})
    \/ ClientSeals(c)

\* Mutated: the body is opened and the signature is not looked at.
ClientPacketStatusUnverified(c, pkt) == IF pkt.body.to # c THEN "CRYPTO" ELSE "OK"

(* naion_csm_client_decrypt: verify, then open, which takes the secret key *)
(* that a wiped struct has lost.                                           *)
ClientPacketStatus(c, pkt) ==
    IF ~Verifies(pkt.sig, pkt.body, cl[c].server) THEN "VERIFY_FAILED"
    ELSE IF pkt.body.to # c \/ ~cl[c].created THEN "CRYPTO"
    ELSE "OK"

ClientOpens(c) ==
    \/ Refuse(c, {ClientPacketStatus(c, pkt) : pkt \in PacketInTransit} \ {"OK"})
    \/ \E pkt \in PacketInTransit :
        /\ ClientPacketStatus(c, pkt) = "OK"
        /\ ret' = [at |-> c, code |-> "OK",
                   out |-> {[from |-> cl[c].server, to |-> c, session |-> NoSession,
                             payload |-> pkt.body.payload]}]
        /\ UNCHANGED <<cl, sv, mirror, certs, packets>>

ClientDecrypt(c) ==
    \/ Refuse(c, {"INVALID_ARGUMENT", "BUFFER_TOO_SMALL", "CRYPTO"})
    \/ ClientOpens(c)

(* naion_csm_server_decrypt: open, then verify under the key found inside. *)
ServerOpens(s, pkt) == sv[s].created /\ pkt.body.to = s

ServerAccepts(s, pkt) ==
    /\ ServerOpens(s, pkt)
    /\ Verifies(pkt.sig, pkt.body, pkt.body.carried)

\* Mutated: the key found inside is stored before the signature is verified.
LearntUnverified(s, pkt) ==
    IF ServerOpens(s, pkt) THEN [peer |-> pkt.body.carried, known |-> TRUE]
    ELSE sv[s].view

(* The client key is overwritten by every packet that verifies. *)
Learnt(s, pkt) ==
    IF ServerAccepts(s, pkt) THEN [peer |-> pkt.body.carried, known |-> TRUE]
    ELSE sv[s].view

(* What server_decrypt makes of a packet of an acceptable size: the view it *)
(* leaves and what it returns, "failure" if the packet is not accepted.    *)
Received(s, pkt, failure) ==
    [view |-> Learnt(s, pkt),
     ret |-> IF ServerAccepts(s, pkt)
             THEN [at |-> s, code |-> "OK",
                   out |-> {[from |-> pkt.body.carried, to |-> s, session |-> NoSession,
                             payload |-> pkt.body.payload]}]
             ELSE [at |-> s, code |-> failure, out |-> {}]]

\* How a packet that does not open, and one that does not verify, are reported.
Failure(s, pkt, unopened, unverified) ==
    IF ServerOpens(s, pkt) THEN unverified ELSE unopened

ServerReceive(s, unopened, unverified) ==
    /\ \E r \in {Received(s, pkt, Failure(s, pkt, unopened, unverified)) :
                    pkt \in PacketInTransit} :
        sv' = [sv EXCEPT ![s].view = r.view] /\ ret' = r.ret
    /\ UNCHANGED <<cl, certs, packets>>

(* The C code reports both failures as CRYPTO. *)
ServerRefusal == {"INVALID_ARGUMENT", "BUFFER_TOO_SMALL", "CRYPTO"}

ServerDecrypt(s) ==
    \/ Refuse(s, ServerRefusal)
    \/ ServerReceive(s, "CRYPTO", "CRYPTO") /\ UNCHANGED mirror

ServerPacket(s, p) ==
    LET body == [to |-> sv[s].view.peer, carried |-> Nobody, payload |-> p]
    IN  [sig |-> Signature(s, body), body |-> body]

\* Mutated: client_public_key_initialized is not tested.
ServerEncryptAnyState(s) ==
    \/ Refuse(s, {"NO_DATA", "BUFFER_TOO_SMALL"})
    \/ /\ \E p \in Payload : Transmit(ServerPacket(s, p))
       /\ Return(s, "OK")
       /\ UNCHANGED <<cl, sv, mirror, certs>>

ServerSeals(s) ==
    /\ sv[s].view.peer # Nobody
    /\ \E p \in Payload : Transmit(ServerPacket(s, p))
    /\ Return(s, "OK")
    /\ UNCHANGED <<cl, sv, mirror, certs>>

ServerEncrypt(s) ==
    \/ Refuse(s, {"NO_DATA"})
    \/ ~sv[s].view.known /\ Refuse(s, {"STATE"})
    \/ sv[s].view.known /\ Refuse(s, {"BUFFER_TOO_SMALL"})
    \/ sv[s].view.known /\ ServerSeals(s)

-----------------------------------------------------------------------------
(* Layer 4: the certificate, and the Layer 3 calls behind a check of       *)
(* server_key_verified or client_key_verified.                             *)

CaClientCreate(c) ==
    /\ cl' = [cl EXCEPT ![c] = [created |-> TRUE, server |-> Nobody, verified |-> FALSE]]
    /\ Return(c, "OK")
    /\ UNCHANGED <<sv, mirror, certs, packets>>

(* server public key || ca_signature, both zero in a wiped struct. *)
CertOf(s) ==
    IF sv[s].created
    THEN [ed |-> s, sig |-> IF s \in Certified THEN s ELSE Nobody]
    ELSE [ed |-> Nobody, sig |-> Nobody]

HandshakeResponse(s) ==
    \/ Refuse(s, {"BUFFER_TOO_SMALL"})
    \/ /\ certs' = certs \cup {CertOf(s)}
       /\ Return(s, "OK")
       /\ UNCHANGED <<cl, sv, mirror, packets>>

(* The signature must be the CA's, over the key that comes with it; no     *)
(* signature verifies under the zero CA key of a wiped client.             *)
CertVerifies(c, m1) == cl[c].created /\ m1.sig # Nobody /\ m1.sig = m1.ed

\* Mutated: the certificate is stored before it is verified.
HandshakeVerifyStoresFirst(c) ==
    \/ Refuse(c, {"INVALID_ARGUMENT"})
    \/ \E m1 \in CertInTransit :
        /\ cl' = [cl EXCEPT ![c].server = m1.ed,
                            ![c].verified = cl[c].verified \/ CertVerifies(c, m1)]
        /\ Return(c, IF CertVerifies(c, m1) THEN "OK" ELSE "VERIFY_FAILED")
        /\ UNCHANGED <<sv, mirror, certs, packets>>

HandshakeVerify(c) ==
    \/ Refuse(c, {"INVALID_ARGUMENT"})
    \/ \E m1 \in CertInTransit :
        \/ ~CertVerifies(c, m1) /\ Refuse(c, {"VERIFY_FAILED"})
        \/ /\ CertVerifies(c, m1)
           /\ cl' = [cl EXCEPT ![c].server = m1.ed, ![c].verified = TRUE]
           /\ Return(c, "OK")
           /\ UNCHANGED <<sv, mirror, certs, packets>>

CaClientEncrypt(c) == IF cl[c].verified THEN ClientEncrypt(c) ELSE Refuse(c, {"STATE"})
CaClientDecrypt(c) == IF cl[c].verified THEN ClientDecrypt(c) ELSE Refuse(c, {"STATE"})
CaServerEncrypt(s) == IF sv[s].view.known THEN ServerEncrypt(s) ELSE Refuse(s, {"STATE"})

\* Mutated: the flag is not copied into the view that is copied back.
CaServerDecryptForgets(s) ==
    \/ Refuse(s, ServerRefusal)
    \/ /\ \E r \in {Received(s, pkt, "CRYPTO") : pkt \in PacketInTransit} :
            /\ sv' = [sv EXCEPT ![s].view = [peer |-> r.view.peer,
                                             known |-> r.ret.code = "OK"]]
            /\ ret' = r.ret
       /\ UNCHANGED <<cl, mirror, certs, packets>>

(* The view server_decrypt worked on is copied back, whatever it returned. *)
CaServerDecrypt(s) ==
    \/ Refuse(s, ServerRefusal)
    \/ ServerReceive(s, "CRYPTO", "CRYPTO") /\ UNCHANGED mirror

-----------------------------------------------------------------------------
(* naion.hpp.  An object creates its struct, wipes it in its destructor and *)
(* checks arguments before the Layer 3 call does.  A struct that an object *)
(* owns is used through the object only.                                   *)

ObjectServerCreate(s) ==
    /\ ServerCreate(s)
    /\ mirror' = [mirror EXCEPT ![s] = [object |-> TRUE, view |-> NoView]]

ObjectServerDestroy(s) ==
    /\ mirror[s].object
    /\ ServerWipe(s)
    /\ mirror' = [mirror EXCEPT ![s] = NoObject]

(* A Client object keeps no state but its struct. *)
ObjectClientEncrypt(c) ==
    /\ cl[c].created
    /\ Refuse(c, {"NO_DATA", "OUT_OF_RANGE"}) \/ ClientEncrypt(c)

ObjectServerEncrypt(s) ==
    /\ mirror[s].object
    /\ \/ Refuse(s, {"NO_DATA", "OUT_OF_RANGE"})
       \/ sv[s].view.known /\ ServerEncrypt(s)

\* Mutated: the client's key is copied from the first packet only.
ObjectServerDecryptCopiesOnce(s) ==
    /\ mirror[s].object
    /\ \/ Refuse(s, ServerRefusal)
       \/ /\ ServerReceive(s, "CRYPTO", "CRYPTO")
          /\ mirror' = IF ret'.code = "OK" /\ ~mirror[s].view.known
                       THEN [mirror EXCEPT ![s].view = sv'[s].view] ELSE mirror

(* The object copies the flag and the key after a decrypt that succeeds.   *)
ObjectServerDecrypt(s) ==
    /\ mirror[s].object
    /\ \/ Refuse(s, ServerRefusal)
       \/ /\ ServerReceive(s, "CRYPTO", "CRYPTO")
          /\ mirror' = IF ret'.code = "OK"
                       THEN [mirror EXCEPT ![s].view = sv'[s].view] ELSE mirror

-----------------------------------------------------------------------------
RawServer(s) ==
    /\ ~mirror[s].object
    /\ \/ (ServerCreate(s) \/ ServerWipe(s)) /\ UNCHANGED mirror
       \/ ServerEncrypt(s)
       \/ ServerDecrypt(s)

ObjectServer(s) ==
    \/ ~mirror[s].object /\ ObjectServerCreate(s)
    \/ ObjectServerDestroy(s)
    \/ ObjectServerEncrypt(s)
    \/ ObjectServerDecrypt(s)

ClientCalls(c) ==
    \/ ClientCreate(c) \/ ClientWipe(c) \/ ClientEncrypt(c) \/ ClientDecrypt(c)
    \/ ObjectClientEncrypt(c)

CaClientCalls(c) ==
    \/ CaClientCreate(c) \/ ClientWipe(c) \/ HandshakeVerify(c)
    \/ CaClientEncrypt(c) \/ CaClientDecrypt(c)

ServerCalls(s) == RawServer(s) \/ ObjectServer(s)

CaServerCalls(s) ==
    \/ (ServerCreate(s) \/ ServerWipe(s)) /\ UNCHANGED mirror
    \/ HandshakeResponse(s) \/ CaServerEncrypt(s) \/ CaServerDecrypt(s)

Calls(e) ==
    \/ e \in Client /\ ClientCalls(e)
    \/ e \in CaClient /\ CaClientCalls(e)
    \/ e \in Server /\ ServerCalls(e)
    \/ e \in CaServer /\ CaServerCalls(e)

Next == \E e \in Endpoint : Calls(e)

Spec == Init /\ [][Next]_vars

-----------------------------------------------------------------------------
\* who has sent server s a packet in its own name.
SpokeTo(who, s) ==
    \E q \in packets : /\ q.sig = Signature(who, q.body)
                       /\ q.body.carried = who
                       /\ q.body.to = s

(* A server's datagram is sealed for a client that has spoken to that      *)
(* server before, in its own name: no damaged, mixed-up or foreign packet  *)
(* makes a server answer somebody else (server_decrypt, server_encrypt).   *)
AnswersOnlySpeakers ==
    \A p \in packets : p.sig.by \in AnyServer => SpokeTo(p.body.to, p.sig.by)

(* Whatever certificates arrive, damaged or of other servers, and whenever *)
(* the client encrypts, a Layer 4 client seals for certified servers only  *)
(* (handshake_verify, ca_client_encrypt).                                  *)
CaClientsAddressCertified ==
    \A p \in packets : p.sig.by \in CaClient => p.body.to \in Certified

(* What a naion.hpp Server object says of its client is what the struct it *)
(* wraps will encrypt to (Server::Decrypt, IsClientKeyInitialized).        *)
MirrorAgrees == \A s \in Server : mirror[s].object => mirror[s].view = sv[s].view

(* A call that fails teaches a struct nothing and costs it nothing: the    *)
(* peer it knew, or did not know, stays (server_decrypt, handshake_verify, *)
(* and ca_server_decrypt, which copies its view back in every case).       *)
FailureTeachesNothing ==
    [][ret'.code # "OK" => UNCHANGED <<cl, sv, mirror>>]_vars

-----------------------------------------------------------------------------
(* The strengthening under which the properties above are inductive.       *)

\* A packet is what its signer made of its own name and its peer's.
PacketsGenuine ==
    \A p \in packets :
        /\ p.sig.over = p.body
        /\ \/ /\ p.sig.by \in AnyClient /\ p.body.to \in AnyServer
              /\ p.body.carried = p.sig.by
           \/ /\ p.sig.by \in AnyServer /\ p.body.to \in AnyClient
              /\ p.body.carried = Nobody

CertsGenuine == \A m1 \in certs : m1.sig # Nobody => m1.sig = m1.ed /\ m1.ed \in Certified

\* A server has a client's key only from a packet of that client.
ViewGenuine(s, view) == view.peer # Nobody => SpokeTo(view.peer, s)

KnowsSpeakers == \A s \in AnyServer : ViewGenuine(s, sv[s].view)

\* A Layer 4 client holds a certified server's key or none, flag or no flag.
VerifiedServers ==
    \A c \in CaClient : cl[c].created => cl[c].server \in Certified \cup {Nobody}

IInv ==
    /\ TypeOK
    /\ PacketsGenuine
    /\ CertsGenuine
    /\ KnowsSpeakers
    /\ VerifiedServers
    /\ AnswersOnlySpeakers
    /\ CaClientsAddressCertified
    /\ MirrorAgrees

-----------------------------------------------------------------------------
(* "Server learns the client's public key from the first client packet it  *)
(* decrypts" (PROTOCOL.md): a key once learnt stays until the struct is    *)
(* created anew or wiped.                                                  *)
LearntFromFirstPacket ==
    [][\A s \in AnyServer :
        sv[s].view.known /\ sv'[s].view.known => sv'[s].view.peer = sv[s].view.peer]_vars
=============================================================================
