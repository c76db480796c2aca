-------------------------- MODULE CsmDatagramProofs --------------------------
(***************************************************************************)
(* Proofs about Layers 3 and 4 for any sets of endpoints and payloads and  *)
(* any deployment of the three implementations.  IInv adds to the          *)
(* properties what a packet and a certificate on the transport say of      *)
(* their makers, that a server which has a client's key has seen a packet  *)
(* of that client, and that a Layer 4 client has a certified server's key  *)
(* or none.  These say nothing of the flags, which the ports do not read,  *)
(* nor of payloads a Go struct takes for those of Nobody.                  *)
(***************************************************************************)
EXTENDS CsmPorts, TLAPS

USE ConstantsDistinct DEF AnyClient, AnyServer, Endpoint

RetType == [at : Endpoint, code : Code, out : SUBSET Delivery]

-----------------------------------------------------------------------------
(* A signature tells who made it and over what. *)
LEMMA SignatureInjective ==
    ASSUME NEW a, NEW b, NEW c, NEW d, Signature(a, b) = Signature(c, d)
    PROVE  a = c /\ b = d
<1>1. Signature(a, b).by = a /\ Signature(a, b).over = b
  BY DEF Signature
<1>2. Signature(c, d).by = c /\ Signature(c, d).over = d
  BY DEF Signature
<1> QED BY <1>1, <1>2

(* What Return leaves in ret has ret's type. *)
LEMMA ReturnType ==
    ASSUME NEW e \in Endpoint, NEW code \in Code, Return(e, code)
    PROVE  ret' \in RetType
BY DEF Return, RetType

(* The zeroed and the newly created structs of both sides. *)
LEMMA FreshStructs ==
    /\ ZeroClient \in ClientStruct /\ ZeroClient.server = Nobody
    /\ \A s \in AnyServer \cup {Nobody} :
          LET z == [created |-> TRUE, server |-> s, verified |-> FALSE]
          IN  z \in ClientStruct /\ z.server = s
    /\ NoView \in View /\ ~NoView.known /\ NoView.peer = Nobody
    /\ ZeroServer \in ServerStruct /\ ZeroServer.view = NoView
    /\ LET z == [created |-> TRUE, view |-> NoView]
       IN  z \in ServerStruct /\ z.view = NoView
    /\ NoObject \in Mirror /\ ~NoObject.object
    /\ LET z == [object |-> TRUE, view |-> NoView]
       IN  z \in Mirror /\ z.object /\ z.view = NoView
BY DEF ZeroClient, ClientStruct, NoView, View, ZeroServer, ServerStruct, NoObject, Mirror

(* Nothing was created or sent yet. *)
LEMMA InitIInv == Init => IInv
<1> SUFFICES ASSUME Init PROVE IInv
  OBVIOUS
<1>1. TypeOK
  <2>1. "OK" \in Code
    BY DEF Code
  <2> QED BY <2>1, FreshStructs DEF Init, TypeOK
<1>2. PacketsGenuine /\ CertsGenuine /\ AnswersOnlySpeakers /\ CaClientsAddressCertified
  BY DEF Init, PacketsGenuine, CertsGenuine, AnswersOnlySpeakers, CaClientsAddressCertified
<1>3. KnowsSpeakers /\ VerifiedServers /\ MirrorAgrees
  BY FreshStructs DEF Init, KnowsSpeakers, ViewGenuine, VerifiedServers, MirrorAgrees
<1> QED BY <1>1, <1>2, <1>3 DEF IInv

-----------------------------------------------------------------------------
(* Inductiveness of IInv, by what a step changes.                          *)

(* A call that changes no struct and sends nothing. *)
LEMMA QuietStep ==
    ASSUME IInv, UNCHANGED <<cl, sv, mirror, certs, packets>>, ret' \in RetType
    PROVE  IInv'
BY DEF IInv, TypeOK, PacketsGenuine, CertsGenuine, KnowsSpeakers, ViewGenuine,
       VerifiedServers, AnswersOnlySpeakers, SpokeTo, CaClientsAddressCertified,
       MirrorAgrees, RetType

(* A refused call. *)
LEMMA RefuseStep ==
    ASSUME IInv, NEW e \in Endpoint, NEW codes \in SUBSET Code, Refuse(e, codes)
    PROVE  IInv'
<1>1. PICK code \in codes : Return(e, code)
  BY DEF Refuse
<1>2. ret' \in RetType
  BY <1>1, ReturnType
<1> QED BY <1>2, QuietStep DEF Refuse

(* A client struct gets a new value: create, wipe, handshake_verify. *)
LEMMA ClientStep ==
    ASSUME IInv, NEW c \in AnyClient, NEW z \in ClientStruct,
           cl' = [cl EXCEPT ![c] = z],
           c \in CaClient /\ z.created => z.server \in Certified \cup {Nobody},
           UNCHANGED <<sv, mirror, certs, packets>>, ret' \in RetType
    PROVE  IInv'
<1>1. TypeOK'
  BY DEF IInv, TypeOK, RetType
<1>2. VerifiedServers'
  BY DEF IInv, TypeOK, VerifiedServers
<1> QED BY <1>1, <1>2 DEF IInv, PacketsGenuine, CertsGenuine, KnowsSpeakers, ViewGenuine,
             AnswersOnlySpeakers, SpokeTo, CaClientsAddressCertified, MirrorAgrees

(* A server struct gets a new value: create, wipe, decrypt. *)
LEMMA ServerStep ==
    ASSUME IInv, NEW s \in AnyServer, NEW z \in ServerStruct,
           sv' = [sv EXCEPT ![s] = z],
           ViewGenuine(s, z.view),
           mirror' \in [Server -> Mirror], MirrorAgrees',
           UNCHANGED <<cl, certs, packets>>, ret' \in RetType
    PROVE  IInv'
<1>1. TypeOK'
  BY DEF IInv, TypeOK, RetType
<1>2. KnowsSpeakers'
  BY DEF IInv, TypeOK, KnowsSpeakers, ViewGenuine, SpokeTo
<1> QED BY <1>1, <1>2 DEF IInv, PacketsGenuine, CertsGenuine, VerifiedServers,
             AnswersOnlySpeakers, SpokeTo, CaClientsAddressCertified

(* A packet reaches the transport, or is lost because it is full. *)
LEMMA TransmitStep ==
    ASSUME IInv, NEW pkt \in Packet, Transmit(pkt),
           pkt.sig.over = pkt.body,
           \/ /\ pkt.sig.by \in AnyClient /\ pkt.body.to \in AnyServer
              /\ pkt.body.carried = pkt.sig.by
           \/ /\ pkt.sig.by \in AnyServer /\ pkt.body.to \in AnyClient
              /\ pkt.body.carried = Nobody,
           pkt.sig.by \in CaClient => pkt.body.to \in Certified,
           pkt.sig.by \in AnyServer => SpokeTo(pkt.body.to, pkt.sig.by),
           UNCHANGED <<cl, sv, mirror, certs>>, ret' \in RetType
    PROVE  IInv'
<1>1. packets' = packets \/ packets' = packets \cup {pkt}
  BY DEF Transmit
<1>2. TypeOK'
  BY <1>1 DEF IInv, TypeOK, RetType
<1>3. PacketsGenuine'
  BY <1>1 DEF IInv, PacketsGenuine
<1>4. KnowsSpeakers'
  BY <1>1 DEF IInv, KnowsSpeakers, ViewGenuine, SpokeTo
<1>5. AnswersOnlySpeakers'
  BY <1>1 DEF IInv, AnswersOnlySpeakers, SpokeTo
<1>6. CaClientsAddressCertified'
  BY <1>1 DEF IInv, CaClientsAddressCertified
<1> QED BY <1>2, <1>3, <1>4, <1>5, <1>6 DEF IInv, CertsGenuine, VerifiedServers, MirrorAgrees

-----------------------------------------------------------------------------
(* Damage can not make a packet that verifies and was not sent: what       *)
(* verifies and can be opened is a packet of its signer, or one of the     *)
(* foreign packets, which carry another client's name.                     *)
LEMMA VerifiedPacket ==
    ASSUME IInv, NEW pkt \in PacketInTransit, NEW who,
           Verifies(pkt.sig, pkt.body, who), pkt.body.to # Nobody
    PROVE  \/ \E q \in packets : q.body = pkt.body /\ q.sig = Signature(who, q.body)
           \/ who \in Foreign /\ pkt.body.carried \in AnyClient \ Foreign
<1> DEFINE Genuine(q) == /\ q \in Packet /\ q.sig = Signature(q.sig.by, q.body)
<1>1. \A q \in packets : Genuine(q)
  BY DEF IInv, TypeOK, PacketsGenuine, Packet, Signature
<1>2. \A f \in ForeignPackets :
        /\ Genuine(f) /\ f.sig.by \in Foreign /\ f.body.carried \in AnyClient \ Foreign
  BY DEF ForeignPackets, Packet, Signature
<1>3. pkt.sig = Signature(who, pkt.body)
  BY DEF Verifies
<1>4. CASE pkt \in packets
  BY <1>3, <1>4
<1>5. CASE pkt \in ForeignPackets
  BY <1>2, <1>3, <1>5, SignatureInjective
<1>6. CASE \E p1 \in packets, p2 \in packets \cup ForeignPackets : pkt = [p1 EXCEPT !.sig = p2.sig]
  <2>1. PICK p1 \in packets, p2 \in packets \cup ForeignPackets : pkt = [p1 EXCEPT !.sig = p2.sig]
    BY <1>6
  <2>2. pkt.sig = p2.sig /\ pkt.body = p1.body
    BY <1>1, <2>1 DEF Packet
  <2>3. p2.sig = Signature(p2.sig.by, p2.body) /\ p2.sig = Signature(who, pkt.body)
    BY <1>1, <1>2, <1>3, <2>1, <2>2
  <2>4. p2.sig.by = who /\ p2.body = pkt.body
    <3>1. Signature(p2.sig.by, p2.body) = Signature(who, pkt.body)
      BY <2>3
    <3> QED BY <3>1, SignatureInjective
  <2> QED BY <1>2, <2>1, <2>3, <2>4
<1>7. CASE \E q \in packets \cup ForeignPackets : pkt = [q EXCEPT !.body.to = Nobody]
  <2>1. PICK q \in packets \cup ForeignPackets : pkt = [q EXCEPT !.body.to = Nobody]
    BY <1>7
  <2>2. q \in Packet
    BY <1>1, <1>2, <2>1
  <2>3. pkt.body.to = Nobody
    BY <2>1, <2>2 DEF Packet, Body
  <2> QED BY <2>3
<1> QED BY <1>4, <1>5, <1>6, <1>7 DEF PacketInTransit

(* The server's view after a packet: a packet of that client is behind it. *)
LEMMA AcceptedPacket ==
    ASSUME IInv, NEW s \in AnyServer, NEW pkt \in PacketInTransit, ServerAccepts(s, pkt)
    PROVE  /\ pkt.body.carried \in AnyClient /\ pkt.body.payload \in Payload
           /\ \E q \in packets : /\ q.sig = Signature(pkt.body.carried, q.body)
                                 /\ q.body = pkt.body /\ q.body.to = s
<1>1. Verifies(pkt.sig, pkt.body, pkt.body.carried) /\ pkt.body.to = s /\ s # Nobody
  BY DEF ServerAccepts, ServerOpens
<1>2. PICK q \in packets : q.body = pkt.body /\ q.sig = Signature(pkt.body.carried, q.body)
  BY <1>1, VerifiedPacket
<1>3. q \in Packet /\ q.sig.by = pkt.body.carried
  BY <1>2 DEF IInv, TypeOK, Signature
<1>4. q.sig.by \in AnyClient
  BY <1>1, <1>2, <1>3 DEF IInv, PacketsGenuine, Packet
<1> QED BY <1>1, <1>2, <1>3, <1>4 DEF Packet, Body

(* The same for a client, whose peer is a server. *)
LEMMA OpenedPacket ==
    ASSUME IInv, NEW c \in AnyClient, NEW pkt \in PacketInTransit,
           ClientPacketStatus(c, pkt) = "OK"
    PROVE  /\ cl[c].server \in AnyServer /\ pkt.body.payload \in Payload
           /\ \E q \in packets : /\ q.sig = Signature(cl[c].server, q.body)
                                 /\ q.body = pkt.body /\ q.body.to = c
<1>1. Verifies(pkt.sig, pkt.body, cl[c].server) /\ pkt.body.to = c
  BY DEF ClientPacketStatus
<1>2. cl[c] \in ClientStruct
  BY DEF IInv, TypeOK
<1>3. cl[c].server \in AnyServer \cup {Nobody} /\ cl[c].server \notin Foreign /\ c # Nobody
  BY <1>2 DEF ClientStruct
<1>4. PICK q \in packets : q.body = pkt.body /\ q.sig = Signature(cl[c].server, q.body)
  BY <1>1, <1>3, VerifiedPacket
<1>5. q \in Packet /\ q.sig.by = cl[c].server
  BY <1>4 DEF IInv, TypeOK, Signature
<1>6. cl[c].server \in AnyServer /\ q.body.payload \in Payload
  BY <1>3, <1>5 DEF Packet, Body
<1> QED BY <1>1, <1>4, <1>6

(* A client seals its own name for the server it knows, which is a         *)
(* certified one if the client is of Layer 4.                              *)
LEMMA ClientSealsStep ==
    ASSUME IInv, NEW c \in AnyClient, ClientSeals(c)
    PROVE  IInv'
<1>1. PICK p \in Payload : /\ cl[c].created /\ cl[c].server # Nobody
                           /\ Transmit(ClientPacket(c, p))
                           /\ Return(c, "OK") /\ UNCHANGED <<cl, sv, mirror, certs>>
  BY DEF ClientSeals
<1> DEFINE body == [to |-> cl[c].server, carried |-> c, payload |-> p]
           pkt == ClientPacket(c, p)
<1>2. cl[c] \in ClientStruct
  BY DEF IInv, TypeOK
<1>3. cl[c].server \in AnyServer
  BY <1>1, <1>2 DEF ClientStruct
<1>4. body \in Body /\ body.to = cl[c].server /\ body.carried = c
  BY <1>3 DEF Body
<1>5. pkt = [sig |-> Signature(c, body), body |-> body]
  BY DEF ClientPacket
<1> HIDE DEF body, pkt
<1>6. /\ pkt \in Packet /\ pkt.sig.over = pkt.body
      /\ pkt.sig.by = c /\ pkt.body.to = cl[c].server /\ pkt.body.carried = c
  BY <1>4, <1>5 DEF Packet, Signature
<1>7. c \in CaClient => cl[c].server \in Certified
  BY <1>1 DEF IInv, VerifiedServers
<1>8. "OK" \in Code
  BY DEF Code
<1>9. Transmit(pkt) /\ ret' \in RetType
  BY <1>1, <1>8, ReturnType DEF pkt
<1> QED BY <1>1, <1>3, <1>6, <1>7, <1>9, TransmitStep

(* naion_csm_client_encrypt. *)
LEMMA ClientEncryptStep ==
    ASSUME IInv, NEW c \in AnyClient, ClientEncrypt(c)
    PROVE  IInv'
<1>1. {"NO_DATA", "BUFFER_TOO_SMALL", "CRYPTO"} \in SUBSET Code
  BY DEF Code
<1> QED BY <1>1, RefuseStep, ClientSealsStep DEF ClientEncrypt

(* A server that has a client's key answers that client.                   *)
LEMMA ServerSealsStep ==
    ASSUME IInv, NEW s \in AnyServer, ServerSeals(s)
    PROVE  IInv'
<1>1. PICK p \in Payload : /\ sv[s].view.peer # Nobody /\ Transmit(ServerPacket(s, p))
                           /\ Return(s, "OK") /\ UNCHANGED <<cl, sv, mirror, certs>>
  BY DEF ServerSeals
<1> DEFINE body == [to |-> sv[s].view.peer, carried |-> Nobody, payload |-> p]
           pkt == ServerPacket(s, p)
<1>2. sv[s].view.peer \in AnyClient
  BY <1>1 DEF IInv, TypeOK, ServerStruct, View
<1>3. SpokeTo(sv[s].view.peer, s)
  BY <1>1 DEF IInv, KnowsSpeakers, ViewGenuine
<1>4. body \in Body /\ body.to = sv[s].view.peer /\ body.carried = Nobody
  BY <1>2 DEF Body
<1>5. pkt = [sig |-> Signature(s, body), body |-> body]
  BY DEF ServerPacket
<1> HIDE DEF body, pkt
<1>6. /\ pkt \in Packet /\ pkt.sig.over = pkt.body
      /\ pkt.sig.by = s /\ pkt.body.to = sv[s].view.peer /\ pkt.body.carried = Nobody
  BY <1>4, <1>5 DEF Packet, Signature
<1>7. "OK" \in Code
  BY DEF Code
<1>8. Transmit(pkt) /\ ret' \in RetType
  BY <1>1, <1>7, ReturnType DEF pkt
<1> QED BY <1>1, <1>2, <1>3, <1>6, <1>8, TransmitStep

(* naion_csm_server_encrypt. *)
LEMMA ServerEncryptStep ==
    ASSUME IInv, NEW s \in AnyServer, ServerEncrypt(s)
    PROVE  IInv'
<1>1. /\ {"NO_DATA"} \in SUBSET Code /\ {"STATE"} \in SUBSET Code
      /\ {"BUFFER_TOO_SMALL"} \in SUBSET Code
  BY DEF Code
<1> QED BY <1>1, RefuseStep, ServerSealsStep DEF ServerEncrypt

(* server_decrypt, as the struct and the object around it see it,          *)
(* whichever codes the implementation reports its failures with.           *)
LEMMA Reception ==
    ASSUME IInv, NEW s \in AnyServer, NEW unopened \in Code \ {"OK"},
           NEW unverified \in Code \ {"OK"}, ServerReceive(s, unopened, unverified)
    PROVE  \E z \in ServerStruct :
             /\ sv' = [sv EXCEPT ![s] = z]
             /\ ViewGenuine(s, z.view)
             /\ ret'.code # "OK" => z = sv[s]
             /\ UNCHANGED <<cl, certs, packets>> /\ ret' \in RetType
             /\ \/ ret'.out = {}
                \/ \E q \in packets : /\ q.sig.by \in AnyClient
                                      /\ ret'.out = {[from |-> q.sig.by, to |-> s,
                                            session |-> NoSession,
                                            payload |-> q.body.payload]}
                                      /\ q.body.to = s
<1>1. PICK pkt \in PacketInTransit :
        LET r == Received(s, pkt, Failure(s, pkt, unopened, unverified))
        IN  sv' = [sv EXCEPT ![s].view = r.view] /\ ret' = r.ret
  BY DEF ServerReceive
<1>2. sv[s] \in ServerStruct
  BY DEF IInv, TypeOK
<1> DEFINE failure == Failure(s, pkt, unopened, unverified)
           v == Learnt(s, pkt)
           z == [sv[s] EXCEPT !.view = v]
<1>3. failure \in Code /\ failure # "OK" /\ "OK" \in Code
  BY DEF Failure, Code
<1> HIDE DEF failure
<1>4. /\ sv' = [sv EXCEPT ![s] = z]
      /\ ret' = Received(s, pkt, failure).ret
  BY <1>1 DEF Received, failure
<1>5. CASE ServerAccepts(s, pkt)
  <2>1. /\ pkt.body.carried \in AnyClient /\ pkt.body.payload \in Payload
        /\ \E q \in packets : /\ q.sig = Signature(pkt.body.carried, q.body)
                              /\ q.body = pkt.body /\ q.body.to = s
    BY <1>5, AcceptedPacket
  <2>2. v = [peer |-> pkt.body.carried, known |-> TRUE]
    BY <1>5 DEF Learnt
  <2>3. v \in View /\ v.peer = pkt.body.carried
    BY <2>1, <2>2 DEF View
  <2>4. z \in ServerStruct /\ z.view = v
    BY <1>2, <2>3 DEF ServerStruct
  <2>5. ret' = [at |-> s, code |-> "OK",
                out |-> {[from |-> pkt.body.carried, to |-> s, session |-> NoSession,
                          payload |-> pkt.body.payload]}]
    BY <1>4, <1>5 DEF Received
  <2>6. [from |-> pkt.body.carried, to |-> s, session |-> NoSession,
         payload |-> pkt.body.payload] \in Delivery
    BY <2>1 DEF Delivery
  <2>7. ret' \in RetType /\ ret'.code = "OK"
    BY <1>3, <2>5, <2>6 DEF RetType
  <2>8. PICK q \in packets : /\ q.sig = Signature(pkt.body.carried, q.body)
                             /\ q.body = pkt.body /\ q.body.to = s
    BY <2>1
  <2>9. q.sig.by = pkt.body.carried
    BY <2>8 DEF Signature
  <2>10. ViewGenuine(s, z.view)
    BY <2>1, <2>3, <2>4, <2>8 DEF ViewGenuine, SpokeTo
  <2>11. \E r \in packets : /\ r.sig.by \in AnyClient
                            /\ ret'.out = {[from |-> r.sig.by, to |-> s,
                                  session |-> NoSession, payload |-> r.body.payload]}
                            /\ r.body.to = s
    BY <2>1, <2>5, <2>8, <2>9
  <2> HIDE DEF z, v
  <2> QED BY <1>4, <2>4, <2>7, <2>10, <2>11 DEF ServerReceive
<1>6. CASE ~ServerAccepts(s, pkt)
  <2>1. v = sv[s].view
    BY <1>6 DEF Learnt
  <2>2. z = sv[s]
    BY <1>2, <2>1 DEF ServerStruct
  <2>3. ret' = [at |-> s, code |-> failure, out |-> {}]
    BY <1>4, <1>6 DEF Received
  <2>4. ret' \in RetType /\ ret'.out = {}
    BY <1>3, <2>3 DEF RetType
  <2>5. ViewGenuine(s, sv[s].view)
    BY DEF IInv, KnowsSpeakers
  <2> HIDE DEF z, v
  <2> QED BY <1>2, <1>4, <2>2, <2>4, <2>5 DEF ServerReceive
<1> QED BY <1>5, <1>6

(* The codes the three implementations report a failed decrypt call with.  *)
LEMMA FailureCodes ==
    /\ ServerRefusal \in SUBSET Code
    /\ {"CRYPTO", "VERIFY_FAILED", "RAISED"} \in SUBSET (Code \ {"OK"})
BY DEF ServerRefusal, Code

(* A decrypt call on a struct no object owns. *)
LEMMA RawReceiveStep ==
    ASSUME IInv, NEW s \in AnyServer, s \in Server => ~mirror[s].object,
           NEW unopened \in Code \ {"OK"}, NEW unverified \in Code \ {"OK"},
           ServerReceive(s, unopened, unverified), UNCHANGED mirror
    PROVE  IInv'
<1>1. PICK z \in ServerStruct :
        /\ sv' = [sv EXCEPT ![s] = z]
        /\ ViewGenuine(s, z.view)
        /\ UNCHANGED <<cl, certs, packets>> /\ ret' \in RetType
  BY Reception
<1>2. MirrorAgrees' /\ mirror' \in [Server -> Mirror]
  BY <1>1 DEF IInv, TypeOK, MirrorAgrees
<1> QED BY <1>1, <1>2, ServerStep

(* A decrypt call through the object, which copies the view on success.    *)
LEMMA ObjectDecryptStep ==
    ASSUME IInv, NEW s \in Server, ObjectServerDecrypt(s)
    PROVE  IInv'
<1>1. ServerRefusal \in SUBSET Code
  BY DEF ServerRefusal, Code
<1>2. CASE Refuse(s, ServerRefusal)
  BY <1>1, <1>2, RefuseStep
<1>3. CASE /\ ServerReceive(s, "CRYPTO", "CRYPTO") /\ mirror[s].object
           /\ mirror' = IF ret'.code = "OK"
                        THEN [mirror EXCEPT ![s].view = sv'[s].view] ELSE mirror
  <2>1. PICK z \in ServerStruct :
          /\ sv' = [sv EXCEPT ![s] = z]
          /\ ViewGenuine(s, z.view)
          /\ ret'.code # "OK" => z = sv[s]
          /\ UNCHANGED <<cl, certs, packets>> /\ ret' \in RetType
    BY <1>3, Reception, FailureCodes
  <2>2. sv'[s] = z /\ z.view \in View
    BY <2>1 DEF IInv, TypeOK, ServerStruct
  <2>3. mirror[s] \in Mirror
    BY DEF IInv, TypeOK
  <2> DEFINE m == [mirror[s] EXCEPT !.view = z.view]
  <2>4. m \in Mirror /\ m.view = z.view
    BY <2>2, <2>3 DEF Mirror
  <2>5. mirror' = [mirror EXCEPT ![s] = m] \/ (mirror' = mirror /\ z = sv[s])
    BY <1>3, <2>1, <2>2
  <2> HIDE DEF m
  <2>6. mirror' \in [Server -> Mirror]
    BY <2>4, <2>5 DEF IInv, TypeOK
  <2>7. MirrorAgrees'
    <3> SUFFICES ASSUME NEW t \in Server, mirror'[t].object
                 PROVE  mirror'[t].view = sv'[t].view
      BY DEF MirrorAgrees
    <3>1. CASE t = s
      BY <1>3, <2>1, <2>2, <2>4, <2>5, <3>1 DEF IInv, TypeOK, MirrorAgrees
    <3>2. CASE t # s
      BY <2>1, <2>5, <3>2 DEF IInv, TypeOK, MirrorAgrees
    <3> QED BY <3>1, <3>2
  <2> QED BY <2>1, <2>6, <2>7, ServerStep
<1> QED BY <1>2, <1>3 DEF ObjectServerDecrypt

(* A server struct is created or wiped, with or without an object.         *)
LEMMA ServerResetStep ==
    ASSUME IInv, NEW s \in AnyServer, ServerCreate(s) \/ ServerWipe(s),
           \/ UNCHANGED mirror /\ (s \in Server => ~mirror[s].object)
           \/ /\ s \in Server
              /\ \E o \in Mirror : mirror' = [mirror EXCEPT ![s] = o] /\ o.view = NoView
    PROVE  IInv'
<1>1. PICK z \in ServerStruct : sv' = [sv EXCEPT ![s] = z] /\ z.view = NoView
  BY FreshStructs DEF ServerCreate, ServerWipe
<1>2. UNCHANGED <<cl, certs, packets>> /\ ret' \in RetType
  <2>1. "OK" \in Code
    BY DEF Code
  <2> QED BY <2>1, ReturnType DEF ServerCreate, ServerWipe
<1>3. ViewGenuine(s, z.view)
  BY <1>1, FreshStructs DEF ViewGenuine
<1>4. mirror' \in [Server -> Mirror]
  BY DEF IInv, TypeOK
<1>5. MirrorAgrees'
  BY <1>1 DEF IInv, TypeOK, MirrorAgrees
<1> QED BY <1>1, <1>2, <1>3, <1>4, <1>5, ServerStep

(* A client struct is created or wiped.                                    *)
LEMMA ClientResetStep ==
    ASSUME IInv, NEW c \in AnyClient,
           (ClientCreate(c) /\ c \in Client) \/ ClientWipe(c) \/ CaClientCreate(c)
    PROVE  IInv'
<1>1. PICK z \in ClientStruct : /\ cl' = [cl EXCEPT ![c] = z]
                                /\ c \in CaClient => z.server = Nobody
  BY FreshStructs DEF ClientCreate, ClientWipe, CaClientCreate
<1>2. UNCHANGED <<sv, mirror, certs, packets>> /\ ret' \in RetType
  <2>1. "OK" \in Code
    BY DEF Code
  <2> QED BY <2>1, ReturnType DEF ClientCreate, ClientWipe, CaClientCreate
<1> QED BY <1>1, <1>2, ClientStep

(* A certificate that verifies, damaged or not, is a certified server's.   *)
LEMMA VerifiedCert ==
    ASSUME IInv, NEW c \in CaClient, NEW m1 \in CertInTransit, CertVerifies(c, m1)
    PROVE  m1.ed \in Certified
<1>1. \A m \in certs : m \in Cert /\ (m.sig # Nobody => m.sig = m.ed /\ m.ed \in Certified)
  BY DEF IInv, TypeOK, CertsGenuine
<1>2. CASE m1 \in certs
  BY <1>1, <1>2 DEF CertVerifies
<1>3. CASE \E a \in certs, b \in certs : m1 = [a EXCEPT !.ed = b.ed]
  <2>1. PICK a \in certs, b \in certs : m1 = [a EXCEPT !.ed = b.ed]
    BY <1>3
  <2>2. m1.sig = a.sig
    BY <1>1, <2>1 DEF Cert
  <2> QED BY <1>1, <2>1, <2>2 DEF CertVerifies
<1> QED BY <1>2, <1>3 DEF CertInTransit

(* handshake_verify stores a certified server or nothing.                  *)
LEMMA HandshakeVerifyStep ==
    ASSUME IInv, NEW c \in CaClient, HandshakeVerify(c)
    PROVE  IInv'
<1>1. /\ {"INVALID_ARGUMENT"} \in SUBSET Code /\ {"VERIFY_FAILED"} \in SUBSET Code
      /\ "OK" \in Code
  BY DEF Code
<1>2. CASE Refuse(c, {"INVALID_ARGUMENT"}) \/ Refuse(c, {"VERIFY_FAILED"})
  BY <1>1, <1>2, RefuseStep
<1>3. CASE \E m1 \in CertInTransit :
            /\ CertVerifies(c, m1)
            /\ cl' = [cl EXCEPT ![c].server = m1.ed, ![c].verified = TRUE]
            /\ Return(c, "OK") /\ UNCHANGED <<sv, mirror, certs, packets>>
  <2>1. PICK m1 \in CertInTransit :
            /\ CertVerifies(c, m1)
            /\ cl' = [cl EXCEPT ![c].server = m1.ed, ![c].verified = TRUE]
            /\ Return(c, "OK") /\ UNCHANGED <<sv, mirror, certs, packets>>
    BY <1>3
  <2>2. m1.ed \in Certified /\ cl[c] \in ClientStruct
    BY <2>1, VerifiedCert DEF IInv, TypeOK
  <2> DEFINE z == [cl[c] EXCEPT !.server = m1.ed, !.verified = TRUE]
  <2>3. z \in ClientStruct /\ z.server = m1.ed
    BY <2>2 DEF ClientStruct
  <2>4. cl' = [cl EXCEPT ![c] = z]
    BY <2>1 DEF IInv, TypeOK
  <2> HIDE DEF z
  <2>5. ret' \in RetType
    BY <1>1, <2>1, ReturnType
  <2> QED BY <2>1, <2>2, <2>3, <2>4, <2>5, ClientStep
<1> QED BY <1>2, <1>3 DEF HandshakeVerify

(* handshake_response shows the CA's signature only if the CA made it.     *)
LEMMA HandshakeResponseStep ==
    ASSUME IInv, NEW s \in CaServer, HandshakeResponse(s)
    PROVE  IInv'
<1>1. {"BUFFER_TOO_SMALL"} \in SUBSET Code /\ "OK" \in Code
  BY DEF Code
<1>2. CASE Refuse(s, {"BUFFER_TOO_SMALL"})
  BY <1>1, <1>2, RefuseStep
<1>3. CASE /\ certs' = certs \cup {CertOf(s)} /\ Return(s, "OK")
           /\ UNCHANGED <<cl, sv, mirror, packets>>
  <2>1. CertOf(s) \in Cert /\ (CertOf(s).sig # Nobody =>
            CertOf(s).sig = CertOf(s).ed /\ CertOf(s).ed \in Certified)
    BY DEF CertOf, Cert
  <2>2. ret' \in RetType
    BY <1>1, <1>3, ReturnType
  <2>3. TypeOK'
    BY <1>3, <2>1, <2>2 DEF IInv, TypeOK, RetType
  <2>4. CertsGenuine'
    BY <1>3, <2>1 DEF IInv, CertsGenuine
  <2> QED BY <1>3, <2>3, <2>4 DEF IInv, PacketsGenuine, KnowsSpeakers, ViewGenuine,
             VerifiedServers, AnswersOnlySpeakers, SpokeTo, CaClientsAddressCertified,
             MirrorAgrees
<1> QED BY <1>2, <1>3 DEF HandshakeResponse

(* A decrypt call of a client changes no struct. *)
LEMMA ClientOpensStep ==
    ASSUME IInv, NEW c \in AnyClient, ClientOpens(c)
    PROVE  IInv'
<1>1. {ClientPacketStatus(c, pkt) : pkt \in PacketInTransit} \ {"OK"} \in SUBSET Code
  BY DEF ClientPacketStatus, Code
<1>2. CASE Refuse(c, {ClientPacketStatus(c, pkt) : pkt \in PacketInTransit} \ {"OK"})
  BY <1>1, <1>2, RefuseStep
<1>3. ASSUME NEW pkt \in PacketInTransit, ClientPacketStatus(c, pkt) = "OK",
             ret' = [at |-> c, code |-> "OK",
                     out |-> {[from |-> cl[c].server, to |-> c, session |-> NoSession,
                               payload |-> pkt.body.payload]}],
             UNCHANGED <<cl, sv, mirror, certs, packets>>
      PROVE  IInv'
  <2>1. cl[c].server \in AnyServer /\ pkt.body.payload \in Payload
    BY <1>3, OpenedPacket
  <2>2. [from |-> cl[c].server, to |-> c, session |-> NoSession,
         payload |-> pkt.body.payload] \in Delivery
    BY <2>1 DEF Delivery
  <2>3. "OK" \in Code
    BY DEF Code
  <2>4. ret' \in RetType
    BY <1>3, <2>2, <2>3 DEF RetType
  <2> QED BY <1>3, <2>4, QuietStep
<1> QED BY <1>2, <1>3 DEF ClientOpens

\* A client that decrypts refuses, fails or opens one packet; all keep the invariant.
LEMMA ClientDecryptStep ==
    ASSUME IInv, NEW c \in AnyClient, ClientDecrypt(c)
    PROVE  IInv'
<1>1. {"INVALID_ARGUMENT", "BUFFER_TOO_SMALL", "CRYPTO"} \in SUBSET Code
  BY DEF Code
<1> QED BY <1>1, RefuseStep, ClientOpensStep DEF ClientDecrypt

(* The Layer 3 struct used directly. *)
LEMMA RawServerStep ==
    ASSUME IInv, NEW s \in Server, RawServer(s)
    PROVE  IInv'
<1>1. ServerRefusal \in SUBSET Code /\ "CRYPTO" \in Code \ {"OK"}
  BY FailureCodes
<1>2. CASE (ServerCreate(s) \/ ServerWipe(s)) /\ UNCHANGED mirror
  BY <1>2, ServerResetStep DEF RawServer
<1>3. CASE ServerEncrypt(s)
  BY <1>3, ServerEncryptStep
<1>4. CASE ServerDecrypt(s)
  <2>1. CASE Refuse(s, ServerRefusal)
    BY <1>1, <2>1, RefuseStep
  <2>2. CASE ServerReceive(s, "CRYPTO", "CRYPTO") /\ UNCHANGED mirror
    BY <1>1, <2>2, RawReceiveStep DEF RawServer
  <2> QED BY <1>4, <2>1, <2>2 DEF ServerDecrypt
<1> QED BY <1>2, <1>3, <1>4 DEF RawServer

(* The Layer 3 struct used through a naion.hpp object. *)
LEMMA ObjectServerStep ==
    ASSUME IInv, NEW s \in Server, ObjectServer(s)
    PROVE  IInv'
<1>1. CASE ObjectServerCreate(s) \/ ObjectServerDestroy(s)
  <2> DEFINE o == [object |-> TRUE, view |-> NoView]
  <2>1. o \in Mirror /\ o.view = NoView /\ NoObject \in Mirror /\ NoObject.view = NoView
    BY FreshStructs DEF NoObject
  <2>2. \/ mirror' = [mirror EXCEPT ![s] = o]
        \/ mirror' = [mirror EXCEPT ![s] = NoObject]
    BY <1>1 DEF ObjectServerCreate, ObjectServerDestroy
  <2> HIDE DEF o
  <2> QED BY <1>1, <2>1, <2>2, ServerResetStep DEF ObjectServerCreate, ObjectServerDestroy
<1>2. CASE ObjectServerEncrypt(s)
  <2>1. {"NO_DATA", "OUT_OF_RANGE"} \in SUBSET Code
    BY DEF Code
  <2> QED BY <1>2, <2>1, RefuseStep, ServerEncryptStep DEF ObjectServerEncrypt
<1> QED BY <1>1, <1>2, ObjectDecryptStep DEF ObjectServer

(* The calls of a Layer 3 client. *)
LEMMA Layer3ClientStep ==
    ASSUME IInv, NEW c \in Client, ClientCalls(c)
    PROVE  IInv'
<1>1. c \notin CaClient
  OBVIOUS
<1>2. CASE ObjectClientEncrypt(c)
  <2>1. {"NO_DATA", "OUT_OF_RANGE"} \in SUBSET Code
    BY DEF Code
  <2> QED BY <1>1, <1>2, <2>1, RefuseStep, ClientEncryptStep DEF ObjectClientEncrypt
<1> QED BY <1>1, <1>2, ClientResetStep, ClientEncryptStep, ClientDecryptStep DEF ClientCalls

(* The calls of a Layer 4 client. *)
LEMMA Layer4ClientStep ==
    ASSUME IInv, NEW c \in CaClient, CaClientCalls(c)
    PROVE  IInv'
<1>1. {"STATE"} \in SUBSET Code
  BY DEF Code
<1>2. CASE CaClientEncrypt(c)
  BY <1>1, <1>2, RefuseStep, ClientEncryptStep DEF CaClientEncrypt
<1>3. CASE CaClientDecrypt(c)
  BY <1>1, <1>3, RefuseStep, ClientDecryptStep DEF CaClientDecrypt
<1> QED BY <1>2, <1>3, ClientResetStep, HandshakeVerifyStep DEF CaClientCalls

(* The calls of a Layer 4 server. *)
LEMMA Layer4ServerStep ==
    ASSUME IInv, NEW s \in CaServer, CaServerCalls(s)
    PROVE  IInv'
<1>1. /\ {"STATE"} \in SUBSET Code /\ ServerRefusal \in SUBSET Code
      /\ "CRYPTO" \in Code \ {"OK"}
  BY DEF ServerRefusal, Code
<1>2. s \notin Server
  OBVIOUS
<1>3. CASE CaServerEncrypt(s)
  BY <1>1, <1>3, RefuseStep, ServerEncryptStep DEF CaServerEncrypt
<1>4. CASE CaServerDecrypt(s)
  BY <1>1, <1>2, <1>4, RefuseStep, RawReceiveStep DEF CaServerDecrypt
<1>5. CASE (ServerCreate(s) \/ ServerWipe(s)) /\ UNCHANGED mirror
  BY <1>2, <1>5, ServerResetStep
<1> QED BY <1>3, <1>4, <1>5, HandshakeResponseStep DEF CaServerCalls

(* A packet that a Go struct takes for one of Nobody changes no client, and *)
(* leaves a server with the zero key, for which it cannot seal.            *)
LEMMA NobodysPacketStep ==
    ASSUME IInv, NEW e \in Endpoint, NEW p \in Payload, TakenForNobodys(e, p),
           \/ UNCHANGED <<cl, sv, mirror, certs, packets>>
           \/ /\ e \in AnyServer /\ (e \in Server => ~mirror[e].object)
              /\ sv' = [sv EXCEPT ![e].view = [peer |-> Nobody, known |-> TRUE]]
              /\ UNCHANGED <<cl, mirror, certs, packets>>
    PROVE  IInv'
<1> DEFINE m == [from |-> Nobody, to |-> e, session |-> NoSession, payload |-> p]
<1>1. ret' \in RetType
  <2>1. m \in Delivery /\ "OK" \in Code
    BY DEF Delivery, Code
  <2> HIDE DEF m
  <2>2. ret' = [at |-> e, code |-> "OK", out |-> {m}]
    BY DEF TakenForNobodys, m
  <2> QED BY <2>1, <2>2 DEF RetType
<1>2. CASE UNCHANGED <<cl, sv, mirror, certs, packets>>
  BY <1>1, <1>2, QuietStep
<1>3. CASE /\ e \in AnyServer /\ (e \in Server => ~mirror[e].object)
           /\ sv' = [sv EXCEPT ![e].view = [peer |-> Nobody, known |-> TRUE]]
           /\ UNCHANGED <<cl, mirror, certs, packets>>
  <2> DEFINE v == [peer |-> Nobody, known |-> TRUE]
             z == [sv[e] EXCEPT !.view = v]
  <2>1. z \in ServerStruct /\ z.view.peer = Nobody
    <3>1. v \in View /\ v.peer = Nobody
      BY DEF View
    <3>2. sv[e] \in ServerStruct
      BY <1>3 DEF IInv, TypeOK
    <3> HIDE DEF v
    <3> QED BY <3>1, <3>2 DEF ServerStruct
  <2>2. sv' = [sv EXCEPT ![e] = z]
    BY <1>3 DEF IInv, TypeOK
  <2>3. ViewGenuine(e, z.view)
    BY <2>1 DEF ViewGenuine
  <2> HIDE DEF z
  <2>4. MirrorAgrees' /\ mirror' \in [Server -> Mirror]
    BY <1>3, <2>2 DEF IInv, TypeOK, MirrorAgrees
  <2> QED BY <1>1, <1>3, <2>1, <2>2, <2>3, <2>4, ServerStep
<1> QED BY <1>2, <1>3

(* A wiped Go client can take a server that no CA has certified, but has   *)
(* no secret key to seal or open with.                                     *)
LEMMA GoHandshakeVerifyStep ==
    ASSUME IInv, NEW c \in CaClient, GoHandshakeVerify(c)
    PROVE  IInv'
<1>1. CASE HandshakeVerify(c)
  BY <1>1, HandshakeVerifyStep
<1>2. CASE \E m1 \in CertInTransit :
            /\ ~cl[c].created /\ m1.sig = Nobody
            /\ cl' = [cl EXCEPT ![c].server = m1.ed, ![c].verified = TRUE]
            /\ Return(c, "OK") /\ UNCHANGED <<sv, mirror, certs, packets>>
  <2>1. PICK m1 \in CertInTransit :
            /\ ~cl[c].created
            /\ cl' = [cl EXCEPT ![c].server = m1.ed, ![c].verified = TRUE]
            /\ Return(c, "OK") /\ UNCHANGED <<sv, mirror, certs, packets>>
    BY <1>2
  <2>2. m1.ed \in CaServer \cup {Nobody}
    BY DEF IInv, TypeOK, CertInTransit, Cert
  <2> DEFINE z == [cl[c] EXCEPT !.server = m1.ed, !.verified = TRUE]
  <2>3. z \in ClientStruct /\ ~z.created
    <3>1. cl[c] \in ClientStruct
      BY DEF IInv, TypeOK
    <3>2. z \in ClientStruct
      BY <2>2, <3>1 DEF ClientStruct
    <3>3. z.created = cl[c].created
      BY <3>1 DEF ClientStruct
    <3> QED BY <2>1, <3>2, <3>3
  <2>4. cl' = [cl EXCEPT ![c] = z]
    BY <2>1 DEF IInv, TypeOK
  <2> HIDE DEF z
  <2>5. "OK" \in Code
    BY DEF Code
  <2>6. ret' \in RetType
    BY <2>1, <2>5, ReturnType
  <2> QED BY <2>1, <2>3, <2>4, <2>6, ClientStep
<1> QED BY <1>1, <1>2 DEF GoHandshakeVerify

(* The calls of the Go port. *)
LEMMA GoStep ==
    ASSUME IInv, NEW e \in Endpoint, e \in Server => ~mirror[e].object, GoCalls(e)
    PROVE  IInv'
<1>1. /\ {"NO_DATA", "RANDOM_PROVIDER"} \in SUBSET Code /\ {"RANDOM_PROVIDER"} \in SUBSET Code
      /\ {"NO_DATA"} \in SUBSET Code /\ {"CRYPTO"} \in SUBSET Code
      /\ {"INVALID_ARGUMENT"} \in SUBSET Code /\ {"STATE"} \in SUBSET Code
      /\ "CRYPTO" \in Code \ {"OK"} /\ "VERIFY_FAILED" \in Code \ {"OK"}
  BY DEF Code
<1>2. ASSUME e \in AnyClient, GoClientEncrypt(e) \/ GoClientDecrypt(e)
      PROVE  IInv'
  <2>1. CASE ~cl[e].created /\ Return(e, "OK") /\ UNCHANGED <<cl, sv, mirror, certs, packets>>
    <3>1. "OK" \in Code
      BY DEF Code
    <3> QED BY <2>1, <3>1, ReturnType, QuietStep
  <2> QED BY <1>1, <1>2, <2>1, RefuseStep, ClientSealsStep, ClientOpensStep, NobodysPacketStep
          DEF GoClientEncrypt, GoClientDecrypt
<1>3. ASSUME e \in AnyServer, GoServerDecrypt(e)
      PROVE  IInv'
  BY <1>1, <1>3, RefuseStep, RawReceiveStep, NobodysPacketStep DEF GoServerDecrypt
<1>4. ASSUME e \in AnyServer, GoServerEncrypt(e) \/ GoCaServerEncrypt(e)
      PROVE  IInv'
  BY <1>1, <1>4, RefuseStep, ServerSealsStep
     DEF GoServerEncrypt, GoCaServerEncrypt
<1>5. ASSUME e \in AnyServer, ServerLife(e)
      PROVE  IInv'
  BY <1>5, ServerResetStep DEF ServerLife
<1>6. CASE e \in Client /\ (ClientCreate(e) \/ GoClientEncrypt(e) \/ GoClientDecrypt(e))
  BY <1>2, <1>6, ClientResetStep
<1>7. CASE e \in CaClient /\ \/ CaClientCreate(e) \/ GoHandshakeVerify(e)
                             \/ GoCaClientEncrypt(e) \/ GoCaClientDecrypt(e)
  BY <1>2, <1>7, ClientResetStep, GoHandshakeVerifyStep
     DEF GoCaClientEncrypt, GoCaClientDecrypt
<1>8. CASE e \in CaServer /\ \/ PortHandshakeResponse(e)
                             \/ GoCaServerEncrypt(e) \/ GoCaServerDecrypt(e)
  BY <1>3, <1>4, <1>8, HandshakeResponseStep
     DEF PortHandshakeResponse, HandshakeResponse, GoCaServerDecrypt
<1> QED BY <1>3, <1>4, <1>5, <1>6, <1>7, <1>8, ClientResetStep DEF GoCalls

(* The calls of the Python port. *)
LEMMA PyStep ==
    ASSUME IInv, NEW e \in Endpoint, e \in Server => ~mirror[e].object, PyCalls(e)
    PROVE  IInv'
<1>1. /\ {"NO_DATA", "RAISED"} \in SUBSET Code /\ {"INVALID_ARGUMENT", "RAISED"} \in SUBSET Code
      /\ {"NO_DATA"} \in SUBSET Code /\ {"RAISED"} \in SUBSET Code
      /\ {"INVALID_ARGUMENT"} \in SUBSET Code /\ {"STATE"} \in SUBSET Code
      /\ "CRYPTO" \in Code \ {"OK"} /\ "VERIFY_FAILED" \in Code \ {"OK"}
      /\ "RAISED" \in Code \ {"OK"}
  BY DEF Code
<1>2. ASSUME e \in AnyClient,
             PyClientEncrypt(e) \/ PyClientDecrypt(e) \/ PyCaClientDecrypt(e)
      PROVE  IInv'
  BY <1>1, <1>2, RefuseStep, ClientSealsStep, ClientOpensStep
     DEF PyClientEncrypt, PyClientDecrypt, PyCaClientDecrypt
<1>3. ASSUME e \in AnyServer, PyServerDecrypt(e)
      PROVE  IInv'
  BY <1>1, <1>3, RefuseStep, RawReceiveStep DEF PyServerDecrypt
<1>4. ASSUME e \in AnyServer, PyServerEncrypt(e) \/ PyCaServerEncrypt(e)
      PROVE  IInv'
  BY <1>1, <1>4, RefuseStep, ServerSealsStep
     DEF PyServerEncrypt, PyCaServerEncrypt
<1>5. ASSUME e \in AnyServer, ServerLife(e)
      PROVE  IInv'
  BY <1>5, ServerResetStep DEF ServerLife
<1>6. CASE e \in Client /\ (ClientCreate(e) \/ PyClientEncrypt(e) \/ PyClientDecrypt(e))
  BY <1>2, <1>6, ClientResetStep
<1>7. CASE e \in CaClient /\ \/ CaClientCreate(e) \/ PyHandshakeVerify(e)
                             \/ PyCaClientEncrypt(e) \/ PyCaClientDecrypt(e)
  BY <1>2, <1>7, ClientResetStep, HandshakeVerifyStep
     DEF PyHandshakeVerify, PyCaClientEncrypt
<1>8. CASE e \in CaServer /\ \/ PortHandshakeResponse(e)
                             \/ PyCaServerEncrypt(e) \/ PyCaServerDecrypt(e)
  BY <1>3, <1>4, <1>8, HandshakeResponseStep
     DEF PortHandshakeResponse, HandshakeResponse, PyCaServerDecrypt
<1> QED BY <1>3, <1>4, <1>5, <1>6, <1>7, <1>8, ClientResetStep DEF PyCalls

(* Every call of the C code preserves IInv. *)
LEMMA CStep ==
    ASSUME IInv, NEW e \in Endpoint, Calls(e)
    PROVE  IInv'
BY RawServerStep, ObjectServerStep, Layer3ClientStep, Layer4ClientStep, Layer4ServerStep
   DEF Calls, ServerCalls

(* A call leaves the objects of other endpoints alone, and one of a port   *)
(* leaves every object alone.                                              *)
LEMMA OwnObject ==
    ASSUME IInv, NEW e \in Endpoint, NEW s \in Server,
           \/ Calls(e) /\ s # e
           \/ GoCalls(e) \/ PyCalls(e)
    PROVE  mirror'[s] = mirror[s]
<1> USE DEF Refuse
<1>1. ASSUME NEW d, ClientSeals(d) \/ ClientOpens(d) \/ ServerSeals(d) PROVE mirror' = mirror
  BY <1>1 DEF ClientSeals, ClientOpens, ServerSeals
<1>2. CASE e \in Client /\ ClientCalls(e)
  BY <1>1, <1>2 DEF ClientCalls, ClientCreate, ClientWipe, ClientEncrypt, ClientDecrypt,
     ObjectClientEncrypt
<1>3. CASE e \in CaClient /\ CaClientCalls(e)
  BY <1>1, <1>3 DEF CaClientCalls, CaClientCreate, ClientWipe, HandshakeVerify,
     CaClientEncrypt, CaClientDecrypt, ClientEncrypt, ClientDecrypt
<1>4. CASE e \in Server /\ RawServer(e)
  BY <1>1, <1>4 DEF RawServer, ServerEncrypt, ServerDecrypt
<1>5. CASE e \in Server /\ ObjectServer(e) /\ s # e
  BY <1>1, <1>5 DEF ObjectServer, ObjectServerCreate, ObjectServerDestroy,
     ObjectServerEncrypt, ObjectServerDecrypt, ServerEncrypt, IInv, TypeOK
<1>6. CASE e \in CaServer /\ CaServerCalls(e)
  BY <1>1, <1>6 DEF CaServerCalls, HandshakeResponse, CaServerEncrypt, CaServerDecrypt,
     ServerEncrypt
<1>7. ASSUME NEW d, \/ ClientCreate(d) \/ CaClientCreate(d) \/ ClientWipe(d)
                    \/ HandshakeVerify(d) \/ PortHandshakeResponse(d) \/ ServerLife(d)
      PROVE  mirror' = mirror
  BY <1>7 DEF ClientCreate, CaClientCreate, ClientWipe, HandshakeVerify,
     PortHandshakeResponse, ServerLife
<1>8. CASE GoCalls(e)
  BY <1>1, <1>7, <1>8 DEF GoCalls, GoClientEncrypt, GoClientDecrypt, GoServerEncrypt,
     GoServerDecrypt, GoHandshakeVerify, GoCaClientEncrypt, GoCaClientDecrypt,
     GoCaServerEncrypt, GoCaServerDecrypt
<1>9. CASE PyCalls(e)
  BY <1>1, <1>7, <1>9 DEF PyCalls, PyClientEncrypt, PyClientDecrypt, PyServerEncrypt,
     PyServerDecrypt, PyHandshakeVerify, PyCaClientEncrypt, PyCaClientDecrypt,
     PyCaServerEncrypt, PyCaServerDecrypt
<1> QED BY <1>2, <1>3, <1>4, <1>5, <1>6, <1>8, <1>9 DEF Calls, ServerCalls

(* Every step of a program of any of the implementations preserves PInv. *)
LEMMA NextStep == PInv /\ [PortsNext]_portsVars => PInv'
<1> SUFFICES ASSUME PInv, [PortsNext]_portsVars PROVE PInv'
  OBVIOUS
<1> USE DEF PInv
<1>1. CASE UNCHANGED portsVars
  BY <1>1 DEF portsVars, vars, IInv, TypeOK, PacketsGenuine, CertsGenuine, KnowsSpeakers,
       ViewGenuine, VerifiedServers, AnswersOnlySpeakers, SpokeTo,
       CaClientsAddressCertified, MirrorAgrees, ObjectsAreC
<1>2. ASSUME NEW e \in Endpoint, UNCHANGED impl,
             \/ impl[e] = "C" /\ Calls(e)
             \/ impl[e] = "Go" /\ GoCalls(e)
             \/ impl[e] = "Python" /\ PyCalls(e)
      PROVE  PInv'
  <2>1. impl[e] # "C" => (e \in Server => ~mirror[e].object)
    BY DEF ObjectsAreC
  <2>2. IInv'
    BY <1>2, <2>1, CStep, GoStep, PyStep
  <2>3. ASSUME NEW s \in Server, mirror'[s].object
        PROVE  impl'[s] = "C"
    BY <1>2, <2>3, OwnObject DEF ObjectsAreC
  <2> QED BY <2>2, <2>3 DEF ObjectsAreC
<1> QED BY <1>1, <1>2 DEF PortsNext

-----------------------------------------------------------------------------
(* PInv holds in every state the calls of Layers 3 and 4 reach. *)
THEOREM Inductive == PortsSpec => []PInv
<1>1. PortsInit => PInv
  BY InitIInv, FreshStructs DEF PortsInit, PInv, ObjectsAreC, Init
<1>2. PInv /\ [PortsNext]_portsVars => PInv'
  BY NextStep
<1> QED BY <1>1, <1>2, PTL DEF PortsSpec

(* Every struct, message and object has its type. *)
THEOREM TypeCorrect == PortsSpec => []TypeOK
BY Inductive, PTL DEF PInv, IInv

(* A server, in C, Go or Python, answers only clients that spoke to that   *)
(* server in their own name.                                               *)
THEOREM AnswersSpeakers == PortsSpec => []AnswersOnlySpeakers
BY Inductive, PTL DEF PInv, IInv

(* A Layer 4 client seals for servers its CA certified only, also one of a *)
(* port that does not look at server_key_verified.                         *)
THEOREM AddressesCertified == PortsSpec => []CaClientsAddressCertified
BY Inductive, PTL DEF PInv, IInv

(* A Server object always agrees with the struct it owns.                  *)
THEOREM ObjectAgrees == PortsSpec => []MirrorAgrees
BY Inductive, PTL DEF PInv, IInv

-----------------------------------------------------------------------------
(* The early returns and the failures of Layers 3 and 4, in C. *)
LEMMA FailedCCall ==
    ASSUME IInv, NEW e \in Endpoint, Calls(e), ret'.code # "OK"
    PROVE  UNCHANGED <<cl, sv, mirror>>
<1>1. ASSUME NEW d \in Endpoint, NEW codes, Refuse(d, codes)
      PROVE  UNCHANGED <<cl, sv, mirror>>
  BY <1>1 DEF Refuse
<1>2. \A d \in Endpoint : ~Return(d, "OK")
  BY DEF Return
<1>3. ASSUME NEW s \in AnyServer, ServerReceive(s, "CRYPTO", "CRYPTO")
      PROVE  UNCHANGED <<cl, sv>>
  <2>1. PICK z \in ServerStruct : sv' = [sv EXCEPT ![s] = z] /\ z = sv[s] /\ UNCHANGED cl
    BY <1>3, Reception, FailureCodes
  <2> QED BY <2>1 DEF IInv, TypeOK
<1>4. ASSUME NEW c \in AnyClient, ClientEncrypt(c) \/ ClientDecrypt(c)
      PROVE  UNCHANGED <<cl, sv, mirror>>
  BY <1>1, <1>4 DEF ClientEncrypt, ClientDecrypt, ClientSeals, ClientOpens
<1>5. ASSUME NEW s \in AnyServer, ServerEncrypt(s)
      PROVE  UNCHANGED <<cl, sv, mirror>>
  BY <1>1, <1>5 DEF ServerEncrypt, ServerSeals
<1>6. CASE e \in Client /\ ClientCalls(e)
  BY <1>1, <1>2, <1>4, <1>6 DEF ClientCalls, ClientCreate, ClientWipe, ObjectClientEncrypt
<1>7. CASE e \in CaClient /\ CaClientCalls(e)
  BY <1>1, <1>2, <1>4, <1>7 DEF CaClientCalls, CaClientCreate, ClientWipe, HandshakeVerify,
     CaClientEncrypt, CaClientDecrypt
<1>8. CASE e \in Server /\ ServerCalls(e)
  BY <1>1, <1>2, <1>3, <1>5, <1>8 DEF ServerCalls, RawServer, ObjectServer, ServerCreate,
     ServerWipe, ServerDecrypt, ObjectServerCreate, ObjectServerDestroy,
     ObjectServerEncrypt, ObjectServerDecrypt
<1>9. CASE e \in CaServer /\ CaServerCalls(e)
  BY <1>1, <1>2, <1>3, <1>5, <1>9 DEF CaServerCalls, ServerCreate, ServerWipe,
     HandshakeResponse, CaServerEncrypt, CaServerDecrypt
<1> QED BY <1>6, <1>7, <1>8, <1>9 DEF Calls

(* The same in the ports, which keep what a failed call has computed in    *)
(* local variables. *)
LEMMA FailedPortCall ==
    ASSUME IInv, NEW e \in Endpoint, GoCalls(e) \/ PyCalls(e), ret'.code # "OK"
    PROVE  UNCHANGED <<cl, sv, mirror>>
<1> USE DEF Refuse
<1>1. \A d : ~Return(d, "OK")
  BY DEF Return
<1>2. ASSUME NEW s \in AnyServer, NEW unopened \in {"CRYPTO", "RAISED"},
             ServerReceive(s, unopened, "VERIFY_FAILED")
      PROVE  UNCHANGED <<cl, sv>>
  <2>1. unopened \in Code \ {"OK"} /\ "VERIFY_FAILED" \in Code \ {"OK"}
    BY FailureCodes
  <2>2. PICK z \in ServerStruct : sv' = [sv EXCEPT ![s] = z] /\ z = sv[s] /\ UNCHANGED cl
    BY <1>2, <2>1, Reception
  <2> QED BY <2>2 DEF IInv, TypeOK
<1>3. ASSUME NEW d, ClientSeals(d) \/ ClientOpens(d) \/ ServerSeals(d)
      PROVE  UNCHANGED <<cl, sv, mirror>>
  BY <1>3 DEF ClientSeals, ClientOpens, ServerSeals
<1>4. ASSUME NEW d, NEW p, TakenForNobodys(d, p)
      PROVE  FALSE
  BY <1>4 DEF TakenForNobodys
<1>5. ASSUME NEW d, \/ ClientCreate(d) \/ CaClientCreate(d) \/ ClientWipe(d)
                    \/ HandshakeVerify(d) \/ PortHandshakeResponse(d) \/ ServerLife(d)
      PROVE  UNCHANGED <<cl, sv, mirror>>
  BY <1>1, <1>5 DEF ClientCreate, CaClientCreate, ClientWipe, HandshakeVerify,
     PortHandshakeResponse, ServerLife, ServerCreate, ServerWipe
<1>6. CASE GoCalls(e)
  BY <1>1, <1>2, <1>3, <1>4, <1>5, <1>6 DEF GoCalls, GoClientEncrypt, GoClientDecrypt, GoServerEncrypt,
     GoServerDecrypt, GoHandshakeVerify, GoCaClientEncrypt, GoCaClientDecrypt,
     GoCaServerEncrypt, GoCaServerDecrypt
<1>7. CASE PyCalls(e)
  BY <1>2, <1>3, <1>5, <1>7 DEF PyCalls, PyClientEncrypt, PyClientDecrypt, PyServerEncrypt,
     PyServerDecrypt, PyHandshakeVerify, PyCaClientEncrypt, PyCaClientDecrypt,
     PyCaServerEncrypt, PyCaServerDecrypt
<1> QED BY <1>6, <1>7

(* A call that fails changes no struct and no object, whichever check it   *)
(* failed and however far it had come.                                     *)
THEOREM FailuresTeachNothing == PortsSpec => FailureTeachesNothing
<1>1. PInv /\ [PortsNext]_portsVars => [ret'.code # "OK" => UNCHANGED <<cl, sv, mirror>>]_vars
  BY FailedCCall, FailedPortCall DEF PInv, PortsNext, portsVars
<1> QED BY <1>1, Inductive, PTL DEF PortsSpec, FailureTeachesNothing

-----------------------------------------------------------------------------
(* What the channel sees of a call that returns nothing, or one payload of *)
(* an endpoint. *)
LEMMA ReturnedOnChannel ==
    /\ ret'.out = {} => Attributed' = {}
    /\ \A m : ret'.out = {m} /\ m.from # Nobody => Attributed' = {m}
BY DEF Attributed

(* A refused call neither sends nor delivers. *)
LEMMA RefuseRefines ==
    ASSUME NEW e \in Endpoint, NEW codes, Refuse(e, codes)
    PROVE  Channel!Other
<1>1. ret'.out = {}
  BY DEF Refuse, Return
<1> QED BY <1>1, ReturnedOnChannel DEF Refuse, Sealed, Channel!Other

(* A call that returns no payload and sends nothing does not show either. *)
LEMMA SilentRefines ==
    ASSUME UNCHANGED packets, NEW e \in Endpoint, NEW code, Return(e, code)
    PROVE  Channel!Other
<1>1. ret'.out = {}
  BY DEF Return
<1> QED BY <1>1, ReturnedOnChannel DEF Sealed, Channel!Other

(* A packet that reaches the transport is a Send, one that is lost is not. *)
LEMMA TransmitRefines ==
    ASSUME NEW pkt \in Packet, Transmit(pkt), NEW e \in Endpoint, Return(e, "OK"),
           pkt.body.to \in Endpoint
    PROVE  Channel!Next
<1> DEFINE d == [from |-> pkt.sig.by, to |-> pkt.body.to, session |-> NoSession,
                 payload |-> pkt.body.payload]
<1>1. d \in Channel!Message
  BY DEF Channel!Message, Packet, Body
<1>2. Attributed' = {}
  BY ReturnedOnChannel DEF Return
<1>3. CASE packets' = packets
  BY <1>2, <1>3 DEF Sealed, Channel!Next, Channel!Other
<1>4. CASE packets' = packets \cup {pkt}
  <2>1. Sealed' = Sealed \cup {d}
    BY <1>4 DEF Sealed
  <2> QED BY <1>1, <1>2, <2>1 DEF Channel!Next, Channel!Send
<1> QED BY <1>3, <1>4 DEF Transmit

(* A payload returned out of a packet on the transport is a Deliver.       *)
LEMMA DeliverRefines ==
    ASSUME UNCHANGED packets, NEW q \in packets, q \in Packet,
           q.sig.by # q.body.to,
           ret'.out = {[from |-> q.sig.by, to |-> q.body.to, session |-> NoSession,
                        payload |-> q.body.payload]}
    PROVE  Channel!Next
<1> DEFINE d == [from |-> q.sig.by, to |-> q.body.to, session |-> NoSession,
                 payload |-> q.body.payload]
<1>1. d \in Channel!Message
  BY DEF Channel!Message, Packet, Body
<1>2. d \in Sealed /\ Sealed' = Sealed
  BY DEF Sealed
<1>3. d.from = q.sig.by /\ d.from # d.to /\ q.sig.by # Nobody
  BY DEF Packet
<1> HIDE DEF d
<1>4. Attributed' = {d}
  BY <1>3, ReturnedOnChannel DEF d
<1> QED BY <1>1, <1>2, <1>3, <1>4 DEF Channel!Next, Channel!Deliver

(* A client that seals or opens, on the channel. *)
LEMMA ClientTrafficRefines ==
    ASSUME IInv, NEW c \in AnyClient, ClientSeals(c) \/ ClientOpens(c)
    PROVE  Channel!Next
<1>1. CASE Refuse(c, {ClientPacketStatus(c, pkt) : pkt \in PacketInTransit} \ {"OK"})
  BY <1>1, RefuseRefines DEF Channel!Next
<1>2. CASE ClientSeals(c)
  <2>1. PICK p \in Payload : /\ cl[c].server # Nobody /\ Transmit(ClientPacket(c, p))
                             /\ Return(c, "OK")
    BY <1>2 DEF ClientSeals
  <2>2. cl[c].server \in AnyServer
    BY <2>1 DEF IInv, TypeOK, ClientStruct
  <2>3. ClientPacket(c, p) \in Packet /\ ClientPacket(c, p).body.to \in Endpoint
    BY <2>2 DEF ClientPacket, Packet, Body, Signature
  <2> QED BY <2>1, <2>3, TransmitRefines
<1>3. CASE \E pkt \in PacketInTransit :
            /\ ClientPacketStatus(c, pkt) = "OK" /\ UNCHANGED packets
            /\ ret' = [at |-> c, code |-> "OK",
                       out |-> {[from |-> cl[c].server, to |-> c, session |-> NoSession,
                                 payload |-> pkt.body.payload]}]
  <2>1. PICK pkt \in PacketInTransit :
            /\ ClientPacketStatus(c, pkt) = "OK" /\ UNCHANGED packets
            /\ ret' = [at |-> c, code |-> "OK",
                       out |-> {[from |-> cl[c].server, to |-> c, session |-> NoSession,
                                 payload |-> pkt.body.payload]}]
    BY <1>3
  <2>2. PICK q \in packets : /\ q.sig = Signature(cl[c].server, q.body)
                             /\ q.body = pkt.body /\ q.body.to = c
    BY <2>1, OpenedPacket
  <2>3. cl[c].server \in AnyServer /\ q \in Packet
    BY <2>1, OpenedPacket DEF IInv, TypeOK
  <2>4. q.sig.by = cl[c].server
    BY <2>2 DEF Signature
  <2> QED BY <2>1, <2>2, <2>3, <2>4, DeliverRefines
<1> QED BY <1>1, <1>2, <1>3 DEF ClientOpens

(* A server that seals, on the channel. *)
LEMMA ServerSealsRefines ==
    ASSUME IInv, NEW s \in AnyServer, ServerSeals(s)
    PROVE  Channel!Next
<1>1. PICK p \in Payload : /\ sv[s].view.peer # Nobody
                           /\ Transmit(ServerPacket(s, p)) /\ Return(s, "OK")
  BY DEF ServerSeals
<1>2. sv[s].view.peer \in AnyClient
  BY <1>1 DEF IInv, TypeOK, ServerStruct, View
<1>3. ServerPacket(s, p) \in Packet /\ ServerPacket(s, p).body.to \in Endpoint
  BY <1>2 DEF ServerPacket, Packet, Body, Signature
<1> QED BY <1>1, <1>3, TransmitRefines

(* server_decrypt on the channel. *)
LEMMA ServerReceiveRefines ==
    ASSUME IInv, NEW s \in AnyServer, NEW unopened \in {"CRYPTO", "RAISED"},
           NEW unverified \in {"CRYPTO", "VERIFY_FAILED"},
           ServerReceive(s, unopened, unverified)
    PROVE  Channel!Next
<1>1. UNCHANGED packets
  BY DEF ServerReceive
<1>2. CASE ret'.out = {}
  BY <1>1, <1>2, ReturnedOnChannel DEF Sealed, Channel!Next, Channel!Other
<1>3. CASE \E q \in packets : /\ q.sig.by \in AnyClient
                              /\ ret'.out = {[from |-> q.sig.by, to |-> s,
                                    session |-> NoSession, payload |-> q.body.payload]}
                              /\ q.body.to = s
  BY <1>1, <1>3, DeliverRefines DEF IInv, TypeOK
<1>4. unopened \in Code \ {"OK"} /\ unverified \in Code \ {"OK"}
  BY FailureCodes
<1> QED BY <1>2, <1>3, <1>4, Reception

(* The calls that only return, on the channel. *)
LEMMA QuietRefines ==
    ASSUME NEW e \in Endpoint,
           \/ \E codes : Refuse(e, codes)
           \/ ClientCreate(e) \/ CaClientCreate(e) \/ ClientWipe(e)
           \/ ServerCreate(e) \/ ServerWipe(e)
           \/ HandshakeResponse(e) \/ PortHandshakeResponse(e) \/ HandshakeVerify(e)
    PROVE  Channel!Next
<1>1. ASSUME NEW codes, Refuse(e, codes) PROVE Channel!Next
  BY <1>1, RefuseRefines DEF Channel!Next
<1>2. ASSUME NEW code, Return(e, code), UNCHANGED packets PROVE Channel!Next
  BY <1>2, SilentRefines DEF Channel!Next
<1> QED BY <1>1, <1>2 DEF ClientCreate, CaClientCreate, ClientWipe, ServerCreate, ServerWipe,
     HandshakeResponse, PortHandshakeResponse, HandshakeVerify

(* Every call of the C code, on the channel. *)
LEMMA CRefines ==
    ASSUME IInv, NEW e \in Endpoint, Calls(e)
    PROVE  Channel!Next
<1>1. ASSUME e \in AnyClient, ClientEncrypt(e) \/ ClientDecrypt(e) PROVE Channel!Next
  BY <1>1, QuietRefines, ClientTrafficRefines DEF ClientEncrypt, ClientDecrypt
<1>2. ASSUME e \in AnyServer, ServerEncrypt(e) PROVE Channel!Next
  BY <1>2, QuietRefines, ServerSealsRefines DEF ServerEncrypt
<1>3. CASE e \in Client /\ ClientCalls(e)
  BY <1>1, <1>3, QuietRefines DEF ClientCalls, ObjectClientEncrypt
<1>4. CASE e \in CaClient /\ CaClientCalls(e)
  BY <1>1, <1>4, QuietRefines DEF CaClientCalls, CaClientEncrypt, CaClientDecrypt
<1>5. CASE e \in Server /\ ServerCalls(e)
  BY <1>2, <1>5, QuietRefines, ServerReceiveRefines
     DEF ServerCalls, RawServer, ObjectServer, ServerDecrypt, ObjectServerCreate,
         ObjectServerDestroy, ObjectServerEncrypt, ObjectServerDecrypt
<1>6. CASE e \in CaServer /\ CaServerCalls(e)
  BY <1>2, <1>6, QuietRefines, ServerReceiveRefines
     DEF CaServerCalls, CaServerEncrypt, CaServerDecrypt
<1> QED BY <1>3, <1>4, <1>5, <1>6 DEF Calls

(* What a Go struct takes for a packet of Nobody is not on the channel. *)
LEMMA NobodysPacketRefines ==
    ASSUME NEW e \in Endpoint, NEW p, TakenForNobodys(e, p),
           impl'[e] = "Go", UNCHANGED packets
    PROVE  Channel!Next
<1> DEFINE m == [from |-> Nobody, to |-> e, session |-> NoSession, payload |-> p]
<1>1. m.from = Nobody /\ m.to = e
  OBVIOUS
<1>2. ret'.out = {m}
  BY DEF TakenForNobodys
<1> HIDE DEF m
<1>3. Attributed' = {}
  BY <1>1, <1>2 DEF Attributed
<1> QED BY <1>3 DEF Sealed, Channel!Next, Channel!Other

(* Every call of the ports, on the channel. *)
LEMMA PortRefines ==
    ASSUME IInv, NEW e \in Endpoint, UNCHANGED impl,
           (impl[e] = "Go" /\ GoCalls(e)) \/ PyCalls(e)
    PROVE  Channel!Next
<1>1. ASSUME e \in AnyServer, ServerLife(e) PROVE Channel!Next
  BY <1>1, QuietRefines DEF ServerLife
<1>2. ASSUME e \in AnyClient,
             \/ PyClientEncrypt(e) \/ PyClientDecrypt(e) \/ PyCaClientDecrypt(e)
      PROVE  Channel!Next
  BY <1>2, QuietRefines, ClientTrafficRefines
     DEF PyClientEncrypt, PyClientDecrypt, PyCaClientDecrypt
<1>3. ASSUME e \in AnyClient, impl[e] = "Go", GoClientEncrypt(e) \/ GoClientDecrypt(e)
      PROVE  Channel!Next
  <2>1. CASE Return(e, "OK") /\ UNCHANGED <<cl, sv, mirror, certs, packets>>
    BY <2>1, SilentRefines DEF Channel!Next
  <2>2. CASE /\ \E p \in Payload : TakenForNobodys(e, p)
             /\ UNCHANGED <<cl, sv, mirror, certs, packets>>
    BY <1>3, <2>2, NobodysPacketRefines
  <2> QED BY <1>3, <2>1, <2>2, QuietRefines, ClientTrafficRefines
          DEF GoClientEncrypt, GoClientDecrypt
<1>4. ASSUME e \in AnyServer,
             \/ GoServerEncrypt(e) \/ GoCaServerEncrypt(e)
             \/ PyServerEncrypt(e) \/ PyCaServerEncrypt(e)
      PROVE  Channel!Next
  BY <1>4, QuietRefines, ServerSealsRefines
     DEF GoServerEncrypt, GoCaServerEncrypt, PyServerEncrypt, PyCaServerEncrypt
<1>5. ASSUME e \in AnyServer, PyServerDecrypt(e) PROVE Channel!Next
  BY <1>5, QuietRefines, ServerReceiveRefines DEF PyServerDecrypt
<1>6. ASSUME e \in AnyServer, impl[e] = "Go", GoServerDecrypt(e) PROVE Channel!Next
  <2>1. CASE (\E p \in Payload : TakenForNobodys(e, p)) /\ UNCHANGED packets
    BY <1>6, <2>1, NobodysPacketRefines
  <2> QED BY <1>6, <2>1, QuietRefines, ServerReceiveRefines DEF GoServerDecrypt
<1>7. ASSUME e \in CaClient, GoHandshakeVerify(e) PROVE Channel!Next
  <2>1. CASE UNCHANGED packets /\ Return(e, "OK")
    BY <2>1, SilentRefines DEF Channel!Next
  <2> QED BY <1>7, <2>1, QuietRefines DEF GoHandshakeVerify
<1>8. CASE impl[e] = "Go" /\ GoCalls(e)
  BY <1>1, <1>3, <1>4, <1>6, <1>7, <1>8, QuietRefines
     DEF GoCalls, GoCaClientEncrypt, GoCaClientDecrypt, GoCaServerDecrypt
<1>9. CASE PyCalls(e)
  BY <1>1, <1>2, <1>4, <1>5, <1>9, QuietRefines
     DEF PyCalls, PyHandshakeVerify, PyCaClientEncrypt, PyCaServerDecrypt
<1> QED BY <1>8, <1>9

(* Layers 3 and 4 implement the authentic channel, whichever of the three  *)
(* implementations the two ends have: a payload a decrypt call returns was *)
(* encrypted by the peer it is attributed to.  Only what a Go struct takes *)
(* for a packet of Nobody is attributed to no peer.                        *)
THEOREM Refinement == PortsSpec => ImplementsChannel
<1>1. PortsInit => Channel!Init
  BY DEF PortsInit, Init, Channel!Init, Sealed, Attributed
<1>2. PInv /\ [PortsNext]_portsVars => [Channel!Next]_(Channel!chan)
  <2> SUFFICES ASSUME PInv, [PortsNext]_portsVars PROVE [Channel!Next]_(Channel!chan)
    OBVIOUS
  <2>1. CASE UNCHANGED portsVars
    BY <2>1 DEF portsVars, vars, Channel!chan, Sealed, Attributed
  <2> QED BY <2>1, CRefines, PortRefines DEF PInv, PortsNext
<1> QED BY <1>1, <1>2, Inductive, PTL DEF PortsSpec, ImplementsChannel, Channel!Spec
=============================================================================
