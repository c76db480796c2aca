-------------------------- MODULE CsmSessionProofs --------------------------
(***************************************************************************)
(* Proofs about CsmSession, for any numbers of clients, servers, keys and  *)
(* payloads.  The argument: a signature that verifies pins each handshake  *)
(* message to the endpoint that generated its key (lemmas Damaged...), so  *)
(* both halves of a session key have known owners (IInv); one half of the  *)
(* key of a client belongs to a server and the other to the client, which  *)
(* leaves one pair of endpoints per key.                                   *)
(***************************************************************************)
EXTENDS CsmSession, TLAPS

USE ConstantsDistinct DEF Endpoint

-----------------------------------------------------------------------------
(* Two shared secrets are equal only if they are the same pair. *)
LEMMA SharedPair ==
    ASSUME NEW a, NEW b, NEW c, NEW d, Shared(a, b) = Shared(c, d)
    PROVE  (a = c /\ b = d) \/ (a = d /\ b = c)
BY DEF Shared

(* A shared secret is never the zeroed session key.                        *)
LEMMA SharedNotZeroed == ASSUME NEW a, NEW b PROVE Shared(a, b) # Zeroed
BY DEF Shared, Zeroed

(* A signature tells who made it and over what (naion_internal_verify).    *)
LEMMA SignatureInjective ==
    ASSUME NEW a, NEW b, NEW c, NEW d, Signature(a, b) = Signature(c, d)
    PROVE  a = c /\ b = d
<1>1. Signature(a, b).by = a /\ Signature(a, b).over = b
  BY DEF Signature
<1>2. Signature(c, d).by = c /\ Signature(c, d).over = d
  BY DEF Signature
<1> QED BY <1>1, <1>2

(* Damage can not make a hello that verifies and was not sent: whatever    *)
(* the transport hands to server_handshake, a verified xpk was generated   *)
(* by the identity the hello names.                                        *)
LEMMA DamagedHello ==
    ASSUME IInv, NEW h \in HelloInTransit
    PROVE  /\ h.xpk \in XPublic /\ h.ed \in Client
           /\ (HelloStatus(h) = "OK" /\ Derives(h.xpk)) =>
                  h.xpk \in Key /\ owner[h.xpk] = h.ed
<1>1. ASSUME NEW f \in hellos
      PROVE  /\ f \in Hello /\ f.xpk \in XPublic /\ f.ed \in Client
             /\ f.sig = Signature(f.ed, f.xpk)
             /\ f.xpk # LowKey => f.xpk \in Key /\ owner[f.xpk] = f.ed
  BY DEF IInv, TypeOK, HellosGenuine, Hello
<1>2. CASE h \in hellos
  BY <1>1, <1>2 DEF Derives
<1>3. CASE h \in {[g EXCEPT !.xpk = NoKey] : g \in hellos}
  <2>1. PICK g \in hellos : h = [g EXCEPT !.xpk = NoKey]
    BY <1>3
  <2>2. h.xpk = NoKey /\ h.ed = g.ed
    BY <1>1, <2>1 DEF Hello
  <2> QED BY <1>1, <2>1, <2>2 DEF HelloStatus, XPublic
<1>4. CASE h \in {[p[1] EXCEPT !.ed = p[2].ed] : p \in hellos \X hellos}
  <2>1. PICK f \in hellos, g \in hellos : h = [f EXCEPT !.ed = g.ed]
    BY <1>4
  <2>2. h.xpk = f.xpk /\ h.ed = g.ed /\ h.sig = f.sig
    BY <1>1, <2>1 DEF Hello
  <2>3. Verifies(h.sig, h.xpk, h.ed) => h.ed = f.ed
    BY <1>1, <2>1, <2>2, SignatureInjective DEF Verifies
  <2> QED BY <1>1, <2>1, <2>2, <2>3 DEF HelloStatus, Derives
<1>5. CASE h \in {[p[1] EXCEPT !.xpk = p[2].xpk] : p \in hellos \X hellos}
  <2>1. PICK f \in hellos, g \in hellos : h = [f EXCEPT !.xpk = g.xpk]
    BY <1>5
  <2>2. h.xpk = g.xpk /\ h.ed = f.ed /\ h.sig = f.sig
    BY <1>1, <2>1 DEF Hello
  <2>3. Verifies(h.sig, h.xpk, h.ed) => h.xpk = f.xpk
    BY <1>1, <2>1, <2>2, SignatureInjective DEF Verifies
  <2> QED BY <1>1, <2>1, <2>2, <2>3 DEF HelloStatus, Derives
<1> QED BY <1>2, <1>3, <1>4, <1>5 DEF HelloInTransit

(* The same for the response: a chain that verifies ends in a certified    *)
(* server that generated the session public key.                           *)
LEMMA DamagedReply ==
    ASSUME IInv, NEW m1 \in ReplyInTransit
    PROVE  /\ m1.xpk \in XPublic /\ m1.ed \in Server
           /\ (ReplyStatus(m1) = "OK" /\ Derives(m1.xpk)) =>
                  m1.xpk \in Key /\ owner[m1.xpk] = m1.ed /\ m1.ed \in Certified
<1>1. ASSUME NEW f \in replies
      PROVE  /\ f \in Reply /\ f.xpk \in XPublic /\ f.ed \in Server
             /\ f.sig = Signature(f.ed, f.xpk)
             /\ f.cert = f.ed => f.ed \in Certified
             /\ f.cert # f.ed => f.cert = Nobody
             /\ f.xpk # LowKey => f.xpk \in Key /\ owner[f.xpk] = f.ed
  BY DEF IInv, TypeOK, RepliesGenuine, Reply
<1>2. CASE m1 \in replies
  BY <1>1, <1>2 DEF ReplyStatus, Derives
<1>3. CASE m1 \in {[r EXCEPT !.xpk = NoKey] : r \in replies}
  <2>1. PICK g \in replies : m1 = [g EXCEPT !.xpk = NoKey]
    BY <1>3
  <2>2. m1.xpk = NoKey /\ m1.ed = g.ed
    BY <1>1, <2>1 DEF Reply
  <2> QED BY <1>1, <2>1, <2>2 DEF ReplyStatus, XPublic
<1>4. CASE m1 \in {[p[1] EXCEPT !.ed = p[2].ed, !.cert = p[2].cert] :
                      p \in replies \X replies}
  <2>1. PICK f \in replies, g \in replies :
            m1 = [f EXCEPT !.ed = g.ed, !.cert = g.cert]
    BY <1>4
  <2>2. m1.xpk = f.xpk /\ m1.ed = g.ed /\ m1.cert = g.cert /\ m1.sig = f.sig
    BY <1>1, <2>1 DEF Reply
  <2>3. Verifies(m1.sig, m1.xpk, m1.ed) => m1.ed = f.ed
    BY <1>1, <2>1, <2>2, SignatureInjective DEF Verifies
  <2> QED BY <1>1, <2>1, <2>2, <2>3 DEF ReplyStatus, Derives
<1>5. CASE m1 \in {[p[1] EXCEPT !.cert = p[2].cert] : p \in replies \X replies}
  <2>1. PICK f \in replies, g \in replies : m1 = [f EXCEPT !.cert = g.cert]
    BY <1>5
  <2>2. m1.xpk = f.xpk /\ m1.ed = f.ed /\ m1.cert = g.cert /\ m1.sig = f.sig
    BY <1>1, <2>1 DEF Reply
  <2>3. m1.cert = m1.ed => g.cert = g.ed /\ g.ed = f.ed
    BY <1>1, <2>1, <2>2
  <2> QED BY <1>1, <2>1, <2>2, <2>3 DEF ReplyStatus, Derives
<1> QED BY <1>2, <1>3, <1>4, <1>5 DEF ReplyInTransit

-----------------------------------------------------------------------------
(* Inductiveness of IInv, one lemma per kind of step. *)

(* A wiped or newly created struct is in no session. *)
LEMMA ZeroStruct ==
    ASSUME NEW z \in {Zero, Created}
    PROVE  /\ z \in Struct /\ ~z.complete
           /\ z.xsk = NoKey /\ z.aead = Zeroed
<1>1. Zeroed \in SessionKey
  BY DEF SessionKey
<1>2. /\ Zero \in Struct /\ ~Zero.complete
      /\ Zero.xsk = NoKey /\ Zero.aead = Zeroed
  BY <1>1 DEF Zero, Struct
<1>3. /\ Created \in Struct /\ ~Created.complete
      /\ Created.xsk = NoKey /\ Created.aead = Zeroed
  BY <1>1 DEF Created, Zero, Struct
<1> QED BY <1>2, <1>3

(* Newly created structs and the small-order messages satisfy IInv.        *)
LEMMA InitIInv == Init => IInv
<1> SUFFICES ASSUME Init PROVE IInv
  OBVIOUS
<1>1. \A e \in Endpoint : st[e] = Created
  BY DEF Init
<1>2. /\ Created \in Struct /\ ~Created.complete
      /\ Created.xsk = NoKey /\ Created.aead = Zeroed
  BY ZeroStruct
<1>3. TypeOK
  <2>1. \A c \in Client : HelloOf(c, LowKey) \in Hello
    BY DEF HelloOf, Hello, Signature, XPublic
  <2>2. \A s \in Server : ReplyOf(s, LowKey, NoKey) \in Reply
    BY DEF ReplyOf, Reply, Signature, XPublic
  <2>3. ret \in [at : Endpoint, code : Code, out : SUBSET Delivery]
    BY DEF Init, Code
  <2> QED BY <1>2, <2>1, <2>2, <2>3 DEF Init, TypeOK
<1>4. HandshakeBindsIdentity /\ OwnSecrets /\ KeysDerived
  BY <1>1, <1>2 DEF HandshakeBindsIdentity, OwnSecrets, KeysDerived
<1>5. HellosGenuine
  BY DEF Init, HellosGenuine, HelloOf
<1>6. RepliesGenuine
  BY DEF Init, RepliesGenuine, ReplyOf
<1>7. PacketsGenuine
  BY DEF Init, PacketsGenuine
<1> QED BY <1>3, <1>4, <1>5, <1>6, <1>7 DEF IInv

(* Rejections, decrypt calls, encrypt calls that send nothing. *)
LEMMA QuietStep ==
    ASSUME IInv, UNCHANGED <<st, owner, hellos, replies, packets>>,
           ret' \in [at : Endpoint, code : Code, out : SUBSET Delivery]
    PROVE  IInv'
BY DEF IInv, TypeOK, HandshakeBindsIdentity, HellosGenuine, RepliesGenuine,
       OwnSecrets, KeysDerived, PacketsGenuine

(* A return code is a value of ret.                                        *)
LEMMA ReturnType ==
    ASSUME NEW e \in Endpoint, NEW code \in Code, Return(e, code)
    PROVE  ret' \in [at : Endpoint, code : Code, out : SUBSET Delivery]
BY DEF Return

(* create and wipe: a struct without a session has nothing to keep. *)
LEMMA ResetStep ==
    ASSUME IInv, NEW e \in Endpoint, NEW z \in {Zero, Created},
           st' = [st EXCEPT ![e] = z],
           UNCHANGED <<owner, hellos, replies, packets>>,
           ret' \in [at : Endpoint, code : Code, out : SUBSET Delivery]
    PROVE  IInv'
<1>1. z \in Struct /\ ~z.complete /\ z.xsk = NoKey /\ z.aead = Zeroed
  BY ZeroStruct
<1>2. st' \in [Endpoint -> Struct] /\ st'[e] = z
      /\ \A f \in Endpoint : f # e => st'[f] = st[f]
  BY <1>1 DEF IInv, TypeOK
<1>3. TypeOK'
  BY <1>2 DEF IInv, TypeOK
<1>4. HandshakeBindsIdentity' /\ OwnSecrets' /\ KeysDerived'
  BY <1>1, <1>2 DEF IInv, HandshakeBindsIdentity, OwnSecrets, KeysDerived
<1>5. HellosGenuine' /\ RepliesGenuine' /\ PacketsGenuine'
  BY DEF IInv, HellosGenuine, RepliesGenuine, PacketsGenuine
<1> QED BY <1>3, <1>4, <1>5 DEF IInv

(* Generating a key does not change the owner of a key already in use. *)
LEMMA FreshOwner ==
    ASSUME IInv, NEW x \in Key, FreshKey(x), NEW e \in Endpoint,
           owner' = [owner EXCEPT ![x] = e]
    PROVE  /\ owner' \in [Key -> Endpoint \cup {Nobody}]
           /\ owner'[x] = e
           /\ \A k \in Key : owner[k] \in Endpoint => owner'[k] = owner[k]
BY DEF IInv, TypeOK, FreshKey

(* What the messages on the transport say of key owners survives box_keypair. *)
LEMMA FreshKeepsMessages ==
    ASSUME IInv, NEW x \in Key, FreshKey(x), NEW e \in Endpoint,
           owner' = [owner EXCEPT ![x] = e]
    PROVE  /\ UNCHANGED hellos => HellosGenuine'
           /\ UNCHANGED replies => RepliesGenuine'
           /\ UNCHANGED packets => PacketsGenuine'
<1>1. \A k \in Key : owner[k] \in Endpoint => owner'[k] = owner[k]
  BY FreshOwner
<1>2. UNCHANGED hellos => HellosGenuine'
  BY <1>1 DEF IInv, TypeOK, HellosGenuine, Hello
<1>3. UNCHANGED replies => RepliesGenuine'
  BY <1>1 DEF IInv, TypeOK, RepliesGenuine, Reply
<1>4. UNCHANGED packets => PacketsGenuine'
  <2> SUFFICES ASSUME UNCHANGED packets, NEW p \in packets, p.body.aead # Zeroed
               PROVE  \E a \in Key \cup {NoKey}, b \in Key :
                          /\ p.body.aead = Shared(a, b)
                          /\ a # NoKey => owner'[a] = p.sig.by
                          /\ owner'[b] = p.to
    BY DEF IInv, PacketsGenuine
  <2>1. PICK a \in Key \cup {NoKey}, b \in Key :
            /\ p.body.aead = Shared(a, b)
            /\ a # NoKey => owner[a] = p.sig.by
            /\ owner[b] = p.to
    BY DEF IInv, PacketsGenuine
  <2>2. p.to \in Endpoint /\ p.sig.by \in Endpoint
    BY DEF IInv, TypeOK, Packet
  <2> QED BY <1>1, <2>1, <2>2
<1> QED BY <1>2, <1>3, <1>4

(* The structs that a step does not touch keep their part of IInv. *)
LEMMA OthersKeep ==
    ASSUME IInv, NEW f \in Endpoint, st'[f] = st[f],
           \A k \in Key : owner[k] \in Endpoint => owner'[k] = owner[k]
    PROVE  /\ st'[f].complete =>
                 /\ st'[f].peer_xpk \in Key
                 /\ owner'[st'[f].peer_xpk] = st'[f].peer
                 /\ f \in Client => st'[f].peer \in Certified
                 /\ f \in Server => st'[f].peer \in Client
           /\ st'[f].xsk # NoKey => owner'[st'[f].xsk] = f
           /\ (f \in Server /\ st'[f].aead # Zeroed) => st'[f].xsk # NoKey
           /\ (st'[f].complete /\ st'[f].aead # Zeroed) =>
                 st'[f].aead = Shared(st'[f].xsk, st'[f].peer_xpk)
<1>1. st[f] \in Struct /\ st[f].xsk \in Key \cup {NoKey}
  BY DEF IInv, TypeOK, Struct
<1> QED BY <1>1 DEF IInv, HandshakeBindsIdentity, OwnSecrets, KeysDerived

(* A step that gives one struct a new value z has to show only what z says *)
(* of itself.                                                              *)
LEMMA OneStruct ==
    ASSUME IInv, NEW e \in Endpoint, NEW z \in Struct,
           st' = [st EXCEPT ![e] = z],
           \A k \in Key : owner[k] \in Endpoint => owner'[k] = owner[k],
           z.complete => /\ z.peer_xpk \in Key
                         /\ owner'[z.peer_xpk] = z.peer
                         /\ e \in Client => z.peer \in Certified
                         /\ e \in Server => z.peer \in Client,
           z.xsk # NoKey => owner'[z.xsk] = e,
           (e \in Server /\ z.aead # Zeroed) => z.xsk # NoKey,
           (z.complete /\ z.aead # Zeroed) => z.aead = Shared(z.xsk, z.peer_xpk)
    PROVE  /\ st' \in [Endpoint -> Struct]
           /\ HandshakeBindsIdentity' /\ OwnSecrets' /\ KeysDerived'
<1>1. /\ st' \in [Endpoint -> Struct] /\ st'[e] = z
      /\ \A f \in Endpoint : f # e => st'[f] = st[f]
  BY DEF IInv, TypeOK
<1>2. HandshakeBindsIdentity'
  BY <1>1, OthersKeep DEF HandshakeBindsIdentity
<1>3. OwnSecrets'
  BY <1>1, OthersKeep DEF OwnSecrets
<1>4. KeysDerived'
  BY <1>1, OthersKeep DEF KeysDerived
<1> QED BY <1>1, <1>2, <1>3, <1>4

(* The three updates the code makes to single fields of a struct. *)
LEMMA StructUpdate ==
    ASSUME NEW r \in Struct
    PROVE  /\ \A x \in Key : LET z == [r EXCEPT !.xsk = x, !.complete = FALSE]
                             IN  z \in Struct /\ ~z.complete /\ z.xsk = x
           /\ LET z == [r EXCEPT !.xsk = NoKey, !.aead = Zeroed]
              IN  /\ z \in Struct /\ z.xsk = NoKey /\ z.aead = Zeroed
                  /\ z.complete = r.complete /\ z.peer = r.peer
                  /\ z.peer_xpk = r.peer_xpk
           /\ LET z == [r EXCEPT !.aead = Zeroed]
              IN  /\ z \in Struct /\ z.xsk = r.xsk /\ z.aead = Zeroed
                  /\ z.complete = r.complete /\ z.peer = r.peer
                  /\ z.peer_xpk = r.peer_xpk
<1>1. Zeroed \in SessionKey
  BY DEF SessionKey
<1> QED BY <1>1 DEF Struct

(* client_hello signs the session public key it has just generated.        *)
LEMMA ClientHelloStep ==
    ASSUME IInv, NEW c \in Client, ClientHello(c)
    PROVE  IInv'
<1>1. PICK x \in Key :
        /\ FreshKey(x)
        /\ owner' = [owner EXCEPT ![x] = c]
        /\ st' = [st EXCEPT ![c].xsk = x, ![c].complete = FALSE]
        /\ hellos' = hellos \cup {HelloOf(c, x)}
  BY DEF ClientHello
<1>2. Return(c, "OK") /\ UNCHANGED <<replies, packets>> /\ c \in Endpoint
  BY DEF ClientHello
<1>3. /\ owner' \in [Key -> Endpoint \cup {Nobody}] /\ owner'[x] = c
      /\ \A k \in Key : owner[k] \in Endpoint => owner'[k] = owner[k]
  BY <1>1, <1>2, FreshOwner
<1> DEFINE z == [st[c] EXCEPT !.xsk = x, !.complete = FALSE]
<1>4. /\ st[c] \in Struct /\ z \in Struct /\ ~z.complete /\ z.xsk = x
      /\ st' = [st EXCEPT ![c] = z]
  <2>1. st[c] \in Struct
    BY <1>2 DEF IInv, TypeOK
  <2>2. z \in Struct /\ ~z.complete /\ z.xsk = x
    BY <2>1, StructUpdate
  <2>3. st' = [st EXCEPT ![c] = z]
    BY <1>1
  <2> QED BY <2>1, <2>2, <2>3
<1>5. /\ st' \in [Endpoint -> Struct]
      /\ HandshakeBindsIdentity' /\ OwnSecrets' /\ KeysDerived'
  <2> HIDE DEF z
  <2> QED BY <1>1, <1>2, <1>3, <1>4, OneStruct
<1>6. /\ HelloOf(c, x) \in Hello
      /\ HelloOf(c, x).sig = Signature(c, x)
      /\ HelloOf(c, x).ed = c /\ HelloOf(c, x).xpk = x
  BY DEF HelloOf, Hello, Signature, XPublic
<1>7. TypeOK'
  <2>1. "OK" \in Code
    BY DEF Code
  <2>2. ret' \in [at : Endpoint, code : Code, out : SUBSET Delivery]
    BY <1>2, <2>1, ReturnType
  <2> QED BY <1>1, <1>2, <1>3, <1>5, <1>6, <2>2 DEF IInv, TypeOK
<1>8. HellosGenuine'
  BY <1>1, <1>3, <1>6 DEF IInv, TypeOK, HellosGenuine, Hello
<1>9. RepliesGenuine' /\ PacketsGenuine'
  BY <1>1, <1>2, FreshKeepsMessages
<1> QED BY <1>5, <1>7, <1>8, <1>9 DEF IInv

(* server_handshake derives its key from its own pair and a verified hello. *)
LEMMA AcceptHelloStep ==
    ASSUME IInv, NEW s \in Server, NEW h \in HelloInTransit, AcceptHello(s, h)
    PROVE  IInv'
<1>1. PICK x \in Key :
        /\ FreshKey(x)
        /\ owner' = [owner EXCEPT ![x] = s]
        /\ st' = [st EXCEPT ![s] = [created |-> TRUE, xsk |-> x, peer_xpk |-> h.xpk,
                                    peer |-> h.ed, aead |-> Shared(x, h.xpk),
                                    complete |-> TRUE]]
        /\ replies' = replies \cup {ReplyOf(s, x, h.xpk)}
  BY DEF AcceptHello
<1>2. Return(s, "OK") /\ UNCHANGED <<hellos, packets>> /\ s \in Endpoint
  BY DEF AcceptHello
<1>3. /\ owner' \in [Key -> Endpoint \cup {Nobody}] /\ owner'[x] = s
      /\ \A k \in Key : owner[k] \in Endpoint => owner'[k] = owner[k]
  BY <1>1, <1>2, FreshOwner
<1>4. h.xpk \in Key /\ owner[h.xpk] = h.ed /\ h.ed \in Client
  BY DamagedHello DEF AcceptHello
<1> DEFINE z == [created |-> TRUE, xsk |-> x, peer_xpk |-> h.xpk, peer |-> h.ed,
                 aead |-> Shared(x, h.xpk), complete |-> TRUE]
<1>5. z \in Struct
  <2>1. Shared(x, h.xpk) \in SessionKey
    BY <1>4 DEF SessionKey
  <2> QED BY <1>4, <2>1 DEF Struct
<1>6. /\ z.complete /\ z.peer_xpk = h.xpk /\ z.peer = h.ed /\ z.xsk = x
      /\ z.aead = Shared(x, h.xpk) /\ st' = [st EXCEPT ![s] = z]
  BY <1>1
<1>7. /\ st' \in [Endpoint -> Struct]
      /\ HandshakeBindsIdentity' /\ OwnSecrets' /\ KeysDerived'
  <2>1. x # NoKey /\ s \notin Client
    BY DEF Endpoint
  <2> HIDE DEF z
  <2> QED BY <1>2, <1>3, <1>4, <1>5, <1>6, <2>1, OneStruct
<1> DEFINE r == ReplyOf(s, x, h.xpk)
<1>8. /\ r \in Reply /\ r.sig = Signature(s, x) /\ r.ed = s /\ r.xpk = x
      /\ r.cert \in {s, Nobody} /\ (r.cert = s => s \in Certified)
  BY <1>4 DEF ReplyOf, Reply, Signature, XPublic
<1>9. TypeOK'
  <2>1. "OK" \in Code
    BY DEF Code
  <2>2. ret' \in [at : Endpoint, code : Code, out : SUBSET Delivery]
    BY <1>2, <2>1, ReturnType
  <2> QED BY <1>1, <1>2, <1>3, <1>7, <1>8, <2>2 DEF IInv, TypeOK
<1>10. RepliesGenuine'
  <2> HIDE DEF r
  <2>1. replies' = replies \cup {r}
    BY <1>1 DEF r
  <2> QED BY <1>3, <1>8, <2>1 DEF IInv, TypeOK, RepliesGenuine, Reply
<1>11. HellosGenuine' /\ PacketsGenuine'
  BY <1>1, <1>2, FreshKeepsMessages
<1> QED BY <1>7, <1>9, <1>10, <1>11 DEF IInv

(* The error path: the struct keeps what it says of the peer. *)
LEMMA FailHelloStep ==
    ASSUME IInv, NEW s \in Server, NEW h \in HelloInTransit, FailHello(s, h)
    PROVE  IInv'
<1>1. PICK x \in Key : FreshKey(x) /\ owner' = [owner EXCEPT ![x] = s]
  BY DEF FailHello
<1>2. /\ Return(s, "CRYPTO") /\ UNCHANGED <<hellos, replies, packets>>
      /\ s \in Endpoint /\ st[s] \in Struct
  BY DEF FailHello, IInv, TypeOK
<1>3. /\ owner' \in [Key -> Endpoint \cup {Nobody}]
      /\ \A k \in Key : owner[k] \in Endpoint => owner'[k] = owner[k]
  BY <1>1, <1>2, FreshOwner
<1> DEFINE z == [st[s] EXCEPT !.xsk = NoKey, !.aead = Zeroed]
<1>4. /\ z \in Struct /\ z.xsk = NoKey /\ z.aead = Zeroed
      /\ z.complete = st[s].complete /\ z.peer = st[s].peer
      /\ z.peer_xpk = st[s].peer_xpk
  BY <1>2, StructUpdate
<1>5. st' = [st EXCEPT ![s] = z]
  BY DEF FailHello
<1>6. st[s].complete => /\ st[s].peer_xpk \in Key
                        /\ owner'[st[s].peer_xpk] = st[s].peer
                        /\ s \in Client => st[s].peer \in Certified
                        /\ s \in Server => st[s].peer \in Client
  BY <1>2, <1>3 DEF IInv, HandshakeBindsIdentity
<1>7. /\ st' \in [Endpoint -> Struct]
      /\ HandshakeBindsIdentity' /\ OwnSecrets' /\ KeysDerived'
  <2> HIDE DEF z
  <2> QED BY <1>2, <1>3, <1>4, <1>5, <1>6, OneStruct
<1>8. TypeOK'
  <2>1. "CRYPTO" \in Code
    BY DEF Code
  <2>2. ret' \in [at : Endpoint, code : Code, out : SUBSET Delivery]
    BY <1>2, <2>1, ReturnType
  <2> QED BY <1>2, <1>3, <1>7, <2>2 DEF IInv, TypeOK
<1>9. HellosGenuine' /\ RepliesGenuine' /\ PacketsGenuine'
  BY <1>1, <1>2, FreshKeepsMessages
<1> QED BY <1>7, <1>8, <1>9 DEF IInv

(* A step that adds neither a key nor a message keeps the transport genuine. *)
LEMMA UnchangedMessages ==
    ASSUME IInv, UNCHANGED <<owner, hellos, replies, packets>>
    PROVE  HellosGenuine' /\ RepliesGenuine' /\ PacketsGenuine'
BY DEF IInv, HellosGenuine, RepliesGenuine, PacketsGenuine

(* client_finish takes the session public key of a certified server.       *)
LEMMA AcceptReplyStep ==
    ASSUME IInv, NEW c \in Client, NEW m1 \in ReplyInTransit, AcceptReply(c, m1)
    PROVE  IInv'
<1>1. /\ Return(c, "OK") /\ UNCHANGED <<owner, hellos, replies, packets>>
      /\ c \in Endpoint /\ st[c] \in Struct /\ st[c].xsk \in Key \cup {NoKey}
  BY DEF AcceptReply, IInv, TypeOK, Struct
<1>2. /\ m1.xpk \in Key /\ owner[m1.xpk] = m1.ed
      /\ m1.ed \in Server /\ m1.ed \in Certified
  BY DamagedReply DEF AcceptReply
<1> DEFINE z == [created |-> TRUE, xsk |-> st[c].xsk, peer_xpk |-> m1.xpk,
                 peer |-> m1.ed, aead |-> Shared(st[c].xsk, m1.xpk),
                 complete |-> TRUE]
<1>3. z \in Struct
  <2>1. Shared(st[c].xsk, m1.xpk) \in SessionKey
    BY <1>1, <1>2 DEF SessionKey
  <2> QED BY <1>1, <1>2, <2>1 DEF Struct
<1>4. /\ z.complete /\ z.peer_xpk = m1.xpk /\ z.peer = m1.ed
      /\ z.xsk = st[c].xsk /\ z.aead = Shared(st[c].xsk, m1.xpk)
      /\ st' = [st EXCEPT ![c] = z]
  BY DEF AcceptReply
<1>5. c \notin Server /\ (st[c].xsk # NoKey => owner[st[c].xsk] = c)
  BY <1>1 DEF IInv, OwnSecrets
<1>6. /\ st' \in [Endpoint -> Struct]
      /\ HandshakeBindsIdentity' /\ OwnSecrets' /\ KeysDerived'
  <2> HIDE DEF z
  <2> QED BY <1>1, <1>2, <1>3, <1>4, <1>5, OneStruct
<1>7. TypeOK'
  <2>1. "OK" \in Code
    BY DEF Code
  <2>2. ret' \in [at : Endpoint, code : Code, out : SUBSET Delivery]
    BY <1>1, <2>1, ReturnType
  <2> QED BY <1>1, <1>6, <2>2 DEF IInv, TypeOK
<1> QED BY <1>1, <1>6, <1>7, UnchangedMessages DEF IInv

(* The derivation in client_finish fails: the session key is zeroed.       *)
LEMMA FailReplyStep ==
    ASSUME IInv, NEW c \in Client, NEW m1 \in ReplyInTransit, FailReply(c, m1)
    PROVE  IInv'
<1>1. /\ Return(c, "CRYPTO") /\ UNCHANGED <<owner, hellos, replies, packets>>
      /\ c \in Endpoint /\ st[c] \in Struct
  BY DEF FailReply, IInv, TypeOK
<1> DEFINE z == [st[c] EXCEPT !.aead = Zeroed]
<1>2. /\ z \in Struct /\ z.xsk = st[c].xsk /\ z.aead = Zeroed
      /\ z.complete = st[c].complete /\ z.peer = st[c].peer
      /\ z.peer_xpk = st[c].peer_xpk
  BY <1>1, StructUpdate
<1>3. st' = [st EXCEPT ![c] = z]
  BY DEF FailReply
<1>4. /\ st[c].complete => /\ st[c].peer_xpk \in Key
                           /\ owner[st[c].peer_xpk] = st[c].peer
                           /\ c \in Client => st[c].peer \in Certified
                           /\ c \in Server => st[c].peer \in Client
      /\ st[c].xsk # NoKey => owner[st[c].xsk] = c
  BY <1>1 DEF IInv, HandshakeBindsIdentity, OwnSecrets
<1>5. /\ st' \in [Endpoint -> Struct]
      /\ HandshakeBindsIdentity' /\ OwnSecrets' /\ KeysDerived'
  <2> HIDE DEF z
  <2> QED BY <1>1, <1>2, <1>3, <1>4, OneStruct
<1>6. TypeOK'
  <2>1. "CRYPTO" \in Code
    BY DEF Code
  <2>2. ret' \in [at : Endpoint, code : Code, out : SUBSET Delivery]
    BY <1>1, <2>1, ReturnType
  <2> QED BY <1>1, <1>5, <2>2 DEF IInv, TypeOK
<1> QED BY <1>1, <1>5, <1>6, UnchangedMessages DEF IInv

(* A packet is sealed under the key of a session in progress, for its peer. *)
LEMMA SealedPacket ==
    ASSUME IInv, NEW e \in Endpoint, st[e].complete, NEW p \in Payload
    PROVE  LET pkt == SignedPacket(e, p)
           IN  /\ pkt \in Packet
               /\ pkt.sig.over = pkt.body
               /\ pkt.sig.by \in Client <=> pkt.to \in Server
               /\ pkt.body.aead # Zeroed =>
                     \E a \in Key \cup {NoKey}, b \in Key :
                         /\ pkt.body.aead = Shared(a, b)
                         /\ a # NoKey => owner[a] = pkt.sig.by
                         /\ owner[b] = pkt.to
<1>1. /\ st[e] \in Struct /\ st[e].aead \in SessionKey
      /\ st[e].xsk \in Key \cup {NoKey}
  BY DEF IInv, TypeOK, Struct
<1>2. /\ st[e].peer_xpk \in Key /\ owner[st[e].peer_xpk] = st[e].peer
      /\ e \in Client => st[e].peer \in Server
      /\ e \in Server => st[e].peer \in Client
  BY DEF IInv, HandshakeBindsIdentity
<1>3. st[e].peer \in Endpoint /\ (e \in Client <=> st[e].peer \in Server)
  BY <1>2
<1>4. /\ st[e].aead # Zeroed => st[e].aead = Shared(st[e].xsk, st[e].peer_xpk)
      /\ st[e].xsk # NoKey => owner[st[e].xsk] = e
  BY DEF IInv, KeysDerived, OwnSecrets
<1> DEFINE body == [aead |-> st[e].aead, payload |-> p]
           pkt == SignedPacket(e, p)
<1>5. /\ pkt.sig = Signature(e, body) /\ pkt.body = body /\ pkt.to = st[e].peer
      /\ body.aead = st[e].aead /\ body \in Body
  BY <1>1 DEF SignedPacket, Body
<1>6. pkt.sig.by = e /\ pkt.sig.over = body
      /\ pkt.sig \in [by : Endpoint, over : Body]
  BY <1>5 DEF Signature
<1>7. pkt \in Packet
  BY <1>3, <1>5, <1>6 DEF SignedPacket, Packet
<1> HIDE DEF pkt, body
<1> QED BY <1>1, <1>2, <1>3, <1>4, <1>5, <1>6, <1>7 DEF pkt

(* Every branch of an encrypt call preserves IInv.                         *)
LEMMA EncryptStep ==
    ASSUME IInv, NEW e \in Endpoint, Encrypt(e)
    PROVE  IInv'
<1>1. UNCHANGED <<st, owner, hellos, replies>>
  BY DEF Encrypt
<1>2. {"NO_DATA", "STATE", "BUFFER_TOO_SMALL", "OK"} \subseteq Code
  BY DEF Code
<1>3. \E code \in Code : Return(e, code)
  BY <1>2 DEF Encrypt
<1>4. ret' \in [at : Endpoint, code : Code, out : SUBSET Delivery]
  BY <1>3, ReturnType
<1>5. CASE UNCHANGED packets
  BY <1>1, <1>4, <1>5, QuietStep
<1>6. CASE \E p \in Payload : st[e].complete /\ packets' = packets \cup {SignedPacket(e, p)}
  <2>1. PICK p \in Payload : st[e].complete /\ packets' = packets \cup {SignedPacket(e, p)}
    BY <1>6
  <2> DEFINE pkt == SignedPacket(e, p)
  <2>2. /\ pkt \in Packet
        /\ pkt.sig.over = pkt.body
        /\ pkt.sig.by \in Client <=> pkt.to \in Server
        /\ pkt.body.aead # Zeroed =>
              \E a \in Key \cup {NoKey}, b \in Key :
                  /\ pkt.body.aead = Shared(a, b)
                  /\ a # NoKey => owner[a] = pkt.sig.by
                  /\ owner[b] = pkt.to
    BY <2>1, SealedPacket
  <2>3. packets' = packets \cup {pkt}
    BY <2>1
  <2> HIDE DEF pkt
  <2>4. TypeOK'
    BY <1>1, <1>4, <2>2, <2>3 DEF IInv, TypeOK
  <2>5. PacketsGenuine'
    BY <1>1, <2>2, <2>3 DEF IInv, PacketsGenuine
  <2>6. /\ HandshakeBindsIdentity' /\ HellosGenuine' /\ RepliesGenuine'
        /\ OwnSecrets' /\ KeysDerived'
    BY <1>1 DEF IInv, HandshakeBindsIdentity, HellosGenuine, RepliesGenuine,
                OwnSecrets, KeysDerived
  <2> QED BY <2>4, <2>5, <2>6 DEF IInv
<1> QED BY <1>5, <1>6 DEF Encrypt, Transmit

(* The payload a decrypt call returns is one of the packet it was given. *)
LEMMA DecryptStep ==
    ASSUME IInv, NEW e \in Endpoint, Decrypt(e)
    PROVE  IInv'
<1>1. UNCHANGED <<st, owner, hellos, replies, packets>>
  BY DEF Decrypt
<1>2. ASSUME NEW pkt \in PacketInTransit
      PROVE  PacketStatus(e, pkt) \in Code
  BY DEF PacketStatus, Code
<1>3. CASE \E code \in Code : Return(e, code)
  BY <1>1, <1>3, ReturnType, QuietStep
<1>4. CASE st[e].complete /\ \E pkt \in PacketInTransit : ReturnPayload(e, pkt)
  <2>1. PICK pkt \in PacketInTransit : ReturnPayload(e, pkt)
    BY <1>4
  <2>2. pkt.body \in Body
    <3>1. CASE pkt \in packets
      BY <3>1 DEF IInv, TypeOK, Packet
    <3>2. CASE pkt \in {[p[1] EXCEPT !.sig = p[2].sig] : p \in packets \X packets}
      <4>1. PICK f \in packets, g \in packets : pkt = [f EXCEPT !.sig = g.sig]
        BY <3>2
      <4>2. f \in Packet
        BY <4>1 DEF IInv, TypeOK
      <4> QED BY <4>1, <4>2 DEF Packet
    <3> QED BY <2>1, <3>1, <3>2 DEF PacketInTransit
  <2>3. st[e].peer \in Endpoint /\ st[e].aead \in SessionKey
    <3>1. e \in Client => st[e].peer \in Server
      BY <1>4 DEF IInv, HandshakeBindsIdentity
    <3>2. e \in Server => st[e].peer \in Client
      BY <1>4 DEF IInv, HandshakeBindsIdentity
    <3> QED BY <3>1, <3>2 DEF IInv, TypeOK, Struct
  <2>4. [from |-> st[e].peer, to |-> e, session |-> st[e].aead,
         payload |-> pkt.body.payload] \in Delivery
    BY <2>2, <2>3 DEF Delivery, Body
  <2>5. ret' \in [at : Endpoint, code : Code, out : SUBSET Delivery]
    BY <2>1, <2>4 DEF ReturnPayload, Code
  <2> QED BY <1>1, <2>5, QuietStep
<1>5. {"STATE", "INVALID_ARGUMENT", "BUFFER_TOO_SMALL"} \subseteq Code
  BY DEF Code
<1> QED BY <1>2, <1>3, <1>4, <1>5 DEF Decrypt

-----------------------------------------------------------------------------
(* The early returns of the handshake calls preserve IInv.                 *)
LEMMA RejectStep ==
    ASSUME IInv, NEW e \in Endpoint, RefuseBuffer(e) \/ RejectHello(e) \/ RejectReply(e)
    PROVE  IInv'
<1>1. UNCHANGED <<st, owner, hellos, replies, packets>>
  BY DEF RefuseBuffer, RejectHello, RejectReply
<1>2. \A h \in HelloInTransit : HelloStatus(h) \in Code
  BY DEF HelloStatus, Code
<1>3. \A m1 \in ReplyInTransit : ReplyStatus(m1) \in Code
  BY DEF ReplyStatus, Code
<1>4. "BUFFER_TOO_SMALL" \in Code
  BY DEF Code
<1>5. \E code \in Code : Return(e, code)
  BY <1>2, <1>3, <1>4 DEF RefuseBuffer, RejectHello, RejectReply
<1> QED BY <1>1, <1>5, ReturnType, QuietStep

(* Every step of the system preserves IInv. *)
LEMMA NextStep == IInv /\ [Next]_vars => IInv'
<1> SUFFICES ASSUME IInv, [Next]_vars PROVE IInv'
  OBVIOUS
<1>1. CASE UNCHANGED vars
  BY <1>1 DEF vars, IInv, TypeOK, HandshakeBindsIdentity, HellosGenuine,
              RepliesGenuine, OwnSecrets, KeysDerived, PacketsGenuine
<1>2. ASSUME NEW e \in Endpoint,
             st' = [st EXCEPT ![e] = Zero] \/ st' = [st EXCEPT ![e] = Created],
             Return(e, "OK"), UNCHANGED <<owner, hellos, replies, packets>>
      PROVE  IInv'
  <2>1. "OK" \in Code
    BY DEF Code
  <2> QED BY <1>2, <2>1, ReturnType, ResetStep
<1>3. ASSUME NEW c \in Client, ClientCreate(c) \/ ClientWipe(c)
      PROVE  IInv'
  BY <1>2, <1>3 DEF ClientCreate, ClientWipe
<1>4. ASSUME NEW s \in Server, ServerCreate(s) \/ ServerWipe(s)
      PROVE  IInv'
  BY <1>2, <1>4 DEF ServerCreate, ServerWipe
<1>5. ASSUME NEW c \in Client, ClientHello(c)
      PROVE  IInv'
  BY <1>5, ClientHelloStep
<1>6. ASSUME NEW c \in Client, ClientFinish(c)
      PROVE  IInv'
  BY <1>6, RejectStep, AcceptReplyStep, FailReplyStep DEF ClientFinish
<1>7. ASSUME NEW s \in Server, ServerHandshake(s)
      PROVE  IInv'
  BY <1>7, RejectStep, AcceptHelloStep, FailHelloStep DEF ServerHandshake
<1>8. ASSUME NEW c \in Client, ClientEncrypt(c) \/ ClientDecrypt(c)
      PROVE  IInv'
  BY <1>8, EncryptStep, DecryptStep DEF ClientEncrypt, ClientDecrypt
<1>9. ASSUME NEW s \in Server, ServerEncrypt(s) \/ ServerDecrypt(s)
      PROVE  IInv'
  BY <1>9, EncryptStep, DecryptStep DEF ServerEncrypt, ServerDecrypt
<1>10. CASE Next
  BY <1>3, <1>4, <1>5, <1>6, <1>7, <1>8, <1>9, <1>10 DEF Next
<1> QED BY <1>1, <1>10

(* IInv holds in every reachable state of the handshake and traffic calls. *)
THEOREM Inductive == Spec => []IInv
<1>1. Init => IInv
  BY InitIInv
<1>2. IInv /\ [Next]_vars => IInv'
  BY NextStep
<1> QED BY <1>1, <1>2, PTL DEF Spec

-----------------------------------------------------------------------------
(* Every field of every struct and message has its type (naion.h 713-750). *)
THEOREM TypeCorrect == Spec => []TypeOK
BY Inductive, PTL DEF IInv

(* A complete handshake names the true owner of the peer's session key.    *)
THEOREM IdentityBound == Spec => []HandshakeBindsIdentity
BY Inductive, PTL DEF IInv

(* A session key belongs to one pair of endpoints: KeyAgreement from IInv. *)
LEMMA AgreementFromIInv == IInv => KeyAgreement
<1> SUFFICES ASSUME IInv, NEW c \in Client, NEW s \in Server,
                    st[c].complete, st[c].aead # Zeroed,
                    st[s].complete, st[s].aead # Zeroed
             PROVE  st[c].aead = st[s].aead <=>
                      /\ st[c].peer = s /\ st[c].peer_xpk = st[s].xsk
                      /\ st[s].peer = c /\ st[s].peer_xpk = st[c].xsk
  BY DEF KeyAgreement
<1>1. /\ st[c].aead = Shared(st[c].xsk, st[c].peer_xpk)
      /\ st[s].aead = Shared(st[s].xsk, st[s].peer_xpk)
  BY DEF IInv, KeysDerived
<1>2. /\ st[c].peer_xpk \in Key /\ owner[st[c].peer_xpk] = st[c].peer
      /\ st[c].peer \in Server
      /\ st[s].peer_xpk \in Key /\ owner[st[s].peer_xpk] = st[s].peer
      /\ st[s].peer \in Client
  BY DEF IInv, HandshakeBindsIdentity
<1>3. /\ st[c].xsk # NoKey => owner[st[c].xsk] = c
      /\ st[s].xsk # NoKey => owner[st[s].xsk] = s
  BY DEF IInv, OwnSecrets
<1>4. ASSUME st[c].aead = st[s].aead
      PROVE  /\ st[c].peer = s /\ st[c].peer_xpk = st[s].xsk
             /\ st[s].peer = c /\ st[s].peer_xpk = st[c].xsk
  <2>1. \/ st[c].xsk = st[s].xsk /\ st[c].peer_xpk = st[s].peer_xpk
        \/ st[c].xsk = st[s].peer_xpk /\ st[c].peer_xpk = st[s].xsk
    <3>1. Shared(st[c].xsk, st[c].peer_xpk) = Shared(st[s].xsk, st[s].peer_xpk)
      BY <1>1, <1>4
    <3> QED BY <3>1, SharedPair
  <2>2. st[c].peer_xpk # st[s].peer_xpk
    BY <1>2
  <2> QED BY <1>2, <1>3, <2>1, <2>2
<1>5. ASSUME st[c].peer_xpk = st[s].xsk, st[s].peer_xpk = st[c].xsk
      PROVE  st[c].aead = st[s].aead
  BY <1>1, <1>5 DEF Shared
<1> QED BY <1>4, <1>5

(* client_finish and server_handshake give the same session key to two     *)
(* endpoints exactly when each is the other's peer.                        *)
THEOREM KeysAgree == Spec => []KeyAgreement
BY Inductive, AgreementFromIInv, PTL

(* A packet sealed under a key that is not zero has both halves of its key *)
(* in the hands of its sender and its receiver.                            *)
LEMMA PacketKey ==
    ASSUME IInv, NEW p \in packets, p.body.aead # Zeroed
    PROVE  /\ p.sig.by \in Endpoint /\ p.to \in Endpoint
           /\ \E a \in Key \cup {NoKey}, b \in Key :
                 /\ p.body.aead = Shared(a, b)
                 /\ a # NoKey => owner[a] = p.sig.by
                 /\ owner[b] = p.to
<1>1. p \in Packet
  BY DEF IInv, TypeOK
<1>2. p.sig.by \in Endpoint /\ p.to \in Endpoint
  BY <1>1 DEF Packet
<1> QED BY <1>2 DEF IInv, PacketsGenuine

(* server_handshake opens sessions, it never reopens one: the new key pair *)
(* has no owner yet, both halves of the key of every packet do.            *)
LEMMA ReopenStep ==
    ASSUME IInv, [Next]_vars, NEW s \in Server,
           st'[s].aead # st[s].aead, st'[s].aead # Zeroed,
           NEW p \in packets
    PROVE  p.body.aead # st'[s].aead
<1>1. ASSUME NEW e \in Endpoint, st' = [st EXCEPT ![e] = Zero] \/ st' = [st EXCEPT ![e] = Created]
      PROVE  FALSE
  BY <1>1, ZeroStruct DEF IInv, TypeOK
<1>2. ASSUME NEW c \in Client, ClientHello(c) \/ ClientFinish(c)
      PROVE  FALSE
  <2>1. st' \in [Endpoint -> Struct] /\ st'[s] = st[s]
    <3>1. c # s
      OBVIOUS
    <3>2. ClientHello(c) => st'[s] = st[s]
      BY <3>1 DEF ClientHello, IInv, TypeOK
    <3>3. ClientFinish(c) => st'[s] = st[s]
      BY <3>1 DEF ClientFinish, RejectReply, AcceptReply, FailReply, IInv, TypeOK
    <3>4. IInv'
      BY NextStep
    <3> QED BY <1>2, <3>2, <3>3, <3>4 DEF IInv, TypeOK
  <2> QED BY <2>1
<1>3. ASSUME NEW t \in Server, NEW h \in HelloInTransit, AcceptHello(t, h)
      PROVE  p.body.aead # st'[s].aead
  <2>1. PICK x \in Key :
          /\ FreshKey(x)
          /\ st' = [st EXCEPT ![t] = [created |-> TRUE, xsk |-> x, peer_xpk |-> h.xpk,
                                      peer |-> h.ed, aead |-> Shared(x, h.xpk),
                                      complete |-> TRUE]]
    BY <1>3 DEF AcceptHello
  <2>2. t = s
    BY <2>1 DEF IInv, TypeOK
  <2>3. st'[s].aead = Shared(x, h.xpk)
    BY <2>1, <2>2 DEF IInv, TypeOK
  <2>4. SUFFICES ASSUME p.body.aead = Shared(x, h.xpk) PROVE FALSE
    BY <2>3
  <2>5. PICK a \in Key \cup {NoKey}, b \in Key :
          /\ p.body.aead = Shared(a, b)
          /\ a # NoKey => owner[a] = p.sig.by
          /\ owner[b] = p.to
    BY <2>4, PacketKey, SharedNotZeroed
  <2>6. x = a \/ x = b
    <3>1. Shared(a, b) = Shared(x, h.xpk)
      BY <2>4, <2>5
    <3> QED BY <3>1, SharedPair
  <2>7. p.sig.by \in Endpoint /\ p.to \in Endpoint
    BY <2>4, PacketKey, SharedNotZeroed
  <2> QED BY <2>1, <2>5, <2>6, <2>7 DEF FreshKey
<1>4. ASSUME NEW t \in Server, NEW h \in HelloInTransit, FailHello(t, h)
      PROVE  FALSE
  <2>1. st' = [st EXCEPT ![t] = [st[t] EXCEPT !.xsk = NoKey, !.aead = Zeroed]]
    BY <1>4 DEF FailHello
  <2>2. st[t] \in Struct
    BY DEF IInv, TypeOK
  <2>3. st'[s].aead = st[s].aead \/ st'[s].aead = Zeroed
    BY <2>1, <2>2, StructUpdate DEF IInv, TypeOK
  <2> QED BY <2>3
<1>5. st' # st
  OBVIOUS
<1>6. CASE \E c \in Client : \/ ClientCreate(c) \/ ClientWipe(c) \/ ClientHello(c)
                            \/ ClientFinish(c) \/ ClientEncrypt(c) \/ ClientDecrypt(c)
  BY <1>1, <1>2, <1>5, <1>6 DEF ClientCreate, ClientWipe, ClientEncrypt, ClientDecrypt,
                                Encrypt, Decrypt
<1>7. CASE \E t \in Server : \/ ServerCreate(t) \/ ServerWipe(t) \/ ServerHandshake(t)
                            \/ ServerEncrypt(t) \/ ServerDecrypt(t)
  BY <1>1, <1>3, <1>4, <1>5, <1>7 DEF ServerCreate, ServerWipe, ServerHandshake, RefuseBuffer,
         RejectHello, ServerEncrypt, ServerDecrypt, Encrypt, Decrypt
<1> QED BY <1>5, <1>6, <1>7 DEF Next, vars

(* No session key server_handshake installs has ever sealed a packet, so a *)
(* repeated hello does not make recorded packets acceptable again.         *)
THEOREM NoReopening == Spec => ServerNeverReopensASession
<1>1. IInv /\ [Next]_vars =>
        [\A s \in Server : (st'[s].aead # st[s].aead /\ st'[s].aead # Zeroed) =>
            \A p \in packets : p.body.aead # st'[s].aead]_vars
  BY ReopenStep
<1> QED BY <1>1, Inductive, PTL DEF Spec, ServerNeverReopensASession

-----------------------------------------------------------------------------
(* The error paths: a call that does not return OK changes no struct,      *)
(* unless the derivation failed (CRYPTO).                                  *)
LEMMA FailedStep ==
    ASSUME IInv, Next, ret'.code # "OK"
    PROVE  /\ \A e \in Endpoint :
                /\ st'[e].peer = st[e].peer /\ st'[e].peer_xpk = st[e].peer_xpk
                /\ st'[e].complete => st[e].complete
                /\ st'[e].aead \in {st[e].aead, Zeroed}
           /\ ret'.code # "CRYPTO" => st' = st
<1>1. ASSUME NEW e \in Endpoint, Return(e, "OK")
      PROVE  FALSE
  BY <1>1 DEF Return
<1>2. CASE st' = st
  BY <1>2
<1>3. ASSUME NEW f \in Endpoint, NEW z \in Struct,
             st' = [st EXCEPT ![f] = z], z.aead = Zeroed, z.complete = st[f].complete,
             z.peer = st[f].peer, z.peer_xpk = st[f].peer_xpk,
             Return(f, "CRYPTO")
      PROVE  /\ \A e \in Endpoint :
                  /\ st'[e].peer = st[e].peer /\ st'[e].peer_xpk = st[e].peer_xpk
                  /\ st'[e].complete => st[e].complete
                  /\ st'[e].aead \in {st[e].aead, Zeroed}
             /\ ret'.code = "CRYPTO"
  <2>1. st'[f] = z /\ \A e \in Endpoint : e # f => st'[e] = st[e]
    BY <1>3 DEF IInv, TypeOK
  <2>2. ret'.code = "CRYPTO"
    BY <1>3 DEF Return
  <2>3. z.complete => st[f].complete
    BY <1>3
  <2> QED BY <1>3, <2>1, <2>2, <2>3
<1>4. ASSUME NEW c \in Client, NEW m1 \in ReplyInTransit, FailReply(c, m1)
      PROVE  \E f \in Endpoint, z \in Struct :
                /\ st' = [st EXCEPT ![f] = z] /\ z.aead = Zeroed
                /\ z.complete = st[f].complete
                /\ z.peer = st[f].peer /\ z.peer_xpk = st[f].peer_xpk
                /\ Return(f, "CRYPTO")
  <2>1. st[c] \in Struct
    BY DEF IInv, TypeOK
  <2>2. st' = [st EXCEPT ![c] = [st[c] EXCEPT !.aead = Zeroed]] /\ Return(c, "CRYPTO")
    BY <1>4 DEF FailReply
  <2> QED BY <2>1, <2>2, StructUpdate
<1>5. ASSUME NEW s \in Server, NEW h \in HelloInTransit, FailHello(s, h)
      PROVE  \E f \in Endpoint, z \in Struct :
                /\ st' = [st EXCEPT ![f] = z] /\ z.aead = Zeroed
                /\ z.complete = st[f].complete
                /\ z.peer = st[f].peer /\ z.peer_xpk = st[f].peer_xpk
                /\ Return(f, "CRYPTO")
  <2>1. st[s] \in Struct
    BY DEF IInv, TypeOK
  <2>2. /\ st' = [st EXCEPT ![s] = [st[s] EXCEPT !.xsk = NoKey, !.aead = Zeroed]]
        /\ Return(s, "CRYPTO")
    BY <1>5 DEF FailHello
  <2> QED BY <2>1, <2>2, StructUpdate
<1>6. ASSUME NEW c \in Client,
             \/ ClientCreate(c) \/ ClientWipe(c) \/ ClientHello(c)
             \/ ClientFinish(c) \/ ClientEncrypt(c) \/ ClientDecrypt(c)
      PROVE  st' = st \/ \E m1 \in ReplyInTransit : FailReply(c, m1)
  BY <1>1, <1>6 DEF ClientCreate, ClientWipe, ClientHello, ClientFinish, RejectReply,
         AcceptReply, ClientEncrypt, ClientDecrypt, Encrypt, Decrypt
<1>7. ASSUME NEW s \in Server,
             \/ ServerCreate(s) \/ ServerWipe(s) \/ ServerHandshake(s)
             \/ ServerEncrypt(s) \/ ServerDecrypt(s)
      PROVE  st' = st \/ \E h \in HelloInTransit : FailHello(s, h)
  BY <1>1, <1>7 DEF ServerCreate, ServerWipe, ServerHandshake, RefuseBuffer, RejectHello,
         AcceptHello, ServerEncrypt, ServerDecrypt, Encrypt, Decrypt
<1>8. CASE \E f \in Endpoint, z \in Struct :
                /\ st' = [st EXCEPT ![f] = z] /\ z.aead = Zeroed
                /\ z.complete = st[f].complete
                /\ z.peer = st[f].peer /\ z.peer_xpk = st[f].peer_xpk
                /\ Return(f, "CRYPTO")
  <2>1. PICK f \in Endpoint, z \in Struct :
                /\ st' = [st EXCEPT ![f] = z] /\ z.aead = Zeroed
                /\ z.complete = st[f].complete
                /\ z.peer = st[f].peer /\ z.peer_xpk = st[f].peer_xpk
                /\ Return(f, "CRYPTO")
    BY <1>8
  <2> QED BY <1>3, <2>1
<1> QED BY <1>2, <1>4, <1>5, <1>6, <1>7, <1>8 DEF Next

(* A handshake or traffic call that fails moves no struct to another       *)
(* session, and one that fails verification changes no struct at all.      *)
THEOREM FailuresInstallNothing == Spec => FailedCallInstallsNothing
<1>1. IInv /\ [Next]_vars =>
        [/\ ret'.code # "OK" =>
              \A e \in Endpoint :
                 /\ st'[e].peer = st[e].peer /\ st'[e].peer_xpk = st[e].peer_xpk
                 /\ st'[e].complete => st[e].complete
                 /\ st'[e].aead \in {st[e].aead, Zeroed}
         /\ ret'.code \notin {"OK", "CRYPTO"} => st' = st]_vars
  BY FailedStep
<1> QED BY <1>1, Inductive, PTL DEF Spec, FailedCallInstallsNothing

-----------------------------------------------------------------------------
(* The sessions implement the authentic channel of AuthChannel.            *)

(* A packet that verifies and opens was sealed by the peer, for this end   *)
(* of this session: its key is the receiver's, whose halves belong to the  *)
(* receiver and its peer, and the signature tells which of the two it was. *)
LEMMA Authentic ==
    ASSUME IInv, NEW e \in Endpoint, st[e].complete, st[e].aead # Zeroed,
           NEW pkt \in PacketInTransit, PacketStatus(e, pkt) = "OK"
    PROVE  /\ [from |-> st[e].peer, to |-> e, session |-> st[e].aead,
               payload |-> pkt.body.payload] \in Sealed
           /\ st[e].peer # e
<1>1. pkt.sig = Signature(st[e].peer, pkt.body) /\ pkt.body.aead = st[e].aead
  BY DEF PacketStatus, Verifies, Opens
<1>2. PICK q \in packets : q.sig = pkt.sig
  <2>1. CASE pkt \in packets
    BY <2>1
  <2>2. CASE pkt \in {[p[1] EXCEPT !.sig = p[2].sig] : p \in packets \X packets}
    <3>1. PICK f \in packets, g \in packets : pkt = [f EXCEPT !.sig = g.sig]
      BY <2>2
    <3>2. pkt.sig = g.sig
      BY <3>1 DEF IInv, TypeOK, Packet
    <3> QED BY <3>1, <3>2
  <2> QED BY <2>1, <2>2 DEF PacketInTransit
<1>3. q.sig.by = st[e].peer /\ q.body = pkt.body
  <2>1. q.sig.over = q.body
    BY DEF IInv, PacketsGenuine
  <2> QED BY <1>1, <1>2, <2>1 DEF Signature
<1>4. /\ e \in Client => st[e].peer \in Server
      /\ e \in Server => st[e].peer \in Client
      /\ st[e].peer_xpk \in Key /\ owner[st[e].peer_xpk] = st[e].peer
      /\ st[e].xsk # NoKey => owner[st[e].xsk] = e
      /\ st[e].aead = Shared(st[e].xsk, st[e].peer_xpk)
  BY DEF IInv, HandshakeBindsIdentity, OwnSecrets, KeysDerived
<1>5. q.to = e
  <2>1. PICK a \in Key \cup {NoKey}, b \in Key :
          q.body.aead = Shared(a, b) /\ owner[b] = q.to
    BY <1>1, <1>3, PacketKey
  <2>2. b = st[e].xsk \/ b = st[e].peer_xpk
    <3>1. Shared(a, b) = Shared(st[e].xsk, st[e].peer_xpk)
      BY <1>1, <1>3, <1>4, <2>1
    <3> QED BY <3>1, SharedPair
  <2>3. q.sig.by \in Client <=> q.to \in Server
    BY DEF IInv, PacketsGenuine
  <2> QED BY <1>3, <1>4, <2>1, <2>2, <2>3
<1>6. [from |-> q.sig.by, to |-> q.to, session |-> q.body.aead,
       payload |-> q.body.payload] \in Sealed
  BY <1>1, <1>3 DEF Sealed
<1> QED BY <1>1, <1>3, <1>4, <1>5, <1>6

(* Sealed only changes when packets does. *)
LEMMA StepWithoutPackets ==
    ASSUME UNCHANGED packets, NEW e \in Endpoint, NEW code \in Code, Return(e, code)
    PROVE  Channel!Other
<1>1. Sealed' = Sealed
  BY DEF Sealed
<1>2. ret'.out = {}
  BY DEF Return
<1> QED BY <1>1, <1>2 DEF Channel!Other, Opened

(* An encrypt call is a Send of the channel, or neither sends nor delivers. *)
LEMMA EncryptRefines ==
    ASSUME IInv, NEW e \in Endpoint, Encrypt(e)
    PROVE  Channel!Next
<1>1. {"NO_DATA", "STATE", "BUFFER_TOO_SMALL", "OK"} \subseteq Code
  BY DEF Code
<1>2. PICK code \in Code : Return(e, code)
  BY <1>1 DEF Encrypt
<1>3. CASE UNCHANGED packets
  BY <1>2, <1>3, StepWithoutPackets DEF Channel!Next
<1>4. CASE \E p \in Payload : st[e].complete /\ packets' = packets \cup {SignedPacket(e, p)}
  <2>1. PICK p \in Payload : st[e].complete /\ packets' = packets \cup {SignedPacket(e, p)}
    BY <1>4
  <2> DEFINE pkt == SignedPacket(e, p)
             m == [from |-> pkt.sig.by, to |-> pkt.to, session |-> pkt.body.aead,
                   payload |-> pkt.body.payload]
  <2>2. pkt \in Packet
    BY <2>1, SealedPacket
  <2>3. packets' = packets \cup {pkt}
    BY <2>1
  <2>4. Opened' = {}
    BY <1>2 DEF Opened, Return
  <2> HIDE DEF pkt
  <2>5. CASE pkt.body.aead = Zeroed
    <3>1. Sealed' = Sealed
      BY <2>3, <2>5 DEF Sealed
    <3> QED BY <2>4, <3>1 DEF Channel!Next, Channel!Other
  <2>6. CASE pkt.body.aead # Zeroed
    <3>1. Sealed' = Sealed \cup {m}
      BY <2>3, <2>6 DEF Sealed
    <3>2. m \in Channel!Message
      BY <2>2 DEF Channel!Message, Packet, Body
    <3> HIDE DEF m
    <3> QED BY <2>4, <3>1, <3>2 DEF Channel!Next, Channel!Send
  <2> QED BY <2>5, <2>6
<1> QED BY <1>3, <1>4 DEF Encrypt, Transmit

(* A decrypt call that returns a payload is a Deliver of the channel.      *)
LEMMA DecryptRefines ==
    ASSUME IInv, NEW e \in Endpoint, Decrypt(e)
    PROVE  Channel!Next
<1>1. UNCHANGED packets /\ Sealed' = Sealed
  BY DEF Decrypt, Sealed
<1>2. \A pkt \in PacketInTransit : PacketStatus(e, pkt) \in Code
  BY DEF PacketStatus, Code
<1>3. {"STATE", "INVALID_ARGUMENT", "BUFFER_TOO_SMALL"} \subseteq Code
  BY DEF Code
<1>4. CASE \E code \in Code : Return(e, code)
  BY <1>1, <1>4, StepWithoutPackets DEF Channel!Next
<1>5. CASE /\ st[e].complete
           /\ \E pkt \in PacketInTransit : PacketStatus(e, pkt) = "OK" /\ ReturnPayload(e, pkt)
  <2>1. PICK pkt \in PacketInTransit : PacketStatus(e, pkt) = "OK" /\ ReturnPayload(e, pkt)
    BY <1>5
  <2> DEFINE d == [from |-> st[e].peer, to |-> e, session |-> st[e].aead,
                   payload |-> pkt.body.payload]
  <2>2. ret'.out = {d}
    BY <2>1 DEF ReturnPayload
  <2>3. CASE st[e].aead = Zeroed
    <3>1. Opened' = {}
      BY <2>2, <2>3 DEF Opened
    <3> QED BY <1>1, <3>1 DEF Channel!Next, Channel!Other
  <2>4. CASE st[e].aead # Zeroed
    <3>1. d \in Sealed /\ st[e].peer # e
      BY <1>5, <2>1, <2>4, Authentic
    <3>2. Opened' = {d}
      BY <2>2, <2>4 DEF Opened
    <3>3. d.from # d.to
      BY <3>1
    <3>4. d \in Channel!Message
      <4>1. Sealed \subseteq Channel!Message
        BY DEF Sealed, Channel!Message, IInv, TypeOK, Packet, Body
      <4> QED BY <3>1, <4>1
    <3> HIDE DEF d
    <3> QED BY <1>1, <3>1, <3>2, <3>3, <3>4 DEF Channel!Next, Channel!Deliver
  <2> QED BY <2>3, <2>4
<1> QED BY <1>2, <1>3, <1>4, <1>5 DEF Decrypt

(* The calls other than encrypt and decrypt do not show on the channel.    *)
LEMMA HandshakeRefines ==
    ASSUME Next,
           ~ \E e \in Endpoint : Encrypt(e) \/ Decrypt(e)
    PROVE  Channel!Next
<1>1. {"OK", "CRYPTO", "BUFFER_TOO_SMALL"} \subseteq Code
  BY DEF Code
<1>2. \A h \in HelloInTransit : HelloStatus(h) \in Code
  BY DEF HelloStatus, Code
<1>3. \A m1 \in ReplyInTransit : ReplyStatus(m1) \in Code
  BY DEF ReplyStatus, Code
<1>4. ASSUME NEW c \in Client,
             ClientCreate(c) \/ ClientWipe(c) \/ ClientHello(c) \/ ClientFinish(c)
      PROVE  UNCHANGED packets /\ \E code \in Code : Return(c, code)
  BY <1>1, <1>3, <1>4 DEF ClientCreate, ClientWipe, ClientHello, ClientFinish,
                          RejectReply, AcceptReply, FailReply
<1>5. ASSUME NEW s \in Server, ServerCreate(s) \/ ServerWipe(s) \/ ServerHandshake(s)
      PROVE  UNCHANGED packets /\ \E code \in Code : Return(s, code)
  BY <1>1, <1>2, <1>5 DEF ServerCreate, ServerWipe, ServerHandshake, RefuseBuffer,
                          RejectHello, AcceptHello, FailHello
<1>6. PICK e \in Endpoint, code \in Code : UNCHANGED packets /\ Return(e, code)
  BY <1>4, <1>5 DEF Next, ClientEncrypt, ClientDecrypt, ServerEncrypt, ServerDecrypt
<1> QED BY <1>6, StepWithoutPackets DEF Channel!Next

(* The traffic calls of Layer 5 implement the authentic channel: a payload *)
(* decrypt returns was encrypted by the peer, for this end of this session. *)
THEOREM Refinement == Spec => ImplementsChannel
<1>1. Init => Channel!Init
  BY DEF Init, Channel!Init, Sealed, Opened
<1>2. IInv /\ [Next]_vars => [Channel!Next]_(Channel!chan)
  <2> SUFFICES ASSUME IInv, [Next]_vars PROVE [Channel!Next]_(Channel!chan)
    OBVIOUS
  <2>1. CASE UNCHANGED vars
    BY <2>1 DEF vars, Channel!chan, Sealed, Opened
  <2>2. CASE Next
    BY <2>2, EncryptRefines, DecryptRefines, HandshakeRefines
  <2> QED BY <2>1, <2>2
<1> QED BY <1>1, <1>2, Inductive, PTL DEF Spec, ImplementsChannel, Channel!Spec
=============================================================================
