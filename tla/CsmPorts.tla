------------------------------ MODULE CsmPorts ------------------------------
(***************************************************************************)
(* Layers 3 and 4 with endpoints of three implementations on one           *)
(* transport: naion.h (and naion.hpp), the Go port go/naion.go and the     *)
(* Python port python/naion.py.  The ports keep the same structs and make  *)
(* the same packets and certificates; they differ in their errors, and     *)
(* their Layer 4 calls do not look at server_key_verified and              *)
(* client_key_verified.  A key not learnt yet is zero (None in Python), and *)
(* no packet can be sealed under it.  In C and in Python none verifies     *)
(* under it either; in Go some packets do.                                 *)
(***************************************************************************)
EXTENDS CsmDatagram

CONSTANT Deployments  \* which implementation each endpoint's program has

\* "none": the endpoint's program is not running.
Implementation == {"C", "Go", "Python", "none"}

ASSUME DeploymentsAssumption == Deployments \subseteq [Endpoint -> Implementation]

VARIABLE impl  \* the deployment of this behaviour

portsVars == <<vars, impl>>

PortsInit == Init /\ impl \in Deployments

-----------------------------------------------------------------------------
(* Go.  A call that seals draws its session key from crypto/rand and its   *)
(* nonce from the provider, both of which can fail.  The zero key maps to  *)
(* a point of small order, which ScalarMultCurve25519 refuses.             *)
(*                                                                         *)
(* crypto/ed25519 takes the zero key for the point of order 4 that it      *)
(* encodes: whether a signature verifies under it depends on a hash of the *)
(* body, and no secret key is needed.  So a client without a server's key, *)
(* and a server that finds the zero key inside a packet, can take a packet *)
(* for one of Nobody.  What a wiped struct seals is signed with a zero     *)
(* seed, which is not the secret of the zero key: it verifies nowhere.     *)

\* A packet sealed for e, a struct in use, whose signature verifies under the
\* zero key.  Nobody seals for the key pair of a wiped struct.
TakenForNobodys(e, p) ==
    ret' = [at |-> e, code |-> "OK",
            out |-> {[from |-> Nobody, to |-> e, session |-> NoSession, payload |-> p]}]

GoClientEncrypt(c) ==
    \/ Refuse(c, {"NO_DATA", "RANDOM_PROVIDER"})
    \/ cl[c].server = Nobody /\ Refuse(c, {"CRYPTO"})
    \/ ClientSeals(c)
    \/ /\ ~cl[c].created /\ cl[c].server # Nobody
       /\ Return(c, "OK")
       /\ UNCHANGED <<cl, sv, mirror, certs, packets>>

GoClientDecrypt(c) ==
    \/ Refuse(c, {"INVALID_ARGUMENT"})
    \/ ClientOpens(c)
    \/ cl[c].server = Nobody /\ Refuse(c, {"CRYPTO"})
    \/ /\ cl[c].created /\ cl[c].server = Nobody
       /\ \E p \in Payload : TakenForNobodys(c, p)
       /\ UNCHANGED <<cl, sv, mirror, certs, packets>>

GoServerDecrypt(s) ==
    \/ Refuse(s, {"INVALID_ARGUMENT"})
    \/ ServerReceive(s, "CRYPTO", "VERIFY_FAILED") /\ UNCHANGED mirror
    \/ /\ sv[s].created
       /\ sv' = [sv EXCEPT ![s].view = [peer |-> Nobody, known |-> TRUE]]
       /\ \E p \in Payload : TakenForNobodys(s, p)
       /\ UNCHANGED <<cl, mirror, certs, packets>>

GoServerEncrypt(s) ==
    \/ Refuse(s, {"NO_DATA"})
    \/ ~sv[s].view.known /\ Refuse(s, {"STATE"})
    \/ /\ sv[s].view.known
       /\ \/ Refuse(s, {"RANDOM_PROVIDER"})
          \/ sv[s].view.peer = Nobody /\ Refuse(s, {"CRYPTO"})
          \/ ServerSeals(s)

\* A port returns its certificate in memory of its own.
PortHandshakeResponse(s) ==
    /\ certs' = certs \cup {CertOf(s)}
    /\ Return(s, "OK")
    /\ UNCHANGED <<cl, sv, mirror, packets>>

\* Under the zero CA key of a wiped struct a zeroed ca_signature can verify.
GoHandshakeVerify(c) ==
    \/ HandshakeVerify(c)
    \/ \E m1 \in CertInTransit :
        /\ ~cl[c].created /\ m1.sig = Nobody
        /\ cl' = [cl EXCEPT ![c].server = m1.ed, ![c].verified = TRUE]
        /\ Return(c, "OK")
        /\ UNCHANGED <<sv, mirror, certs, packets>>

\* server_key_verified is set and never read.
GoCaClientEncrypt(c) == GoClientEncrypt(c)
GoCaClientDecrypt(c) == GoClientDecrypt(c)

\* Neither block that tests client_key_verified has a statement in it.
GoCaServerEncrypt(s) ==
    \/ Refuse(s, {"NO_DATA", "RANDOM_PROVIDER"})
    \/ sv[s].view.peer = Nobody /\ Refuse(s, {"CRYPTO"})
    \/ ServerSeals(s)

GoCaServerDecrypt(s) == GoServerDecrypt(s)

-----------------------------------------------------------------------------
(* Python.  Errors are exceptions; those of the libraries below naion.py,  *)
(* and those of a key that is None, pass through the Layer 3 and 4 calls.  *)
(* X25519 with a public key of small order raises one of them.             *)

PyClientEncrypt(c) ==
    \/ Refuse(c, {"NO_DATA", "RAISED"})
    \/ ClientSeals(c)

PyClientDecrypt(c) == Refuse(c, {"INVALID_ARGUMENT", "RAISED"}) \/ ClientOpens(c)

PyServerDecrypt(s) ==
    \/ Refuse(s, {"INVALID_ARGUMENT"})
    \/ \E unopened \in {"CRYPTO", "RAISED"} :
        ServerReceive(s, unopened, "VERIFY_FAILED") /\ UNCHANGED mirror

PyServerEncrypt(s) ==
    \/ Refuse(s, {"NO_DATA"})
    \/ ~sv[s].view.known /\ Refuse(s, {"STATE"})
    \/ sv[s].view.known /\ (Refuse(s, {"RAISED"}) \/ ServerSeals(s))

PyHandshakeVerify(c) == HandshakeVerify(c)

PyCaClientEncrypt(c) == PyClientEncrypt(c)

\* Verifying under a key that is None raises.
PyCaClientDecrypt(c) ==
    \/ Refuse(c, {"INVALID_ARGUMENT", "RAISED"})
    \/ cl[c].server # Nobody /\ ClientOpens(c)

PyCaServerEncrypt(s) ==
    \/ Refuse(s, {"NO_DATA", "RAISED"})
    \/ ServerSeals(s)

PyCaServerDecrypt(s) == PyServerDecrypt(s)

-----------------------------------------------------------------------------
ServerLife(s) == (ServerCreate(s) \/ ServerWipe(s)) /\ UNCHANGED mirror

GoCalls(e) ==
    \/ e \in Client /\ (ClientCreate(e) \/ GoClientEncrypt(e) \/ GoClientDecrypt(e))
    \/ e \in CaClient /\ \/ CaClientCreate(e) \/ GoHandshakeVerify(e)
                         \/ GoCaClientEncrypt(e) \/ GoCaClientDecrypt(e)
    \/ e \in AnyClient /\ ClientWipe(e)
    \/ e \in Server /\ (GoServerEncrypt(e) \/ GoServerDecrypt(e))
    \/ e \in CaServer /\ \/ PortHandshakeResponse(e)
                         \/ GoCaServerEncrypt(e) \/ GoCaServerDecrypt(e)
    \/ e \in AnyServer /\ ServerLife(e)

PyCalls(e) ==
    \/ e \in Client /\ (ClientCreate(e) \/ PyClientEncrypt(e) \/ PyClientDecrypt(e))
    \/ e \in CaClient /\ \/ CaClientCreate(e) \/ PyHandshakeVerify(e)
                         \/ PyCaClientEncrypt(e) \/ PyCaClientDecrypt(e)
    \/ e \in AnyClient /\ ClientWipe(e)
    \/ e \in Server /\ (PyServerEncrypt(e) \/ PyServerDecrypt(e))
    \/ e \in CaServer /\ \/ PortHandshakeResponse(e)
                         \/ PyCaServerEncrypt(e) \/ PyCaServerDecrypt(e)
    \/ e \in AnyServer /\ ServerLife(e)

PortsNext ==
    /\ UNCHANGED impl
    /\ \E e \in Endpoint : \/ impl[e] = "C" /\ Calls(e)
                           \/ impl[e] = "Go" /\ GoCalls(e)
                           \/ impl[e] = "Python" /\ PyCalls(e)

PortsSpec == PortsInit /\ [][PortsNext]_portsVars

-----------------------------------------------------------------------------
(* Layers 3 and 4 implement the authentic channel: a payload that decrypt  *)
(* returns was encrypted by the peer it is attributed to, for this end.    *)
(* What a Go struct takes for a packet of Nobody is attributed to no peer; *)
(* CaClientsHearCertified is about it.                                     *)
Sealed == {[from |-> p.sig.by, to |-> p.body.to, session |-> NoSession,
            payload |-> p.body.payload] : p \in packets}

Attributed == {m \in ret.out : impl[m.to] = "Go" => m.from # Nobody}

Channel == INSTANCE AuthChannel WITH Session <- {NoSession}, sent <- Sealed,
                                     out <- Attributed
ImplementsChannel == Channel!Spec

(* "When the verification fails the client must not go on to communicate"  *)
(* (PROTOCOL.md, Layer 4): a Layer 4 client returns payloads of certified  *)
(* servers only (ca_client_decrypt, and its ports).                        *)
CaClientsHearCertified ==
    [][\A m \in ret'.out : m.to \in CaClient => m.from \in Certified]_portsVars

-----------------------------------------------------------------------------
\* Only a C++ program has objects of naion.hpp.
ObjectsAreC == \A s \in Server : mirror[s].object => impl[s] = "C"

PInv == IInv /\ ObjectsAreC
=============================================================================
