---------------------------- MODULE AuthChannel ----------------------------
(***************************************************************************)
(* What the message layers of naion.h promise to the application, whatever *)
(* the transport does: a decrypt call returns a payload only if the peer   *)
(* it is attributed to put that very payload, for this receiver and under  *)
(* this session, into an encrypt call.  Nothing is promised about loss,    *)
(* order or repetition (plan03.md 5.2 leaves replay to the application),   *)
(* so what was sent is a set that only grows.                              *)
(***************************************************************************)
CONSTANTS Endpoint, Session, Payload

VARIABLES
    sent,   \* every message an encrypt call produced
    out     \* what the last call returned: nothing, or one message

chan == <<sent, out>>

Message == [from : Endpoint, to : Endpoint, session : Session, payload : Payload]

Init == sent = {} /\ out = {}

Send(m) == sent' = sent \cup {m} /\ out' = {}

Deliver(m) ==
    /\ m \in sent
    /\ m.from # m.to
    /\ out' = {m}
    /\ UNCHANGED sent

\* A call that neither sends nor delivers.
Other == out' = {} /\ UNCHANGED sent

Next == Other \/ \E m \in Message : Send(m) \/ Deliver(m)

Spec == Init /\ [][Next]_chan
============================================================================
