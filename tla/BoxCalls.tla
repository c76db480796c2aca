------------------------------ MODULE BoxCalls ------------------------------
(***************************************************************************)
(* The public-key calls of naion.h: key exchange, box, sealed box, and the *)
(* run-time selector of the naion_box_* family, a global of each process   *)
(* that every dispatch reads again.  Scalar multiplication, hashes and the *)
(* symmetric core (SecretStream) are symbolic.  A sealed message stays in  *)
(* boxes and may be opened by anyone, any number of times, at any later    *)
(* setting of the selectors.                                               *)
(***************************************************************************)
EXTENDS Naturals, Sequences, FiniteSets

CONSTANTS
  Process,    \* each has one key pair, selector and cached key
  SmallOrder, \* public keys that X25519 refuses
  MaxBoxes

\* No key pair that naion_box_keypair makes has a public key of small order.
ASSUME BoxAssumption == SmallOrder \cap Process = {} /\ MaxBoxes \in Nat

VARIABLES
  gUseXChaCha20,   \* per process
  knm,             \* per process: the key of its last beforenm
  boxes,           \* what has been sealed, with who did it for whom
  opened,          \* the last attempt to open one, as a sequence of at most one
  session          \* per process: the last key exchange

boxVars == <<gUseXChaCha20, knm, boxes, opened, session>>

(***************************************************************************)
(* Primitives.  A key pair is named by its maker, an ephemeral one also by *)
(* the number of the box it was made for.                                  *)
(***************************************************************************)
Own(p) == <<p>>
Ephemeral(p, i) == <<p, i>>

\* X25519: the secret both ends share, or a refusal.
ScalarMult(sk, pk) == [ok |-> pk[1] \notin SmallOrder, q |-> {sk, pk}]

\* beforenm: the point through the family's own derivation.
XChaCha20BeforeNm(sk, pk) ==
  [ok |-> ScalarMult(sk, pk).ok, k |-> [by |-> "hchacha20", q |-> ScalarMult(sk, pk).q]]
XSalsa20BeforeNm(sk, pk) ==
  [ok |-> ScalarMult(sk, pk).ok, k |-> [by |-> "hsalsa20", q |-> ScalarMult(sk, pk).q]]

(***************************************************************************)
(* The selector, and one dispatch on it.                                   *)
(***************************************************************************)
SetUseXChaCha20(p, v) ==
  /\ gUseXChaCha20' = [gUseXChaCha20 EXCEPT ![p] = v]
  /\ UNCHANGED <<knm, boxes, opened, session>>

GetUseXChaCha20(p) == gUseXChaCha20[p]

BeforeNm(p, sk, pk) ==
  IF GetUseXChaCha20(p) THEN XChaCha20BeforeNm(sk, pk) ELSE XSalsa20BeforeNm(sk, pk)

\* The symmetric core: the stream is the one selected now, whatever made k.
SecretBox(p, k, nonce, m) ==
  [stream |-> GetUseXChaCha20(p), k |-> k, nonce |-> nonce, m |-> m]
\* Mutant: opening uses the stream the message was sealed with.
OpensAnyStream(p, k, nonce, c) == c.k = k /\ c.nonce = nonce

Opens(p, k, nonce, c) ==
  c.stream = GetUseXChaCha20(p) /\ c.k = k /\ c.nonce = nonce

(***************************************************************************)
(* naion_box_beforenm and the calls that use its result later.  In knm the *)
(* peer and the selection at the derivation are history.                   *)
(***************************************************************************)
NoKey == [k |-> [by |-> "none", q |-> {}], peer |-> "nobody", derived |-> FALSE]

BoxBeforeNm(p, peer) ==
  LET r == BeforeNm(p, Own(p), Own(peer))
  IN  /\ knm' = IF r.ok
                THEN [knm EXCEPT ![p] =
                        [k |-> r.k, peer |-> peer, derived |-> GetUseXChaCha20(p)]]
                ELSE knm
      /\ UNCHANGED <<gUseXChaCha20, boxes, opened, session>>

Nonce == <<"nonce">>
NextBox == Cardinality(boxes) + 1

\* History: who sealed it, for whom, and the selection at the derivation.
Posted(kind, c, head, from, to, derived) ==
  /\ boxes' = boxes \cup {[kind |-> kind, c |-> c, head |-> head,
                           from |-> from, to |-> to, derived |-> derived]}
  /\ UNCHANGED <<gUseXChaCha20, knm, opened, session>>

BoxEasy(p, peer) ==
  LET r == BeforeNm(p, Own(p), Own(peer))
  IN  /\ NextBox <= MaxBoxes
      /\ r.ok
      /\ Posted("box", SecretBox(p, r.k, Nonce, NextBox), <<>>, p, peer, GetUseXChaCha20(p))

BoxEasyAfterNm(p) ==
  /\ NextBox <= MaxBoxes
  /\ knm[p] # NoKey
  /\ Posted("box", SecretBox(p, knm[p].k, Nonce, NextBox), <<>>,
            p, knm[p].peer, knm[p].derived)

\* The nonce is the hash of the ephemeral and the recipient's public key.
SealNonce(epk, pk) == <<"blake2b", epk, pk>>

BoxSeal(p, peer) ==
  LET esk == Ephemeral(p, NextBox)
      r   == BeforeNm(p, esk, Own(peer))
  IN  /\ NextBox <= MaxBoxes
      /\ r.ok
      /\ Posted("seal", SecretBox(p, r.k, SealNonce(esk, Own(peer)), NextBox),
                esk, p, peer, GetUseXChaCha20(p))

(***************************************************************************)
(* Opening.                                                                *)
(***************************************************************************)
Attempt(kind, p, peer, b, derived, ok) ==
  /\ opened' = <<[kind |-> kind, p |-> p, peer |-> peer, box |-> b, derived |-> derived,
                  stream |-> GetUseXChaCha20(p), ok |-> ok]>>
  /\ UNCHANGED <<gUseXChaCha20, knm, boxes, session>>

BoxOpenEasy(p, peer, b) ==
  LET r == BeforeNm(p, Own(p), Own(peer))
  IN  Attempt("box", p, peer, b, GetUseXChaCha20(p), r.ok /\ Opens(p, r.k, Nonce, b.c))

BoxOpenEasyAfterNm(p, b) ==
  /\ knm[p] # NoKey
  /\ Attempt("box", p, knm[p].peer, b, knm[p].derived, Opens(p, knm[p].k, Nonce, b.c))

BoxSealOpen(p, b) ==
  LET r == BeforeNm(p, Own(p), b.head)
  IN  /\ b.kind = "seal"
      /\ Attempt("seal", p, b.from, b, GetUseXChaCha20(p),
                 r.ok /\ Opens(p, r.k, SealNonce(b.head, Own(p)), b.c))

(***************************************************************************)
(* Key exchange: two halves of one hash.  A caller that wants one key only *)
(* passes NULL for the other: rx and tx are then one buffer, and in both   *)
(* roles the second half is the later store.                               *)
(***************************************************************************)
SessionHash(q, clientPk, serverPk) ==
  [half \in 1 .. 2 |-> <<"blake2b", q, clientPk, serverPk, half>>]

ClientSessionKeys(q, me, peer, want) ==
  LET keys == SessionHash(q, me, peer)
  IN  IF want = "both" THEN [rx |-> keys[1], tx |-> keys[2]]
                       ELSE [rx |-> keys[2], tx |-> keys[2]]

\* Mutant: the server takes the halves in the client's order.
ServerSessionKeysUnswapped(q, me, peer, want) ==
  LET keys == SessionHash(q, peer, me)
  IN  IF want = "both" THEN [rx |-> keys[1], tx |-> keys[2]]
                       ELSE [rx |-> keys[2], tx |-> keys[2]]

ServerSessionKeys(q, me, peer, want) ==
  LET keys == SessionHash(q, peer, me)
  IN  IF want = "both" THEN [rx |-> keys[2], tx |-> keys[1]]
                       ELSE [rx |-> keys[2], tx |-> keys[2]]

KxSessionKeys(p, peer, role, want) ==
  LET r == ScalarMult(Own(p), Own(peer))
      keys == IF role = "client" THEN ClientSessionKeys(r.q, p, peer, want)
                                 ELSE ServerSessionKeys(r.q, p, peer, want)
  IN  /\ r.ok
      /\ session' = [session EXCEPT ![p] =
                       <<[role |-> role, peer |-> peer, want |-> want, keys |-> keys]>>]
      /\ UNCHANGED <<gUseXChaCha20, knm, boxes, opened>>

(***************************************************************************)
BoxInit ==
  /\ gUseXChaCha20 = [p \in Process |-> TRUE]
  /\ knm = [p \in Process |-> NoKey]
  /\ boxes = {}
  /\ opened = <<>>
  /\ session = [p \in Process |-> <<>>]

PublicKeys == Process \cup SmallOrder

BoxMessages ==
  \/ \E p \in Process, v \in BOOLEAN : SetUseXChaCha20(p, v)
  \/ \E p \in Process, peer \in PublicKeys :
       \/ BoxBeforeNm(p, peer)
       \/ BoxEasy(p, peer)
       \/ BoxSeal(p, peer)
       \/ \E b \in boxes : BoxOpenEasy(p, peer, b)
  \/ \E p \in Process : BoxEasyAfterNm(p)
  \/ \E p \in Process, b \in boxes : BoxOpenEasyAfterNm(p, b) \/ BoxSealOpen(p, b)

KeyExchange ==
  \E p \in Process, peer \in PublicKeys, role \in {"client", "server"},
     want \in {"both", "one"} : KxSessionKeys(p, peer, role, want)

BoxNext == BoxMessages \/ KeyExchange

BoxSpec == BoxInit /\ [][BoxNext]_boxVars

-----------------------------------------------------------------------------
(***************************************************************************)
(* A box opens exactly for the two parties it was made between, a sealed   *)
(* box for its recipient only, and only when the selector stood the same   *)
(* at both derivations and at both passes of the stream, however often it  *)
(* was set in between: a key cached by beforenm keeps the family it was    *)
(* derived with, the stream follows the selector of the day.               *)
(***************************************************************************)
BoxOpens ==
  \A i \in DOMAIN opened :
    LET a == opened[i]
        b == opened[i].box
    IN  a.ok <=> /\ a.kind = b.kind
                 /\ IF a.kind = "seal" THEN a.p = b.to
                                       ELSE {a.p, a.peer} = {b.from, b.to}
                 /\ a.derived = b.derived
                 /\ a.stream = b.c.stream

(***************************************************************************)
(* Whatever exchanges the two processes ran before, a client and a server  *)
(* that name each other can talk: what one sends with, the other receives  *)
(* with, and two that each asked for a single key have the same one.  No   *)
(* two keys of one full session are equal.                                 *)
(***************************************************************************)
KxAgree ==
  \A p, q \in Process : \A i \in DOMAIN session[p], j \in DOMAIN session[q] :
    LET c == session[p][i]
        s == session[q][j]
    IN  /\ c.want = "both" => c.keys.rx # c.keys.tx
        /\ (c.role = "client" /\ s.role = "server" /\ c.peer = q /\ s.peer = p
            /\ c.want = s.want)
             => c.keys.tx = s.keys.rx /\ c.keys.rx = s.keys.tx

=============================================================================
