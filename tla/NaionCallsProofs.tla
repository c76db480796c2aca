-------------------------- MODULE NaionCallsProofs --------------------------
(***************************************************************************)
(* Proofs about the calls of naion.h that seal and open.                   *)
(*                                                                         *)
(* BoxCalls, for any number of processes, of small-order keys and of       *)
(* boxes: a box opens for its parties alone, and key exchanges agree.      *)
(*                                                                         *)
(* SecretStream, for every length of messages, blocks, MACs and counters   *)
(* and every place of the output: nothing is released before it was        *)
(* verified (VerifyInv), no byte of the keystream is used twice (UsedInv), *)
(* and the output is right, byte for byte (OutputInv).  Quotients, the     *)
(* byte loop and sequences get lemmas of their own; the byte loop is a     *)
(* recursive function, which LeastNumber serves to reason about.           *)
(***************************************************************************)
EXTENDS BoxCalls, SecretStream, FiniteSetTheorems, SequenceTheorems, WellFoundedInduction, TLAPS

(***************************************************************************)
(* Boxes and key exchanges.                                                *)
(***************************************************************************)
Family(v) == IF v THEN "hchacha20" ELSE "hsalsa20"

\* A key that process p cached was derived with its peer under the family the
\* selector named then.
CachedKeyOK(p) ==
  LET n == knm[p]
  IN  n # NoKey =>
        /\ n.peer \in Process /\ n.derived \in BOOLEAN
        /\ n.k = [by |-> Family(n.derived), q |-> {Own(p), Own(n.peer)}]

\* What a box says of itself is how it was sealed.
SealedAs(b) ==
  /\ b.kind \in {"box", "seal"} /\ b.from \in Process /\ b.to \in Process
  /\ b.derived \in BOOLEAN /\ b.c.stream \in BOOLEAN
  /\ b.kind = "box" =>
       /\ b.c.k = [by |-> Family(b.derived), q |-> {Own(b.from), Own(b.to)}]
       /\ b.c.nonce = Nonce
  /\ b.kind = "seal" =>
       /\ b.head[1] = b.from
       /\ b.c.k = [by |-> Family(b.derived), q |-> {b.head, Own(b.to)}]
       /\ b.c.nonce = SealNonce(b.head, Own(b.to))

\* The keys of a session are what its role, peer and wish give.
SessionOK(p) ==
  \A i \in DOMAIN session[p] :
    LET s == session[p][i]
        q == {Own(p), Own(s.peer)}
    IN  /\ s.role \in {"client", "server"} /\ s.want \in {"both", "one"}
        /\ s.keys = IF s.role = "client" THEN ClientSessionKeys(q, p, s.peer, s.want)
                                         ELSE ServerSessionKeys(q, p, s.peer, s.want)

BoxInv ==
  /\ gUseXChaCha20 \in [Process -> BOOLEAN]
  /\ DOMAIN knm = Process /\ \A p \in Process : CachedKeyOK(p)
  /\ \A b \in boxes : SealedAs(b)
  /\ BoxOpens
  /\ DOMAIN session = Process /\ \A p \in Process : SessionOK(p)

\* Own is injective.
LEMMA OwnKeys ==
  ASSUME NEW a, NEW b
  PROVE  /\ Own(a)[1] = a
         /\ Own(a) = Own(b) <=> a = b
  BY DEF Own

\* The two families differ.
LEMMA FamiliesDiffer ==
  ASSUME NEW v \in BOOLEAN, NEW w \in BOOLEAN
  PROVE  Family(v) = Family(w) <=> v = w
  BY DEF Family

\* The nonce of a box is not that of a sealed box, which names the recipient.
LEMMA Nonces ==
  ASSUME NEW h, NEW p, NEW q
  PROVE  /\ SealNonce(h, Own(p)) # Nonce
         /\ SealNonce(h, Own(p)) = SealNonce(h, Own(q)) <=> p = q
<1>1. SealNonce(h, Own(p))[1] = "blake2b" /\ Nonce[1] = "nonce"
  BY DEF SealNonce, Nonce
<1>2. SealNonce(h, Own(p))[3] = Own(p) /\ SealNonce(h, Own(q))[3] = Own(q)
  BY DEF SealNonce
<1>3. Own(p)[1] = p /\ Own(q)[1] = q
  BY DEF Own
<1> QED
  BY <1>1, <1>2, <1>3

\* A derivation succeeds but for a key of small order, in the selector's family.
LEMMA Derivation ==
  ASSUME NEW p, NEW sk, NEW pk, GetUseXChaCha20(p) \in BOOLEAN
  PROVE  /\ BeforeNm(p, sk, pk).ok <=> pk[1] \notin SmallOrder
         /\ BeforeNm(p, sk, pk).k = [by |-> Family(GetUseXChaCha20(p)), q |-> {sk, pk}]
  BY DEF BeforeNm, XChaCha20BeforeNm, XSalsa20BeforeNm, ScalarMult, Family

\* The selector and beforenm: no box and no attempt is touched.
LEMMA SelectorSteps ==
  ASSUME BoxInv, NEW p \in Process,
         \/ \E v \in BOOLEAN : SetUseXChaCha20(p, v)
         \/ \E peer \in PublicKeys : BoxBeforeNm(p, peer)
  PROVE  BoxInv'
<1>1. ASSUME NEW v \in BOOLEAN, SetUseXChaCha20(p, v) PROVE BoxInv'
  <2>1. /\ gUseXChaCha20' = [gUseXChaCha20 EXCEPT ![p] = v]
        /\ UNCHANGED <<knm, boxes, opened, session>>
    BY <1>1 DEF SetUseXChaCha20
  <2>2. gUseXChaCha20' \in [Process -> BOOLEAN]
    BY <2>1 DEF BoxInv
  <2>3. BoxOpens'
    BY <2>1 DEF BoxInv, BoxOpens
  <2>4. \A q \in Process : CachedKeyOK(q)'
    BY <2>1 DEF BoxInv, CachedKeyOK
  <2>5. \A q \in Process : SessionOK(q)'
    BY <2>1 DEF BoxInv, SessionOK
  <2> QED
    BY <2>1, <2>2, <2>3, <2>4, <2>5 DEF BoxInv
<1>2. ASSUME NEW peer \in PublicKeys, BoxBeforeNm(p, peer) PROVE BoxInv'
  <2> DEFINE r == BeforeNm(p, Own(p), Own(peer))
             v == GetUseXChaCha20(p)
             n == [k |-> r.k, peer |-> peer, derived |-> v]
  <2>1. /\ knm' = IF r.ok THEN [knm EXCEPT ![p] = n] ELSE knm
        /\ UNCHANGED <<gUseXChaCha20, boxes, opened, session>>
    BY <1>2 DEF BoxBeforeNm
  <2>2. v \in BOOLEAN
    BY DEF BoxInv, GetUseXChaCha20
  <2>3. /\ r.ok <=> Own(peer)[1] \notin SmallOrder
        /\ r.k = [by |-> Family(v), q |-> {Own(p), Own(peer)}]
    BY <2>2, Derivation
  <2>4. r.ok => peer \in Process
    BY <2>3, OwnKeys DEF PublicKeys
  <2> HIDE DEF r, v
  <2>5. ASSUME NEW u \in Process PROVE CachedKeyOK(u)'
    <3>1. CASE knm'[u] = knm[u]
      BY <3>1 DEF BoxInv, CachedKeyOK
    <3>2. CASE knm'[u] # knm[u]
      <4>1. r.ok /\ u = p /\ knm'[u] = n
        BY <2>1, <3>2 DEF BoxInv
      <4> QED
        BY <2>2, <2>3, <2>4, <4>1 DEF CachedKeyOK
    <3> QED
      BY <3>1, <3>2
  <2>6. DOMAIN knm' = Process
    BY <2>1 DEF BoxInv
  <2> QED
    BY <2>1, <2>5, <2>6 DEF BoxInv, BoxOpens, SessionOK
<1> QED
  BY <1>1, <1>2

\* A box that says how it was sealed joins the others.
LEMMA PostedStep ==
  ASSUME BoxInv, NEW kind, NEW c, NEW head, NEW from, NEW to, NEW derived,
         Posted(kind, c, head, from, to, derived),
         SealedAs([kind |-> kind, c |-> c, head |-> head,
                   from |-> from, to |-> to, derived |-> derived])
  PROVE  BoxInv'
<1> DEFINE b == [kind |-> kind, c |-> c, head |-> head,
                 from |-> from, to |-> to, derived |-> derived]
<1>1. boxes' = boxes \cup {b} /\ UNCHANGED <<gUseXChaCha20, knm, opened, session>>
  BY DEF Posted
<1> HIDE DEF b
<1>2. SealedAs(b)
  BY DEF b
<1>3. \A x \in boxes' : SealedAs(x)
  BY <1>1, <1>2 DEF BoxInv
<1> QED
  BY <1>1, <1>3 DEF BoxInv, CachedKeyOK, BoxOpens, SessionOK

\* Sealing, with a key derived on the spot, a cached one, or an ephemeral one.
LEMMA SealSteps ==
  ASSUME BoxInv, NEW p \in Process,
         \/ BoxEasyAfterNm(p)
         \/ \E peer \in PublicKeys : BoxEasy(p, peer) \/ BoxSeal(p, peer)
  PROVE  BoxInv'
<1> DEFINE v == GetUseXChaCha20(p)
<1>0. v \in BOOLEAN
  BY DEF BoxInv, GetUseXChaCha20
<1>1. CASE BoxEasyAfterNm(p)
  <2> DEFINE c == SecretBox(p, knm[p].k, Nonce, NextBox)
  <2>1. /\ knm[p] # NoKey
        /\ Posted("box", c, <<>>, p, knm[p].peer, knm[p].derived)
    BY <1>1 DEF BoxEasyAfterNm
  <2>2. /\ knm[p].peer \in Process /\ knm[p].derived \in BOOLEAN
        /\ knm[p].k = [by |-> Family(knm[p].derived), q |-> {Own(p), Own(knm[p].peer)}]
    BY <2>1 DEF BoxInv, CachedKeyOK
  <2>3. c.stream \in BOOLEAN /\ c.k = knm[p].k /\ c.nonce = Nonce
    BY <1>0 DEF SecretBox
  <2> HIDE DEF c
  <2>4. SealedAs([kind |-> "box", c |-> c, head |-> <<>>, from |-> p, to |-> knm[p].peer,
                  derived |-> knm[p].derived])
    BY <2>2, <2>3 DEF SealedAs
  <2> QED
    BY <2>1, <2>4, PostedStep
<1>2. ASSUME NEW peer \in PublicKeys, BoxEasy(p, peer) PROVE BoxInv'
  <2> DEFINE r == BeforeNm(p, Own(p), Own(peer))
             c == SecretBox(p, r.k, Nonce, NextBox)
  <2>1. r.ok /\ Posted("box", c, <<>>, p, peer, v)
    BY <1>2 DEF BoxEasy
  <2>2. /\ Own(peer)[1] \notin SmallOrder
        /\ r.k = [by |-> Family(v), q |-> {Own(p), Own(peer)}]
    BY <1>0, <2>1, Derivation
  <2>3. peer \in Process
    BY <2>2, OwnKeys DEF PublicKeys
  <2>4. c.stream \in BOOLEAN /\ c.k = r.k /\ c.nonce = Nonce
    BY <1>0 DEF SecretBox
  <2> HIDE DEF c, r, v
  <2>5. SealedAs([kind |-> "box", c |-> c, head |-> <<>>, from |-> p, to |-> peer,
                  derived |-> v])
    BY <1>0, <2>2, <2>3, <2>4 DEF SealedAs
  <2> QED
    BY <2>1, <2>5, PostedStep
<1>3. ASSUME NEW peer \in PublicKeys, BoxSeal(p, peer) PROVE BoxInv'
  <2> DEFINE esk == Ephemeral(p, NextBox)
             r == BeforeNm(p, esk, Own(peer))
             c == SecretBox(p, r.k, SealNonce(esk, Own(peer)), NextBox)
  <2>1. r.ok /\ Posted("seal", c, esk, p, peer, v)
    BY <1>3 DEF BoxSeal
  <2>2. /\ Own(peer)[1] \notin SmallOrder
        /\ r.k = [by |-> Family(v), q |-> {esk, Own(peer)}]
    BY <1>0, <2>1, Derivation
  <2>3. peer \in Process /\ esk[1] = p
    BY <2>2, OwnKeys DEF PublicKeys, Ephemeral
  <2>4. c.stream \in BOOLEAN /\ c.k = r.k /\ c.nonce = SealNonce(esk, Own(peer))
    BY <1>0 DEF SecretBox
  <2> HIDE DEF c, r, v, esk
  <2>5. SealedAs([kind |-> "seal", c |-> c, head |-> esk, from |-> p, to |-> peer,
                  derived |-> v])
    BY <1>0, <2>2, <2>3, <2>4 DEF SealedAs
  <2> QED
    BY <2>1, <2>5, PostedStep
<1> QED
  BY <1>1, <1>2, <1>3

\* An attempt whose answer is what BoxOpens says of it.
LEMMA AttemptStep ==
  ASSUME BoxInv, NEW kind, NEW p \in Process, NEW peer, NEW b \in boxes,
         NEW derived, NEW ok, Attempt(kind, p, peer, b, derived, ok),
         ok <=> /\ kind = b.kind
                /\ IF kind = "seal" THEN p = b.to ELSE {p, peer} = {b.from, b.to}
                /\ derived = b.derived
                /\ GetUseXChaCha20(p) = b.c.stream
  PROVE  BoxInv'
<1> DEFINE a == [kind |-> kind, p |-> p, peer |-> peer, box |-> b, derived |-> derived,
                 stream |-> GetUseXChaCha20(p), ok |-> ok]
<1>1. opened' = <<a>> /\ UNCHANGED <<gUseXChaCha20, knm, boxes, session>>
  BY DEF Attempt
<1>2. /\ a.kind = kind /\ a.p = p /\ a.peer = peer /\ a.box = b /\ a.derived = derived
      /\ a.stream = GetUseXChaCha20(p) /\ a.ok = ok
  OBVIOUS
<1> HIDE DEF a
<1>3. DOMAIN opened' = {1} /\ opened'[1] = a
  BY <1>1
<1>4. BoxOpens'
  BY <1>2, <1>3, Zenon DEF BoxOpens
<1> QED
  BY <1>1, <1>4 DEF BoxInv, CachedKeyOK, SessionOK

\* Opening: the key, the nonce and the stream agree exactly when the parties, the
\* kind, the family and the selector do.
LEMMA OpenSteps ==
  ASSUME BoxInv, NEW p \in Process, NEW b \in boxes,
         \/ \E peer \in PublicKeys : BoxOpenEasy(p, peer, b)
         \/ BoxOpenEasyAfterNm(p, b)
         \/ BoxSealOpen(p, b)
  PROVE  BoxInv'
<1> DEFINE v == GetUseXChaCha20(p)
<1>0. v \in BOOLEAN /\ SealedAs(b)
  BY DEF BoxInv, GetUseXChaCha20
<1>1. /\ b.kind \in {"box", "seal"} /\ b.from \in Process /\ b.to \in Process
      /\ b.derived \in BOOLEAN
  BY <1>0 DEF SealedAs
\* A key derived with x under selection d opens box b just when they fit.
<1>2. ASSUME NEW x, NEW d \in BOOLEAN, NEW k,
             k = [by |-> Family(d), q |-> {Own(p), Own(x)}]
      PROVE  Opens(p, k, Nonce, b.c) <=>
               /\ "box" = b.kind /\ {p, x} = {b.from, b.to}
               /\ d = b.derived /\ v = b.c.stream
  <2>1. CASE b.kind = "box"
    <3>1. /\ b.c.k = [by |-> Family(b.derived), q |-> {Own(b.from), Own(b.to)}]
          /\ b.c.nonce = Nonce
      BY <1>0, <2>1 DEF SealedAs
    <3>2. b.c.k = k <=> Family(b.derived) = Family(d)
                        /\ {Own(b.from), Own(b.to)} = {Own(p), Own(x)}
      BY <1>2, <3>1
    <3>3. Family(b.derived) = Family(d) <=> b.derived = d
      BY <1>1, FamiliesDiffer
    <3>4. {Own(b.from), Own(b.to)} = {Own(p), Own(x)} <=> {b.from, b.to} = {p, x}
      <4>1. {Own(b.from), Own(b.to)} = {Own(p), Own(x)} <=>
              \/ Own(b.from) = Own(p) /\ Own(b.to) = Own(x)
              \/ Own(b.from) = Own(x) /\ Own(b.to) = Own(p)
        OBVIOUS
      <4>2. {b.from, b.to} = {p, x} <=>
              \/ b.from = p /\ b.to = x
              \/ b.from = x /\ b.to = p
        OBVIOUS
      <4> QED
        BY <4>1, <4>2, OwnKeys
    <3> QED
      BY <2>1, <3>1, <3>2, <3>3, <3>4 DEF Opens
  <2>2. CASE b.kind = "seal"
    <3>1. b.c.nonce # Nonce
      BY <1>0, <2>2, Nonces DEF SealedAs
    <3> QED
      BY <2>2, <3>1 DEF Opens
  <2> QED
    BY <1>1, <2>1, <2>2
<1>3. ASSUME NEW peer \in PublicKeys, BoxOpenEasy(p, peer, b) PROVE BoxInv'
  <2> DEFINE r == BeforeNm(p, Own(p), Own(peer))
  <2>1. Attempt("box", p, peer, b, v, r.ok /\ Opens(p, r.k, Nonce, b.c))
    BY <1>3 DEF BoxOpenEasy
  <2>2. /\ r.ok <=> peer \notin SmallOrder
        /\ r.k = [by |-> Family(v), q |-> {Own(p), Own(peer)}]
    BY <1>0, Derivation, OwnKeys
  <2> HIDE DEF r
  <2>3. Opens(p, r.k, Nonce, b.c) <=>
          /\ "box" = b.kind /\ {p, peer} = {b.from, b.to}
          /\ v = b.derived /\ v = b.c.stream
    BY <1>0, <1>2, <2>2
  <2>4. {p, peer} = {b.from, b.to} => peer \notin SmallOrder
    BY <1>1, BoxAssumption
  <2>5. (r.ok /\ Opens(p, r.k, Nonce, b.c)) <=>
          /\ "box" = b.kind
          /\ IF "box" = "seal" THEN p = b.to ELSE {p, peer} = {b.from, b.to}
          /\ v = b.derived /\ GetUseXChaCha20(p) = b.c.stream
    BY <2>2, <2>3, <2>4
  <2> QED
    BY <2>1, <2>5, AttemptStep
<1>4. CASE BoxOpenEasyAfterNm(p, b)
  <2> DEFINE n == knm[p]
  <2>1. /\ n # NoKey
        /\ Attempt("box", p, n.peer, b, n.derived, Opens(p, n.k, Nonce, b.c))
    BY <1>4 DEF BoxOpenEasyAfterNm
  <2>2. /\ n.derived \in BOOLEAN
        /\ n.k = [by |-> Family(n.derived), q |-> {Own(p), Own(n.peer)}]
    BY <2>1 DEF BoxInv, CachedKeyOK
  <2> HIDE DEF n
  <2>3. Opens(p, n.k, Nonce, b.c) <=>
          /\ "box" = b.kind
          /\ IF "box" = "seal" THEN p = b.to ELSE {p, n.peer} = {b.from, b.to}
          /\ n.derived = b.derived /\ GetUseXChaCha20(p) = b.c.stream
    BY <1>2, <2>2
  <2> QED
    BY <2>1, <2>3, AttemptStep
<1>5. CASE BoxSealOpen(p, b)
  <2> DEFINE r == BeforeNm(p, Own(p), b.head)
             ok == r.ok /\ Opens(p, r.k, SealNonce(b.head, Own(p)), b.c)
  <2>1. b.kind = "seal" /\ Attempt("seal", p, b.from, b, v, ok)
    BY <1>5 DEF BoxSealOpen
  <2>2. /\ r.ok <=> b.head[1] \notin SmallOrder
        /\ r.k = [by |-> Family(v), q |-> {Own(p), b.head}]
    BY <1>0, Derivation
  <2>3. /\ b.head[1] = b.from
        /\ b.c.k = [by |-> Family(b.derived), q |-> {b.head, Own(b.to)}]
        /\ b.c.nonce = SealNonce(b.head, Own(b.to))
    BY <1>0, <2>1 DEF SealedAs
  <2>4. r.ok
    BY <1>1, <2>2, <2>3, BoxAssumption
  <2> HIDE DEF r
  <2>5. b.c.nonce = SealNonce(b.head, Own(p)) <=> p = b.to
    BY <2>3, Nonces
  <2>6. p = b.to => (b.c.k = r.k <=> v = b.derived)
    <3>1. ASSUME p = b.to PROVE b.c.k = r.k <=> v = b.derived
      <4>1. r.k = [by |-> Family(v), q |-> {b.head, Own(b.to)}]
        BY <2>2, <3>1
      <4>2. b.c.k = r.k <=> Family(b.derived) = Family(v)
        BY <2>3, <4>1
      <4> QED
        BY <1>0, <1>1, <4>2, FamiliesDiffer
    <3> QED
      BY <3>1
  <2>7. ok <=> /\ "seal" = b.kind
               /\ IF "seal" = "seal" THEN p = b.to ELSE {p, b.from} = {b.from, b.to}
               /\ v = b.derived /\ GetUseXChaCha20(p) = b.c.stream
    BY <2>1, <2>4, <2>5, <2>6 DEF Opens
  <2> HIDE DEF ok
  <2> QED
    BY <2>1, <2>7, AttemptStep
<1> QED
  BY <1>3, <1>4, <1>5

\* A key exchange replaces the caller's session.
LEMMA ExchangeStep ==
  ASSUME BoxInv, KeyExchange
  PROVE  BoxInv'
<1>1. PICK p \in Process, peer \in PublicKeys, role \in {"client", "server"},
           want \in {"both", "one"} : KxSessionKeys(p, peer, role, want)
  BY DEF KeyExchange
<1> DEFINE q == {Own(p), Own(peer)}
           keys == IF role = "client" THEN ClientSessionKeys(q, p, peer, want)
                                      ELSE ServerSessionKeys(q, p, peer, want)
           s == [role |-> role, peer |-> peer, want |-> want, keys |-> keys]
<1>2. /\ session' = [session EXCEPT ![p] = <<s>>]
      /\ UNCHANGED <<gUseXChaCha20, knm, boxes, opened>>
  BY <1>1 DEF KxSessionKeys, ScalarMult
<1> HIDE DEF keys
<1>3. s.role = role /\ s.peer = peer /\ s.want = want /\ s.keys = keys
  OBVIOUS
<1> HIDE DEF s
<1>4. DOMAIN session' = Process
  BY <1>2 DEF BoxInv
<1>5. ASSUME NEW u \in Process PROVE SessionOK(u)'
  <2>1. CASE u = p
    <3>1. session'[u] = <<s>>
      BY <1>2, <2>1 DEF BoxInv
    <3>2. DOMAIN session'[u] = {1} /\ session'[u][1] = s
      BY <3>1
    <3> QED
      BY <1>3, <2>1, <3>2 DEF SessionOK, keys
  <2>2. CASE u # p
    <3>1. session'[u] = session[u]
      BY <1>2, <2>2 DEF BoxInv
    <3> QED
      BY <3>1 DEF BoxInv, SessionOK
  <2> QED
    BY <2>1, <2>2
<1> QED
  BY <1>2, <1>4, <1>5 DEF BoxInv, CachedKeyOK, BoxOpens

\* The inductive invariant.
THEOREM BoxInvariant == BoxSpec => []BoxInv
<1>1. BoxInit => BoxInv
  BY DEF BoxInit, BoxInv, CachedKeyOK, BoxOpens, SessionOK
<1>2. BoxInv /\ [BoxNext]_boxVars => BoxInv'
  <2> SUFFICES ASSUME BoxInv, [BoxNext]_boxVars PROVE BoxInv'
    OBVIOUS
  <2>1. CASE UNCHANGED boxVars
    BY <2>1 DEF boxVars, BoxInv, CachedKeyOK, BoxOpens, SessionOK
  <2>2. CASE BoxMessages
    BY <2>2, SelectorSteps, SealSteps, OpenSteps DEF BoxMessages
  <2>3. CASE KeyExchange
    BY <2>3, ExchangeStep
  <2> QED
    BY <2>1, <2>2, <2>3 DEF BoxNext
<1> QED
  BY <1>1, <1>2, PTL DEF BoxSpec

\* A box opens exactly for its two parties, a sealed box for its recipient, and
\* only when the selector stood the same at both derivations and both streams.
THEOREM BoxesOpenForTheirParties == BoxSpec => []BoxOpens
<1>1. BoxInv => BoxOpens
  BY DEF BoxInv
<1> QED
  BY <1>1, BoxInvariant, PTL

\* A client and a server that name each other can talk.
THEOREM KeyExchangesAgree == BoxSpec => []KxAgree
<1>1. BoxInv => KxAgree
  <2> SUFFICES ASSUME BoxInv, NEW p \in Process, NEW q \in Process,
                      NEW i \in DOMAIN session[p], NEW j \in DOMAIN session[q]
               PROVE  LET c == session[p][i]
                          s == session[q][j]
                      IN  /\ c.want = "both" => c.keys.rx # c.keys.tx
                          /\ (c.role = "client" /\ s.role = "server" /\ c.peer = q
                              /\ s.peer = p /\ c.want = s.want)
                               => c.keys.tx = s.keys.rx /\ c.keys.rx = s.keys.tx
    BY DEF KxAgree
  <2> DEFINE c == session[p][i]
             s == session[q][j]
             qc == {Own(p), Own(c.peer)}
             qs == {Own(q), Own(s.peer)}
  <2>1. /\ c.role \in {"client", "server"} /\ c.want \in {"both", "one"}
        /\ c.keys = IF c.role = "client" THEN ClientSessionKeys(qc, p, c.peer, c.want)
                                         ELSE ServerSessionKeys(qc, p, c.peer, c.want)
    BY DEF BoxInv, SessionOK
  <2>2. /\ s.role \in {"client", "server"} /\ s.want \in {"both", "one"}
        /\ s.keys = IF s.role = "client" THEN ClientSessionKeys(qs, q, s.peer, s.want)
                                         ELSE ServerSessionKeys(qs, q, s.peer, s.want)
    BY DEF BoxInv, SessionOK
  <2> HIDE DEF c, s, qc, qs
  <2>3. \A x, a, b : SessionHash(x, a, b)[1] # SessionHash(x, a, b)[2]
    <3>1. ASSUME NEW x, NEW a, NEW b PROVE SessionHash(x, a, b)[1] # SessionHash(x, a, b)[2]
      <4>1. /\ SessionHash(x, a, b)[1] = <<"blake2b", x, a, b, 1>>
            /\ SessionHash(x, a, b)[2] = <<"blake2b", x, a, b, 2>>
        BY DEF SessionHash
      <4>2. /\ <<"blake2b", x, a, b, 1>>[5] = 1 /\ <<"blake2b", x, a, b, 2>>[5] = 2
        OBVIOUS
      <4> QED
        BY <4>1, <4>2
    <3> QED
      BY <3>1
  <2>4. c.want = "both" => c.keys.rx # c.keys.tx
    BY <2>1, <2>3 DEF ClientSessionKeys, ServerSessionKeys
  <2>5. ASSUME c.role = "client", s.role = "server", c.peer = q, s.peer = p, c.want = s.want
        PROVE  c.keys.tx = s.keys.rx /\ c.keys.rx = s.keys.tx
    <3>1. qc = qs
      BY <2>5 DEF qc, qs
    <3>2. /\ c.keys = ClientSessionKeys(qc, p, q, c.want)
          /\ s.keys = ServerSessionKeys(qc, q, p, c.want)
      BY <2>1, <2>2, <2>5, <3>1
    <3> QED
      BY <2>1, <3>2 DEF ClientSessionKeys, ServerSessionKeys
  <2> QED
    BY <2>4, <2>5 DEF c, s
<1> QED
  BY <1>1, BoxInvariant, PTL

(***************************************************************************)
(* The symmetric calls over memory.                                        *)
(***************************************************************************)
\* The phases a call goes through.
PhasesOf(op) ==
  CASE op = "seal" -> {"first", "stream", "mac", "done"}
    [] op = "seal_detached" -> {"first", "stream", "mac", "scatter", "done"}
    [] op = "open" -> {"verify", "rejected", "first", "stream", "done"}
    [] op = "open_detached" -> {"gather", "verify", "rejected", "first", "stream", "done"}
    [] op = "aead_seal" -> {"stream", "mac", "done"}
    [] op = "aead_open" -> {"verify", "rejected", "stream", "done"}
    [] op = "xor" -> {"stream", "done"}
    [] op = "sign" -> {"sig1", "sig2", "move", "done"}
    [] op = "sign_open" -> {"verify", "rejected", "release", "done"}

\* A call has the arguments it was made with, and is in one of its phases; what is
\* left of the message is no longer than the message.
StreamShape ==
  /\ DOMAIN call = {"op", "fam", "n", "shift", "bad", "input"}
  /\ call.op \in Ops /\ call.fam \in Families(call.op)
  /\ call.n \in MsgLens /\ call.shift \in Shifts
  /\ DOMAIN todo = {"phase", "src", "dst", "left", "ctr", "first"}
  /\ todo.phase \in PhasesOf(call.op)
  /\ todo.left \in 0 .. call.n
  /\ todo.phase \in {"gather", "verify", "rejected", "first"} => todo.left = call.n
  /\ todo.phase \in {"mac", "scatter"} => todo.left = 0
  /\ todo.phase = "done" => call.op \in {"sign", "sign_open"} \/ todo.left = 0
  /\ todo.phase = "first" /\ Opening(call.op) => Len(todo.first) = Smaller(call.n, Half)

\* The length of a sequence that is given element by element.
LEMMA LengthOfElements ==
  ASSUME NEW n \in Nat, NEW f, f = [i \in 1 .. n |-> f[i]]
  PROVE  Len(f) = n /\ f \in Seq({f[i] : i \in 1 .. n})
<1>1. f \in Seq({f[i] : i \in 1 .. n})
  OBVIOUS
<1> QED BY <1>1

\* Smaller is the smaller of two.
LEMMA SmallerOf ==
  ASSUME NEW a \in Nat, NEW b \in Nat
  PROVE  Smaller(a, b) \in 0 .. a /\ Smaller(a, b) <= b
  BY DEF Smaller

\* A call starts in a phase of its own, with all of the message left.
LEMMA ShapeAtStart ==
  ASSUME StreamInit
  PROVE  StreamShape
<1>0. PICK op \in Ops, n \in MsgLens, shift \in Shifts :
        \E fam \in Families(op), at \in Int :
          /\ call = [op |-> op, fam |-> fam, n |-> n, shift |-> shift, bad |-> at # 0,
                     input |-> Changed(InputOf(op, fam, n), at)]
          /\ todo = Start(op, fam, n, shift)
  BY DEF StreamInit
<1>1. PICK fam \in Families(op), at \in Int :
        /\ call = [op |-> op, fam |-> fam, n |-> n, shift |-> shift, bad |-> at # 0,
                   input |-> Changed(InputOf(op, fam, n), at)]
        /\ todo = Start(op, fam, n, shift)
  BY <1>0
<1>2. n \in Nat /\ shift \in Int
  BY StreamAssumption
<1>3. /\ DOMAIN call = {"op", "fam", "n", "shift", "bad", "input"}
      /\ call.op = op /\ call.fam = fam /\ call.n = n /\ call.shift = shift
  BY <1>1
<1>4. /\ DOMAIN todo = {"phase", "src", "dst", "left", "ctr", "first"}
      /\ todo.left = n
      /\ todo.phase \in PhasesOf(op) \ {"mac", "scatter", "done"}
      /\ todo.phase = "first" => ~Opening(op)
  <2>1. CASE op = "xor" BY <1>1, <2>1 DEF Start, PhasesOf
  <2>2. CASE op = "seal" BY <1>1, <2>2 DEF Start, PhasesOf, Opening
  <2>3. CASE op = "seal_detached" BY <1>1, <2>3 DEF Start, PhasesOf, Opening
  <2>4. CASE op = "open" BY <1>1, <2>4 DEF Start, PhasesOf, Opening
  <2>5. CASE op = "open_detached" BY <1>1, <2>5 DEF Start, PhasesOf, Opening
  <2>6. CASE op = "aead_seal" BY <1>1, <2>6 DEF Start, PhasesOf, Opening
  <2>7. CASE op = "aead_open" BY <1>1, <2>7 DEF Start, PhasesOf, Opening
  <2>8. CASE op = "sign" BY <1>1, <2>8 DEF Start, PhasesOf, Opening
  <2>9. CASE op = "sign_open" BY <1>1, <2>9 DEF Start, PhasesOf, Opening
  <2> QED BY <1>1, <2>1, <2>2, <2>3, <2>4, <2>5, <2>6, <2>7, <2>8, <2>9 DEF Ops
<1> QED BY <1>1, <1>2, <1>3, <1>4 DEF StreamShape

\* A step is one of the steps below.
StepCases ==
  \/ call.fam \in {"xchacha20", "xsalsa20"} /\ LoopBlock(Carry(todo.ctr))
  \/ call.fam = "ietf" /\ LoopBlock(Wrap(todo.ctr))
  \/ StreamEnd
  \/ call.fam \in {"xchacha20", "xsalsa20"} /\ EasyFirst
  \/ EasyMac \/ OpenVerify
  \/ call.fam \in {"xchacha20", "xsalsa20"} /\ OpenFirst
  \/ SealScatter \/ OpenGather \/ AeadMac \/ AeadVerify
  \/ SignR \/ SignS \/ SignMove \/ SignVerify \/ SignRelease

\* The two families, each with its copy of the code, take the same steps.
LEMMA StepIsACase ==
  ASSUME StreamNext
  PROVE  StepCases
  BY DEF StreamNext, StepCases, XChaCha20Block, XSalsa20Block, IetfBlock, XChaCha20Easy,
         XSalsa20Easy, XChaCha20OpenEasy, XSalsa20OpenEasy, XChaCha20Detached,
         XSalsa20Detached, XChaCha20OpenDetached, XSalsa20OpenDetached

\* What a step does to the phase and to what is left.
Moves ==
  \/ /\ todo.phase = "stream" /\ todo'.phase = "stream" /\ todo.left > 0
     /\ todo'.left = todo.left - Smaller(todo.left, Block64)
  \/ /\ todo.phase = "stream" /\ todo.left = 0 /\ todo'.left = 0
     /\ \/ call.op \in {"seal", "seal_detached", "aead_seal"} /\ todo'.phase = "mac"
        \/ call.op \notin {"seal", "seal_detached", "aead_seal"} /\ todo'.phase = "done"
  \/ /\ todo.phase = "first" /\ todo'.phase = "stream"
     /\ todo'.left = todo.left - Smaller(todo.left, Half)
  \/ /\ todo.phase = "mac" /\ todo'.left = todo.left
     /\ todo'.phase = IF call.op = "seal_detached" THEN "scatter" ELSE "done"
  \/ /\ todo.phase = "verify" /\ todo'.left = todo.left /\ call.op \in {"open", "open_detached"}
     /\ \/ todo'.phase = "rejected"
        \/ todo'.phase = "first" /\ Len(todo'.first) = Smaller(call.n, Half)
  \/ /\ todo.phase = "scatter" /\ todo'.left = todo.left /\ todo'.phase = "done"
  \/ /\ todo.phase = "gather" /\ todo'.left = todo.left /\ todo'.phase = "verify"
  \/ /\ todo.phase = "verify" /\ todo'.left = todo.left /\ call.op = "aead_open"
     /\ todo'.phase \in {"stream", "rejected"}
  \/ /\ todo.phase = "sig1" /\ todo'.left = todo.left /\ todo'.phase = "sig2"
  \/ /\ todo.phase = "sig2" /\ todo'.left = todo.left /\ todo'.phase = "move"
  \/ /\ todo.phase = "move" /\ todo'.left = todo.left /\ todo'.phase = "done"
  \/ /\ todo.phase = "verify" /\ todo'.left = todo.left /\ call.op = "sign_open"
     /\ todo'.phase \in {"release", "rejected"}
  \/ /\ todo.phase = "release" /\ todo'.left = todo.left /\ todo'.phase = "done"

\* Every step is such a move, and keeps the call.
LEMMA StepsMove ==
  ASSUME StreamShape, StreamNext
  PROVE  /\ call' = call /\ Moves
         /\ DOMAIN todo' = {"phase", "src", "dst", "left", "ctr", "first"}
<1> USE DEF StreamShape
<1>0. /\ DOMAIN todo = {"phase", "src", "dst", "left", "ctr", "first"} /\ call.n \in Nat
      /\ Half \in Nat
  BY StreamAssumption
<1>1. ASSUME NEW next, LoopBlock(next)
      PROVE  call' = call /\ Moves /\ DOMAIN todo' = DOMAIN todo
  BY <1>0, <1>1 DEF LoopBlock, Moves, Keep
<1>2. CASE StreamEnd
  BY <1>0, <1>2 DEF StreamEnd, Phase, Moves, Keep
<1>3. CASE EasyFirst
  BY <1>0, <1>3 DEF EasyFirst, Moves, Keep
<1>4. CASE EasyMac
  BY <1>0, <1>4 DEF EasyMac, Phase, Moves, Keep
<1>5. CASE OpenVerify
  <2> DEFINE cipher == Cells(mem, todo.src + MacLen, call.n)
             take   == Smaller(call.n, Half)
             e(i) == Xored(cipher[i], KeyByte(call.fam, <<0, 0>>, Half + i - 1))
             first == [i \in 1 .. take |-> e(i)]
  <2>1. take \in Nat
    BY <1>0 DEF Smaller
  <2>2. Len(first) = take
    <3> HIDE DEF take, e
    <3>1. first = [i \in 1 .. take |-> first[i]]
      OBVIOUS
    <3> HIDE DEF first
    <3> QED BY <2>1, <3>1, LengthOfElements
  <2>3. /\ todo.phase = "verify" /\ call.op \in {"open", "open_detached"} /\ call' = call
        /\ todo' = [todo EXCEPT !.phase = "first", !.first = first]
             \/ todo' = [todo EXCEPT !.phase = "rejected"]
    BY <1>5 DEF OpenVerify, Keep
  <2> HIDE DEF first
  <2>4. CASE todo' = [todo EXCEPT !.phase = "first", !.first = first]
    <3>1. /\ todo'.phase = "first" /\ todo'.first = first /\ todo'.left = todo.left
          /\ DOMAIN todo' = DOMAIN todo
      BY <1>0, <2>4
    <3> QED BY <1>0, <2>2, <2>3, <3>1 DEF Moves
  <2>5. CASE todo' = [todo EXCEPT !.phase = "rejected"]
    BY <1>0, <2>3, <2>5 DEF Moves
  <2> QED BY <2>3, <2>4, <2>5
<1>6. CASE OpenFirst
  BY <1>0, <1>6 DEF OpenFirst, Moves, Keep
<1>7. CASE SealScatter
  BY <1>0, <1>7 DEF SealScatter, Phase, Moves, Keep
<1>8. CASE OpenGather
  BY <1>0, <1>8 DEF OpenGather, Phase, Moves, Keep
<1>9. CASE AeadMac
  BY <1>0, <1>9 DEF AeadMac, Phase, Moves, Keep
<1>10. CASE AeadVerify
  BY <1>0, <1>10 DEF AeadVerify, Phase, Moves, Keep
<1>11. CASE SignR \/ SignS \/ SignMove \/ SignVerify \/ SignRelease
  BY <1>0, <1>11 DEF SignR, SignS, SignMove, SignVerify, SignRelease, Phase, Moves, Keep
<1> QED BY <1>1, <1>2, <1>3, <1>4, <1>5, <1>6, <1>7, <1>8, <1>9, <1>10, <1>11, StepIsACase
        DEF StepCases

\* No step leaves the phases of its call.
LEMMA ShapeStep ==
  ASSUME StreamShape, StreamNext
  PROVE  StreamShape'
<1>1. /\ call' = call /\ Moves
      /\ DOMAIN todo' = {"phase", "src", "dst", "left", "ctr", "first"}
  BY StepsMove
<1>2. /\ call.n \in Nat /\ Half \in Nat /\ Block64 \in Nat /\ call.op \in Ops
      /\ todo.left \in 0 .. call.n /\ todo.left \in Nat
      /\ todo.phase \in PhasesOf(call.op)
  <2>1. call.n \in Nat /\ Half \in Nat
    BY StreamAssumption DEF StreamShape
  <2>2. 2 * Half \in Nat
    BY <2>1
  <2> QED BY <2>1, <2>2 DEF StreamShape, Block64
<1>3. /\ Smaller(todo.left, Block64) \in 0 .. todo.left
      /\ Smaller(todo.left, Half) \in 0 .. todo.left
  BY <1>2, SmallerOf
<1>4. /\ todo'.left \in 0 .. call.n
      /\ todo'.phase \in {"gather", "verify", "rejected", "first"} => todo'.left = call.n
      /\ todo'.phase \in {"mac", "scatter"} => todo'.left = 0
      /\ todo'.phase = "first" /\ Opening(call.op) => Len(todo'.first) = Smaller(call.n, Half)
  BY <1>1, <1>2, <1>3 DEF Moves, StreamShape
<1>5. todo'.phase \in PhasesOf(call.op)
  BY <1>1, <1>2 DEF Moves, PhasesOf, Ops
<1>6. todo'.phase = "done" => call.op \in {"sign", "sign_open"} \/ todo'.left = 0
  BY <1>1, <1>2 DEF Moves, PhasesOf, Ops, StreamShape
<1> QED BY <1>1, <1>4, <1>5, <1>6 DEF StreamShape

(***************************************************************************)
(* Which bytes of the keystream a call uses.                               *)
(***************************************************************************)
\* A quotient and a remainder make the number, and are the only ones that do.
LEMMA Quotient ==
  ASSUME NEW a \in Int, NEW n \in Nat \ {0}
  PROVE  a = n * (a \div n) + (a % n) /\ a % n \in 0 .. n - 1 /\ a \div n \in Int
  OBVIOUS

\* No other quotient and remainder make the number.
LEMMA QuotientUnique ==
  ASSUME NEW a \in Int, NEW n \in Nat \ {0}, NEW q \in Int, NEW r \in 0 .. n - 1,
         a = n * q + r
  PROVE  a \div n = q /\ a % n = r
<1> DEFINE p == a \div n
           s == a % n
<1>1. p \in Int /\ s \in 0 .. n - 1 /\ n * p + s = n * q + r
  BY Quotient
<1> HIDE DEF p, s
<1>2. n * (p - q) = r - s
  BY <1>1
<1>3. CASE p - q >= 1
  <2>1. n * (p - q) >= n
    BY <1>1, <1>3
  <2> QED BY <1>1, <1>2, <2>1
<1>4. CASE p - q <= -1
  <2>1. n * (p - q) <= -n
    BY <1>1, <1>4
  <2> QED BY <1>1, <1>2, <2>1
<1>5. p = q /\ s = r
  BY <1>1, <1>2, <1>3, <1>4
<1> QED BY <1>5 DEF p, s

\* A product is below another with the same factor when the other factor is below.
LEMMA FactorBelow ==
  ASSUME NEW b \in Nat \ {0}, NEW k \in Nat, NEW l \in Nat, k * b < b * l
  PROVE  k < l
<1>1. CASE k >= l
  <2>1. PICK d \in Nat : k = l + d
    <3>1. k - l \in Nat /\ k = l + (k - l)
      BY <1>1
    <3> QED BY <3>1
  <2>2. k * b = b * l + d * b /\ d * b >= 0
    BY <2>1
  <2> QED BY <2>2
<1> QED BY <1>1

\* The counter words of block c, and a counter that stands for the block at byte p.
CtrOf(c) == <<c % Ctr32, c \div Ctr32>>
AtBlock(ctr, p) == \E c \in Nat : ctr = CtrOf(c) /\ p = c * Block64

\* Two halves make a block.
LEMMA StreamConstants ==
  /\ Half \in Nat \ {0} /\ Block64 \in Nat \ {0} /\ Block64 = Half + Half /\ Ctr32 \in Nat \ {0}
  /\ Ctr32 >= 2
<1>1. Half \in Nat \ {0} /\ Ctr32 \in Nat /\ Ctr32 >= 2
  BY StreamAssumption
<1>2. 2 * Half \in Nat \ {0} /\ 2 * Half = Half + Half
  BY <1>1
<1> QED BY <1>1, <1>2 DEF Block64

\* The carry into the second word counts blocks, as long as both words can.
LEMMA CarryCounts ==
  ASSUME NEW c \in Nat, c + 1 < Ctr32 * Ctr32
  PROVE  Carry(CtrOf(c)) = CtrOf(c + 1)
<1>1. PICK w, lo, hi : w = Ctr32 /\ lo = c % w /\ hi = c \div w
  OBVIOUS
<1>2. w \in Nat \ {0} /\ w >= 2
  BY <1>1, StreamConstants
<1>3. c = w * hi + lo /\ lo \in 0 .. w - 1 /\ hi \in Int
  BY <1>1, <1>2, Quotient
<1>4. hi >= 0
  <2>1. CASE hi <= -1
    <3>1. w * hi <= -w
      BY <1>2, <1>3, <2>1
    <3> QED BY <1>2, <1>3, <3>1
  <2> QED BY <1>3, <2>1
<1>5. CtrOf(c) = <<lo, hi>>
  BY <1>1 DEF CtrOf
<1>6. CASE lo + 1 < w
  <2>1. PICK d : d = c + 1
    OBVIOUS
  <2>2. d \in Int /\ d = w * hi + (lo + 1) /\ lo + 1 \in 0 .. w - 1
    BY <1>2, <1>3, <1>6, <2>1
  <2>3. d \div w = hi /\ d % w = lo + 1
    BY <1>2, <1>3, <2>2, QuotientUnique
  <2>4. (lo + 1) % w = lo + 1 /\ lo + 1 # 0
    BY <1>2, <1>3, <1>6
  <2>5. CtrOf(d) = <<lo + 1, hi>>
    BY <1>1, <2>3 DEF CtrOf
  <2>6. Carry(<<lo, hi>>) = <<lo + 1, hi>>
    BY <1>1, <2>4 DEF Carry
  <2> QED BY <1>5, <2>1, <2>5, <2>6
<1>7. CASE lo + 1 = w
  <2>1. PICK d : d = c + 1
    OBVIOUS
  <2>2. d \in Int /\ d = w * (hi + 1) + 0 /\ 0 \in 0 .. w - 1 /\ hi + 1 \in Nat
    <3>1. w * (hi + 1) = w * hi + w
      BY <1>2, <1>3
    <3> QED BY <1>2, <1>3, <1>4, <1>7, <2>1, <3>1
  <2>3. d \div w = hi + 1 /\ d % w = 0
    BY <1>2, <2>2, QuotientUnique
  <2>4. PICK h : h = hi + 1
    OBVIOUS
  <2>5. h * w < w * w
    <3>1. h \in Nat /\ d = w * h + 0 /\ d < w * w
      BY <1>1, <2>1, <2>2, <2>4
    <3>2. h * w = w * h
      BY <1>2, <3>1
    <3>3. w * h \in Nat
      BY <1>2, <3>1
    <3> QED BY <3>1, <3>2, <3>3
  <2>6. h < w
    BY <1>2, <2>2, <2>4, <2>5, FactorBelow
  <2>7. h % w = h /\ (lo + 1) % w = 0
    <3>1. h \in Nat /\ h = w * 0 + h /\ h \in 0 .. w - 1
      BY <1>2, <2>2, <2>4, <2>6
    <3>2. h % w = h
      BY <1>2, <3>1, QuotientUnique
    <3>3. w \in Int /\ w = w * 1 + 0 /\ 0 \in 0 .. w - 1
      BY <1>2
    <3>4. w % w = 0
      BY <1>2, <3>3, QuotientUnique
    <3> QED BY <1>7, <3>2, <3>4
  <2>8. CtrOf(d) = <<0, h>>
    BY <1>1, <2>3, <2>4 DEF CtrOf
  <2>9. Carry(<<lo, hi>>) = <<0, h>>
    BY <1>1, <2>4, <2>7 DEF Carry
  <2> QED BY <1>5, <2>1, <2>8, <2>9
<1> QED BY <1>2, <1>3, <1>6, <1>7

\* The ietf counter counts blocks as long as its one word can.
LEMMA WrapCounts ==
  ASSUME NEW c \in Nat, c + 1 < Ctr32
  PROVE  Wrap(CtrOf(c)) = CtrOf(c + 1)
<1>1. PICK w, d : w = Ctr32 /\ d = c + 1
  OBVIOUS
<1>2. w \in Nat \ {0} /\ d \in 0 .. w - 1 /\ c \in 0 .. w - 1
  BY <1>1, StreamConstants
<1>3. c % w = c /\ d % w = d /\ c \div w = 0 /\ d \div w = 0
  <2>1. c = w * 0 + c /\ d = w * 0 + d
    BY <1>2
  <2>2. c \div w = 0 /\ c % w = c
    BY <1>2, <2>1, QuotientUnique
  <2>3. d \div w = 0 /\ d % w = d
    BY <1>2, <2>1, QuotientUnique
  <2> QED BY <2>2, <2>3
<1>4. CtrOf(c) = <<c, 0>> /\ CtrOf(d) = <<d, 0>>
  BY <1>1, <1>3 DEF CtrOf
<1>5. Wrap(<<c, 0>>) = <<d, 0>>
  BY <1>1, <1>3 DEF Wrap
<1> QED BY <1>1, <1>4, <1>5

\* The bytes of the keystream from one place to another.
Covered(fam, from, to) == {Linear(fam, p) : p \in from .. to - 1}

\* A byte of a block is the byte of the keystream at its place.
LEMMA LinearByte ==
  ASSUME NEW fam, NEW c \in Nat, NEW i \in 0 .. Block64 - 1, NEW p, p = c * Block64 + i
  PROVE  Linear(fam, p) = KeyByte(fam, CtrOf(c), i)
<1>1. PICK b : b = Block64
  OBVIOUS
<1>2. b \in Nat \ {0} /\ i \in 0 .. b - 1
  BY <1>1, StreamConstants
<1>3. p \in Int /\ p = b * c + i
  BY <1>1, <1>2
<1>4. p \div b = c /\ p % b = i
  BY <1>2, <1>3, QuotientUnique
<1> QED BY <1>1, <1>4 DEF Linear, CtrOf

\* Two places have different bytes.
LEMMA LinearOnce ==
  ASSUME NEW fam, NEW p \in Nat, NEW q \in Nat, Linear(fam, p) = Linear(fam, q)
  PROVE  p = q
<1>1. PICK b, w : b = Block64 /\ w = Ctr32
  OBVIOUS
<1>2. b \in Nat \ {0} /\ w \in Nat \ {0}
  BY <1>1, StreamConstants
<1>3. PICK c, d, i, j : c = p \div b /\ d = q \div b /\ i = p % b /\ j = q % b
  OBVIOUS
<1>4. p = b * c + i /\ q = b * d + j /\ c \in Int /\ d \in Int /\ i \in Int /\ j \in Int
  BY <1>2, <1>3, Quotient
<1>5. /\ Linear(fam, p) = KeyByte(fam, CtrOf(c), i)
      /\ Linear(fam, q) = KeyByte(fam, CtrOf(d), j)
  BY <1>1, <1>3 DEF Linear, CtrOf
<1>6. CtrOf(c) = CtrOf(d) /\ i = j
  <2>1. PICK x, y : x = CtrOf(c) /\ y = CtrOf(d)
    OBVIOUS
  <2>2. KeyByte(fam, x, i) = KeyByte(fam, y, j)
    BY <1>5, <2>1
  <2>3. KeyByte(fam, x, i).ctr = x /\ KeyByte(fam, x, i).i = i
    BY DEF KeyByte, Salsa20Block, ChaCha20Block
  <2>4. KeyByte(fam, y, j).ctr = y /\ KeyByte(fam, y, j).i = j
    BY DEF KeyByte, Salsa20Block, ChaCha20Block
  <2> QED BY <2>1, <2>2, <2>3, <2>4
<1>7. c % w = d % w /\ c \div w = d \div w
  BY <1>1, <1>6 DEF CtrOf
<1>8. PICK r, s : r = c % w /\ s = c \div w
  OBVIOUS
<1>9. c = w * s + r /\ d = w * s + r
  <2>1. c = w * (c \div w) + (c % w)
    BY <1>2, <1>4, Quotient
  <2>2. d = w * (d \div w) + (d % w)
    BY <1>2, <1>4, Quotient
  <2> QED BY <1>7, <1>8, <2>1, <2>2
<1> QED BY <1>4, <1>6, <1>9

\* What the loop of one block uses.
LEMMA BlockCovers ==
  ASSUME NEW fam, NEW c \in Nat, NEW ctr, ctr = CtrOf(c), NEW from \in Nat, NEW take \in Nat,
         from + take <= Block64, NEW p, p = c * Block64 + from, NEW q, q = p + take
  PROVE  KeyBytes(fam, ctr, from, take) = Covered(fam, p, q)
<1>1. Block64 \in Nat /\ c * Block64 \in Nat
  BY StreamConstants
<1>2. PICK b : b = c * Block64
  OBVIOUS
<1>3. b \in Nat /\ p = b + from /\ q = b + from + take
  BY <1>1, <1>2
<1>4. ASSUME NEW i \in from .. from + take - 1
      PROVE  /\ Linear(fam, b + i) = KeyByte(fam, ctr, i)
             /\ b + i \in p .. q - 1
  <2>1. i \in 0 .. Block64 - 1
    BY <1>1
  <2>2. PICK s : s = b + i
    OBVIOUS
  <2>3. s = c * Block64 + i
    BY <1>2, <2>2
  <2>4. Linear(fam, s) = KeyByte(fam, CtrOf(c), i)
    BY <2>1, <2>3, LinearByte
  <2> QED BY <1>3, <2>2, <2>4
<1>5. ASSUME NEW s \in p .. q - 1
      PROVE  s - b \in from .. from + take - 1 /\ b + (s - b) = s
  BY <1>3
<1>6. KeyBytes(fam, ctr, from, take) \subseteq Covered(fam, p, q)
  BY <1>4 DEF KeyBytes, Covered
<1>7. Covered(fam, p, q) \subseteq KeyBytes(fam, ctr, from, take)
  <2> SUFFICES ASSUME NEW s \in p .. q - 1
               PROVE  Linear(fam, s) \in KeyBytes(fam, ctr, from, take)
    BY DEF Covered
  <2>1. PICK i \in from .. from + take - 1 : b + i = s
    BY <1>5
  <2>2. Linear(fam, s) = KeyByte(fam, ctr, i)
    BY <1>4, <2>1
  <2> QED BY <2>2 DEF KeyBytes
<1> QED BY <1>6, <1>7

\* Two stretches of the keystream, one behind the other.
LEMMA CoveredJoin ==
  ASSUME NEW fam, NEW a \in Nat, NEW b \in Nat, NEW c \in Nat, a <= b, b <= c
  PROVE  Covered(fam, a, b) \cup Covered(fam, b, c) = Covered(fam, a, c)
<1>1. (a .. b - 1) \cup (b .. c - 1) = a .. c - 1
  OBVIOUS
<1> QED BY <1>1 DEF Covered

\* A stretch has as many bytes as it is long.
LEMMA CoveredSize ==
  ASSUME NEW fam, NEW a \in Nat, NEW n \in Nat
  PROVE  Cardinality(Covered(fam, a, a + n)) = n
<1> DEFINE f == [i \in 1 .. n |-> Linear(fam, a + i - 1)]
           T == Covered(fam, a, a + n)
<1>1. f \in [1 .. n -> T]
  <2>1. ASSUME NEW i \in 1 .. n PROVE a + i - 1 \in a .. (a + n) - 1
    OBVIOUS
  <2> QED BY <2>1 DEF Covered
<1>2. \A i, j \in 1 .. n : f[i] = f[j] => i = j
  <2> SUFFICES ASSUME NEW i \in 1 .. n, NEW j \in 1 .. n, f[i] = f[j] PROVE i = j
    OBVIOUS
  <2>1. PICK p, q : p = a + i - 1 /\ q = a + j - 1
    OBVIOUS
  <2>2. p \in Nat /\ q \in Nat /\ Linear(fam, p) = Linear(fam, q)
    BY <2>1
  <2>3. p = q
    BY <2>2, LinearOnce
  <2> QED BY <2>1, <2>3
<1>3. \A t \in T : \E i \in 1 .. n : f[i] = t
  <2> SUFFICES ASSUME NEW p \in a .. (a + n) - 1 PROVE \E i \in 1 .. n : f[i] = Linear(fam, p)
    BY DEF Covered
  <2>1. p - a + 1 \in 1 .. n /\ a + (p - a + 1) - 1 = p
    OBVIOUS
  <2> QED BY <2>1
<1> HIDE DEF f, T
<1>4. f \in Bijection(1 .. n, T)
  BY <1>1, <1>2, <1>3 DEF Bijection, Injection, Surjection, IsInjective
<1>5. ExistsBijection(1 .. n, T)
  BY <1>4 DEF ExistsBijection
<1> QED BY <1>5, FS_CountingElements DEF T

\* Where in the keystream a call starts, and where it is.
Base(op) ==
  IF op = "xor" THEN (Ctr32 - 1) * Block64
  ELSE IF op \in {"aead_seal", "aead_open"} THEN Block64 ELSE Half
Place == Base(call.op) + (call.n - todo.left)

\* How many blocks its counter counts.
Blocks(op) == IF op \in {"aead_seal", "aead_open"} THEN Ctr32 ELSE Ctr32 * Ctr32

\* A call has used the keystream from its start to where it is, and its counter stands
\* for the block that comes.
UsedInv ==
  /\ StreamShape
  /\ CounterAllowed /\ call.fam # "ed25519" =>
       /\ used = Covered(call.fam, Base(call.op), Place)
       /\ (todo.phase = "stream" \/ call.op = "aead_open") /\ todo.left > 0 =>
            AtBlock(todo.ctr, Place)

\* The counter does not run out before the message does.
LEMMA EnoughBlocks ==
  ASSUME StreamShape, CounterAllowed
  PROVE  /\ Base(call.op) \in Nat /\ Blocks(call.op) \in Nat
         /\ Base(call.op) + call.n <= Block64 * Blocks(call.op)
<1>1. PICK b, w, n, h : b = Block64 /\ w = Ctr32 /\ n = call.n /\ h = Half
  OBVIOUS
<1>2. b \in Nat \ {0} /\ w \in Nat \ {0} /\ w >= 2 /\ h \in Nat /\ b = h + h
  BY <1>1, StreamConstants
<1>3. n \in Nat /\ n <= b * (w * (w - 1))
  BY <1>1, StreamAssumption DEF StreamShape, Block64
<1>4. PICK v \in Nat : w = v + 1 /\ v >= 1
  <2>1. w - 1 \in Nat /\ w = (w - 1) + 1 /\ w - 1 >= 1
    BY <1>2
  <2> QED BY <2>1
<1>5. b * (w * w) = b * (w * (w - 1)) + b * v + b /\ b * v \in Nat /\ b * v >= b
  <2>1. w * w = w * v + v + 1 /\ w - 1 = v
    BY <1>2, <1>4
  <2>2. b * (w * v + v + 1) = b * (w * v) + b * v + b
    BY <1>2, <1>4
  <2>3. b * v \in Nat /\ b * v >= b
    BY <1>2, <1>4
  <2> QED BY <2>1, <2>2, <2>3
<1>6. w * w \in Nat
  BY <1>2
<1>7. CASE call.op = "xor"
  <2>1. Base(call.op) = (w - 1) * b /\ Blocks(call.op) = w * w
    BY <1>1, <1>7 DEF Base, Blocks
  <2>2. (w - 1) * b = b * v
    BY <1>2, <1>4
  <2> QED BY <1>1, <1>2, <1>3, <1>5, <1>6, <2>1, <2>2
<1>8. CASE call.op \in {"aead_seal", "aead_open"}
  <2>1. Base(call.op) = b /\ Blocks(call.op) = w
    BY <1>1, <1>8 DEF Base, Blocks
  <2>2. n <= b * (w - 1)
    BY <1>1, <1>8 DEF CounterAllowed
  <2>3. b * w = b * v + b /\ w - 1 = v
    BY <1>2, <1>4
  <2> QED BY <1>1, <1>2, <1>3, <2>1, <2>2, <2>3
<1>9. CASE call.op \notin {"xor", "aead_seal", "aead_open"}
  <2>1. Base(call.op) = h /\ Blocks(call.op) = w * w
    BY <1>1, <1>9 DEF Base, Blocks
  <2> QED BY <1>1, <1>2, <1>3, <1>5, <1>6, <2>1
<1> QED BY <1>7, <1>8, <1>9

\* The call starts with nothing used.
LEMMA UsedAtStart ==
  ASSUME StreamInit
  PROVE  UsedInv
<1>1. StreamShape
  BY ShapeAtStart
<1> SUFFICES ASSUME CounterAllowed, call.fam # "ed25519"
             PROVE  /\ used = Covered(call.fam, Base(call.op), Place)
                    /\ (todo.phase = "stream" \/ call.op = "aead_open") /\ todo.left > 0 =>
                         AtBlock(todo.ctr, Place)
  BY <1>1 DEF UsedInv
<1>2. PICK op \in Ops, n \in MsgLens, shift \in Shifts :
        \E fam \in Families(op), at \in Int :
          /\ call = [op |-> op, fam |-> fam, n |-> n, shift |-> shift, bad |-> at # 0,
                     input |-> Changed(InputOf(op, fam, n), at)]
          /\ todo = Start(op, fam, n, shift)
  BY DEF StreamInit
<1>3. PICK fam \in Families(op), at \in Int :
        /\ call = [op |-> op, fam |-> fam, n |-> n, shift |-> shift, bad |-> at # 0,
                   input |-> Changed(InputOf(op, fam, n), at)]
        /\ todo = Start(op, fam, n, shift)
  BY <1>2
<1>4. call.op = op /\ call.n = n /\ n \in Nat
  BY <1>3, StreamAssumption
<1>5. /\ todo.left = n
      /\ op = "xor" => todo.ctr = <<Ctr32 - 1, 0>>
      /\ op \in {"aead_seal", "aead_open"} => todo.ctr = <<1, 0>>
      /\ op \notin {"xor", "aead_seal", "aead_open"} => todo.phase # "stream"
  BY <1>3 DEF Start, Ops
<1>6. PICK b : b = Base(call.op)
  OBVIOUS
<1>7. b \in Nat /\ Place = b
  BY <1>1, <1>4, <1>5, <1>6, EnoughBlocks DEF Place
<1>8. used = Covered(call.fam, b, b)
  <2>1. b .. b - 1 = {}
    BY <1>7
  <2> QED BY <2>1 DEF Covered, StreamInit
<1>9. ASSUME NEW c \in Nat, c < Ctr32
      PROVE  CtrOf(c) = <<c, 0>>
  <2>1. PICK w : w = Ctr32
    OBVIOUS
  <2>2. w \in Nat \ {0} /\ c \in 0 .. w - 1 /\ c = w * 0 + c
    BY <1>9, <2>1, StreamConstants
  <2>3. c \div w = 0 /\ c % w = c
    BY <2>2, QuotientUnique
  <2> QED BY <2>1, <2>3 DEF CtrOf
<1>10. CASE op = "xor"
  <2>1. Ctr32 - 1 \in Nat /\ Ctr32 - 1 < Ctr32
    BY StreamConstants
  <2>2. CtrOf(Ctr32 - 1) = <<Ctr32 - 1, 0>>
    BY <1>9, <2>1
  <2>3. Place = (Ctr32 - 1) * Block64
    BY <1>4, <1>6, <1>7, <1>10 DEF Base
  <2>4. AtBlock(todo.ctr, Place)
    BY <1>5, <1>10, <2>1, <2>2, <2>3 DEF AtBlock
  <2> QED BY <1>6, <1>7, <1>8, <2>4
<1>11. CASE op \in {"aead_seal", "aead_open"}
  <2>1. CtrOf(1) = <<1, 0>>
    BY <1>9, StreamConstants
  <2>2. Place = 1 * Block64
    BY <1>4, <1>6, <1>7, <1>11, StreamConstants DEF Base
  <2>3. AtBlock(todo.ctr, Place)
    BY <1>5, <1>11, <2>1, <2>2 DEF AtBlock
  <2> QED BY <1>6, <1>7, <1>8, <2>3
<1>12. CASE op \notin {"xor", "aead_seal", "aead_open"}
  BY <1>4, <1>5, <1>6, <1>7, <1>8, <1>12
<1> QED BY <1>10, <1>11, <1>12

\* One block of the loop.
LEMMA LoopUses ==
  ASSUME UsedInv, CounterAllowed, call.fam # "ed25519", NEW next, LoopBlock(next),
         \/ call.fam \in {"xchacha20", "xsalsa20"} /\ next = Carry(todo.ctr)
         \/ call.fam = "ietf" /\ next = Wrap(todo.ctr)
  PROVE  /\ used' = Covered(call.fam, Base(call.op), Place')
         /\ todo'.left > 0 => AtBlock(todo'.ctr, Place')
<1>1. StreamShape /\ DOMAIN todo = {"phase", "src", "dst", "left", "ctr", "first"}
  BY DEF UsedInv, StreamShape
<1>2. PICK take, b, p, base, n, l :
        /\ take = Smaller(todo.left, Block64) /\ b = Block64 /\ p = Place
        /\ base = Base(call.op) /\ n = call.n /\ l = todo.left
  OBVIOUS
<1>3. /\ todo.phase = "stream" /\ l > 0
      /\ used' = used \cup KeyBytes(call.fam, todo.ctr, 0, take)
      /\ todo'.left = l - take /\ todo'.ctr = next /\ call' = call
  BY <1>1, <1>2 DEF LoopBlock, Keep
<1>4. n \in Nat /\ l \in 0 .. n /\ b \in Nat \ {0}
  BY <1>1, <1>2, StreamConstants, StreamAssumption DEF StreamShape
<1>5. take \in 0 .. l /\ take <= b /\ (l - take > 0 => take = b)
  BY <1>2, <1>4 DEF Smaller
<1>6. base \in Nat /\ base + n <= b * Blocks(call.op) /\ Blocks(call.op) \in Nat
  BY <1>1, <1>2, EnoughBlocks
<1>7. p = base + (n - l) /\ p \in Nat
  BY <1>2, <1>4, <1>6 DEF Place
<1>8. PICK q : q = p + take
  OBVIOUS
<1>9. Place' = q /\ q = base + (n - (l - take)) /\ q \in Nat /\ base <= p /\ p <= q
  BY <1>2, <1>3, <1>4, <1>5, <1>6, <1>7, <1>8 DEF Place
<1>10. used = Covered(call.fam, base, p)
  BY <1>2 DEF UsedInv
<1>11. PICK c \in Nat : todo.ctr = CtrOf(c) /\ p = c * b
  BY <1>2, <1>3 DEF UsedInv, AtBlock
<1>12. KeyBytes(call.fam, todo.ctr, 0, take) = Covered(call.fam, p, q)
  <2>1. p = c * Block64 + 0 /\ 0 + take <= Block64 /\ take \in Nat
    BY <1>2, <1>4, <1>5, <1>7, <1>11
  <2> QED BY <1>8, <1>11, <2>1, BlockCovers
<1>13. used' = Covered(call.fam, base, q)
  BY <1>3, <1>6, <1>7, <1>9, <1>10, <1>12, CoveredJoin
<1>14. ASSUME todo'.left > 0 PROVE AtBlock(todo'.ctr, q)
  <2>1. l - take > 0 /\ take = b
    BY <1>3, <1>5, <1>14
  <2>2. PICK d : d = c + 1
    OBVIOUS
  <2>3. d \in Nat /\ q = d * b
    <3>1. (c + 1) * b = c * b + b
      BY <1>4
    <3> QED BY <1>8, <1>11, <2>1, <2>2, <3>1
  <2>4. d * b < b * Blocks(call.op)
    BY <1>4, <1>6, <1>9, <2>1, <2>3
  <2>5. d < Blocks(call.op)
    BY <1>4, <1>6, <2>3, <2>4, FactorBelow
  <2>6. call.fam = "ietf" <=> call.op \in {"aead_seal", "aead_open"}
    BY <1>1 DEF StreamShape, Families, Ops
  <2>7. next = CtrOf(d)
    <3>1. CASE call.fam = "ietf"
      BY <1>11, <2>2, <2>5, <2>6, <3>1, WrapCounts DEF Blocks
    <3>2. CASE call.fam # "ietf"
      BY <1>11, <2>2, <2>5, <2>6, <3>2, CarryCounts DEF Blocks
    <3> QED BY <3>1, <3>2
  <2> QED BY <1>2, <1>3, <2>3, <2>7 DEF AtBlock
<1> QED BY <1>2, <1>9, <1>13, <1>14

\* The first bytes of a box, behind those of the MAC's key.
LEMMA FirstUses ==
  ASSUME UsedInv, CounterAllowed, call.fam # "ed25519", EasyFirst \/ OpenFirst
  PROVE  /\ used' = Covered(call.fam, Base(call.op), Place')
         /\ todo'.left > 0 => AtBlock(todo'.ctr, Place')
<1>1. StreamShape /\ DOMAIN todo = {"phase", "src", "dst", "left", "ctr", "first"}
  BY DEF UsedInv, StreamShape
<1>2. PICK take, h, n : take = Smaller(call.n, Half) /\ h = Half /\ n = call.n
  OBVIOUS
<1>3. n \in Nat /\ h \in Nat \ {0} /\ Block64 = h + h
  BY <1>1, <1>2, StreamConstants, StreamAssumption DEF StreamShape
<1>4. todo.phase = "first" /\ todo.left = n
  BY <1>1, <1>2 DEF StreamShape, EasyFirst, OpenFirst
<1>5. Opening(call.op) => Len(todo.first) = take
  BY <1>1, <1>2, <1>4 DEF StreamShape
<1>6. /\ used' = used \cup KeyBytes(call.fam, <<0, 0>>, h, take)
      /\ todo'.left = n - take /\ todo'.ctr = <<1, 0>> /\ call' = call
  <2>1. CASE EasyFirst
    BY <1>1, <1>2, <1>4, <2>1 DEF EasyFirst, Keep
  <2>2. CASE OpenFirst
    BY <1>1, <1>2, <1>4, <1>5, <2>2 DEF OpenFirst, Keep
  <2> QED BY <2>1, <2>2
<1>7. take \in 0 .. n /\ take <= h /\ (n - take > 0 => take = h)
  BY <1>2, <1>3 DEF Smaller
<1>8. Base(call.op) = h
  BY <1>1, <1>2, <1>4 DEF Base, StreamShape, PhasesOf
<1>9. PICK q : q = h + take
  OBVIOUS
<1>10. Place = h /\ Place' = q /\ q \in Nat
  BY <1>2, <1>3, <1>4, <1>6, <1>7, <1>8, <1>9 DEF Place
<1>11. used = {}
  <2>1. used = Covered(call.fam, h, h) /\ h .. h - 1 = {}
    BY <1>3, <1>8, <1>10 DEF UsedInv
  <2> QED BY <2>1 DEF Covered
<1>12. ASSUME NEW c \in {0, 1} PROVE CtrOf(c) = <<c, 0>>
  <2>1. PICK w : w = Ctr32
    OBVIOUS
  <2>2. w \in Nat \ {0} /\ c \in 0 .. w - 1 /\ c \in Int /\ c = w * 0 + c
    BY <2>1, StreamConstants
  <2>3. c \div w = 0 /\ c % w = c
    BY <2>2, QuotientUnique
  <2> QED BY <2>1, <2>3 DEF CtrOf
<1>13. KeyBytes(call.fam, <<0, 0>>, h, take) = Covered(call.fam, h, q)
  <2>1. PICK ctr : ctr = <<0, 0>>
    OBVIOUS
  <2>2. ctr = CtrOf(0)
    BY <1>12, <2>1
  <2>3. h = 0 * Block64 + h /\ h + take <= Block64 /\ take \in Nat /\ h \in Nat
    BY <1>3, <1>7
  <2>4. KeyBytes(call.fam, ctr, h, take) = Covered(call.fam, h, q)
    BY <1>9, <2>2, <2>3, BlockCovers
  <2> QED BY <2>1, <2>4
<1>14. ASSUME todo'.left > 0 PROVE AtBlock(todo'.ctr, q)
  <2>1. q = 1 * Block64
    BY <1>3, <1>6, <1>7, <1>9, <1>14
  <2>2. todo'.ctr = CtrOf(1)
    BY <1>6, <1>12
  <2> QED BY <2>1, <2>2 DEF AtBlock
<1> QED BY <1>6, <1>8, <1>10, <1>11, <1>13, <1>14

\* Every step uses what comes next, or nothing.
LEMMA UsedStep ==
  ASSUME UsedInv, StreamNext
  PROVE  UsedInv'
<1>1. StreamShape /\ StreamShape' /\ call' = call /\ Moves
  BY ShapeStep, StepsMove DEF UsedInv
<1> SUFFICES ASSUME CounterAllowed, call.fam # "ed25519" PROVE UsedInv'
  BY <1>1 DEF UsedInv, CounterAllowed
<1>2. DOMAIN todo = {"phase", "src", "dst", "left", "ctr", "first"}
  BY <1>1 DEF StreamShape
<1>3. ASSUME /\ used' = Covered(call.fam, Base(call.op), Place')
             /\ todo'.left > 0 => AtBlock(todo'.ctr, Place')
      PROVE  UsedInv'
  BY <1>1, <1>3 DEF UsedInv
<1>4. ASSUME used' = used, todo'.left = todo.left, todo'.ctr = todo.ctr,
             todo'.phase = "stream" => call.op = "aead_open"
      PROVE  UsedInv'
  <2>1. Place' = Place
    BY <1>1, <1>4 DEF Place
  <2> QED BY <1>1, <1>4, <2>1 DEF UsedInv
<1>5. ASSUME NEW next, LoopBlock(next),
             \/ call.fam \in {"xchacha20", "xsalsa20"} /\ next = Carry(todo.ctr)
             \/ call.fam = "ietf" /\ next = Wrap(todo.ctr)
      PROVE  UsedInv'
  BY <1>3, <1>5, LoopUses
<1>6. CASE EasyFirst \/ OpenFirst
  BY <1>3, <1>6, FirstUses
<1>7. CASE StreamEnd
  BY <1>2, <1>4, <1>7 DEF StreamEnd, Phase
<1>8. CASE EasyMac \/ AeadMac
  BY <1>2, <1>4, <1>8 DEF EasyMac, AeadMac, Phase
<1>9. CASE OpenVerify
  <2>1. used' = used /\ todo'.left = todo.left /\ todo'.ctr = todo.ctr
        /\ todo'.phase \in {"first", "rejected"}
    BY <1>2, <1>9 DEF OpenVerify
  <2> QED BY <1>4, <2>1
<1>10. CASE SealScatter \/ OpenGather
  BY <1>2, <1>4, <1>10 DEF SealScatter, OpenGather, Phase
<1>11. CASE AeadVerify
  BY <1>2, <1>4, <1>11 DEF AeadVerify, Phase
<1>12. CASE SignR \/ SignS \/ SignMove \/ SignVerify \/ SignRelease
  BY <1>2, <1>4, <1>12 DEF SignR, SignS, SignMove, SignVerify, SignRelease, Phase
<1> QED BY <1>5, <1>6, <1>7, <1>8, <1>9, <1>10, <1>11, <1>12, StepIsACase DEF StepCases

\* UsedInv holds of every call.
THEOREM UsedInvariant == StreamSpec => []UsedInv
<1>1. StreamInit => UsedInv
  BY UsedAtStart
<1>2. UsedInv /\ [StreamNext]_streamVars => UsedInv'
  <2> SUFFICES ASSUME UsedInv, UNCHANGED streamVars PROVE UsedInv'
    BY UsedStep
  <2>1. call' = call /\ todo' = todo /\ used' = used
    BY DEF streamVars
  <2> QED BY <2>1 DEF UsedInv, StreamShape, Place, CounterAllowed
<1> QED BY <1>1, <1>2, PTL DEF StreamSpec

\* A call that is done has used as many bytes of the keystream as its message has, so no
\* byte twice, and none of a MAC's key.
LEMMA UsedOnce ==
  ASSUME UsedInv
  PROVE  KeystreamOnce
<1> SUFFICES ASSUME CounterAllowed, call.fam # "ed25519"
             PROVE  /\ todo.phase = "done" => Cardinality(used) = call.n
                    /\ call.op # "xor" =>
                         \A i \in 0 .. Half - 1 : MacKeyByte(call.fam, i) \notin used
  BY DEF KeystreamOnce
<1>1. StreamShape
  BY DEF UsedInv
<1>2. PICK b, n, l : b = Base(call.op) /\ n = call.n /\ l = todo.left
  OBVIOUS
<1>3. b \in Nat /\ n \in Nat /\ l \in 0 .. n
  BY <1>1, <1>2, EnoughBlocks, StreamAssumption DEF StreamShape
<1>4. used = Covered(call.fam, b, b + (n - l))
  BY <1>2 DEF UsedInv, Place
<1>5. ASSUME todo.phase = "done" PROVE Cardinality(used) = n
  <2>1. l = 0
    BY <1>1, <1>2, <1>5 DEF StreamShape, Families, Ops
  <2>2. n - l = n
    BY <1>3, <2>1
  <2> QED BY <1>3, <1>4, <2>2, CoveredSize
<1>6. ASSUME call.op # "xor", NEW i \in 0 .. Half - 1, MacKeyByte(call.fam, i) \in used
      PROVE  FALSE
  <2>0. PICK to, k : to = b + (n - l) /\ k = MacKeyByte(call.fam, i)
    OBVIOUS
  <2>1. PICK p \in b .. to - 1 : k = Linear(call.fam, p)
    BY <1>4, <1>6, <2>0 DEF Covered
  <2>2. i \in 0 .. Block64 - 1 /\ i = 0 * Block64 + i /\ i \in Nat
    BY StreamConstants
  <2>3. Linear(call.fam, i) = KeyByte(call.fam, CtrOf(0), i)
    BY <2>2, LinearByte
  <2>4. CtrOf(0) = <<0, 0>>
    <3>1. PICK w : w = Ctr32
      OBVIOUS
    <3>2. w \in Nat \ {0} /\ 0 \in 0 .. w - 1 /\ 0 \in Int /\ 0 = w * 0 + 0
      BY <3>1, StreamConstants
    <3>3. 0 \div w = 0 /\ 0 % w = 0
      BY <3>2, QuotientUnique
    <3> QED BY <3>1, <3>3 DEF CtrOf
  <2>5. Linear(call.fam, i) = Linear(call.fam, p)
    BY <2>0, <2>1, <2>3, <2>4 DEF MacKeyByte
  <2>6. p \in Nat /\ i = p
    BY <1>3, <2>2, <2>5, LinearOnce
  <2>7. b >= Half
    BY <1>2, <1>6, StreamConstants DEF Base
  <2> QED BY <1>3, <2>0, <2>1, <2>6, <2>7, StreamConstants
<1> QED BY <1>2, <1>5, <1>6

\* No byte of the keystream covers two bytes of data, and none that does is a byte of the
\* MAC's key, whatever the sizes of blocks and counter words and the length of the message.
THEOREM KeystreamUsedOnce == StreamSpec => []KeystreamOnce
  BY UsedInvariant, UsedOnce, PTL

(***************************************************************************)
(* What an opening call verifies.                                          *)
(***************************************************************************)
\* A sequence of n elements.
Elements(f, n) == f = [i \in 1 .. n |-> f[i]]

\* No cell of a sequence is empty.
Filled(s, n) == \A i \in 1 .. n : s[i].b # 0

\* n elements of f, then k of g.
Joins(h, f, n, g, k) ==
  /\ Len(h) = n + k /\ Elements(h, n + k)
  /\ \A i \in 1 .. n : h[i] = f[i]
  /\ \A i \in 1 .. k : h[n + i] = g[i]

\* A sequence after another.
LEMMA Concatenated ==
  ASSUME NEW n \in Nat, NEW k \in Nat, NEW f, NEW g, Elements(f, n), Elements(g, k),
         NEW h, h = f \o g
  PROVE  Joins(h, f, n, g, k)
<1> DEFINE S == {f[i] : i \in 1 .. n} \cup {g[i] : i \in 1 .. k}
<1>1. f \in Seq(S) /\ Len(f) = n /\ g \in Seq(S) /\ Len(g) = k
  <2>1. f \in Seq(S)
    <3>1. f \in [1 .. n -> S]
      BY DEF Elements
    <3> HIDE DEF S
    <3> QED BY <3>1
  <2>2. g \in Seq(S)
    <3>1. g \in [1 .. k -> S]
      BY DEF Elements
    <3> HIDE DEF S
    <3> QED BY <3>1
  <2>3. Len(f) = n /\ Len(g) = k
    BY LengthOfElements DEF Elements
  <2> QED BY <2>1, <2>2, <2>3
<1> HIDE DEF S
<1>2. h \in Seq(S) /\ Len(h) = n + k
  <2>1. f \o g \in Seq(S)
    BY <1>1
  <2>2. Len(f \o g) = n + k
    BY <1>1, ConcatProperties
  <2> QED BY <2>1, <2>2
<1>3. Elements(h, n + k)
  BY <1>2 DEF Elements
<1>4. \A i \in 1 .. n : h[i] = f[i]
  BY <1>1
<1>5. \A i \in 1 .. k : h[n + i] = g[i]
  BY <1>1
<1> QED BY <1>2, <1>3, <1>4, <1>5 DEF Joins

\* What follows the same sequence in two sequences that are equal is equal.
LEMMA ConcatenatedSame ==
  ASSUME NEW n \in Nat, NEW k \in Nat, NEW f, NEW g, NEW d, Elements(f, n),
         Elements(g, k), Elements(d, k), f \o g = f \o d
  PROVE  g = d
<1>1. PICK h : h = f \o g /\ h = f \o d
  OBVIOUS
<1>2. Joins(h, f, n, g, k)
  BY <1>1, Concatenated
<1>3. Joins(h, f, n, d, k)
  BY <1>1, Concatenated
<1>4. \A i \in 1 .. k : g[i] = d[i]
  BY <1>2, <1>3 DEF Joins
<1> QED BY <1>4 DEF Elements

\* A sequence with no cell changed is the sequence, one with a cell changed is not.
LEMMA ChangedCells ==
  ASSUME NEW n \in Nat, NEW f, Elements(f, n), Filled(f, n),
         NEW x \in 0 .. n, NEW g, g = Changed(f, x)
  PROVE  /\ Elements(g, n)
         /\ \A i \in 1 .. n : g[i] = IF i = x THEN ZeroCell ELSE f[i]
         /\ x = 0 => g = f
         /\ x # 0 => x \in 1 .. n /\ g[x] # f[x] /\ g[x].b = 0
<1>1. DOMAIN f = 1 .. n
  BY DEF Elements
<1>2. g = [i \in 1 .. n |-> IF i = x THEN ZeroCell ELSE f[i]]
  BY <1>1 DEF Changed
<1>3. ZeroCell.b = 0
  BY DEF ZeroCell, Cell
<1>4. Elements(g, n)
  BY <1>2 DEF Elements
<1>5. \A i \in 1 .. n : g[i] = IF i = x THEN ZeroCell ELSE f[i]
  BY <1>2
<1>6. x = 0 => g = f
  <2>1. ASSUME x = 0 PROVE g = [i \in 1 .. n |-> f[i]]
    BY <1>2, <2>1
  <2> QED BY <2>1 DEF Elements
<1>7. x # 0 => x \in 1 .. n /\ g[x] # f[x] /\ g[x].b = 0
  BY <1>3, <1>5 DEF Filled
<1> QED BY <1>4, <1>5, <1>6, <1>7

\* A MAC says its place and what it is of.
LEMMA MacFields ==
  ASSUME NEW fam, NEW s, NEW i \in Nat
  PROVE  /\ Poly1305(fam, s, i).b = -1 - i
         /\ Poly1305(fam, s, i).of = MacKey(fam) \o s
  BY DEF Poly1305, Cell

\* A cipher and its MAC, of which a cell of one or the other may be changed, verify
\* when no cell is.
LEMMA MacVerifies ==
  ASSUME NEW fam, NEW n \in Nat, NEW s, Elements(s, n), Filled(s, n),
         NEW x \in 0 .. n, NEW y \in 0 .. MacLen, x = 0 \/ y = 0,
         NEW c, c = Changed(s, x),
         NEW mac, mac = Macs(fam, s), NEW g, g = Changed(mac, y)
  PROVE  g = Macs(fam, c) <=> x = 0 /\ y = 0
<1>1. MacLen \in Nat \ {0} /\ Half \in Nat
  BY StreamAssumption
<1>2. Elements(mac, MacLen) /\ \A i \in 1 .. MacLen : mac[i] = Poly1305(fam, s, i)
  BY <1>1 DEF Elements, Macs
<1>3. Filled(mac, MacLen)
  BY <1>1, <1>2, MacFields DEF Filled
<1>4. /\ Elements(c, n)
      /\ x = 0 => c = s
      /\ x # 0 => x \in 1 .. n /\ c[x] # s[x]
  BY ChangedCells
<1>5. /\ Elements(g, MacLen)
      /\ y = 0 => g = mac
      /\ y # 0 => y \in 1 .. MacLen /\ g[y].b = 0
  BY <1>1, <1>2, <1>3, ChangedCells
<1>6. CASE x = 0 /\ y = 0
  BY <1>4, <1>5, <1>6
<1>7. CASE y # 0
  <2>1. Macs(fam, c)[y] = Poly1305(fam, c, y) /\ y \in Nat
    BY <1>1, <1>5, <1>7 DEF Macs
  <2>2. Macs(fam, c)[y].b = -1 - y
    BY <2>1, MacFields
  <2> QED BY <1>1, <1>5, <1>7, <2>1, <2>2
<1>8. CASE x # 0
  <2>1. y = 0 /\ g = mac /\ x \in 1 .. n /\ c[x] # s[x]
    BY <1>4, <1>5, <1>8
  <2> SUFFICES ASSUME g = Macs(fam, c) PROVE FALSE
    BY <1>8
  <2>2. Macs(fam, c)[1] = Poly1305(fam, c, 1) /\ g[1] = Poly1305(fam, s, 1)
    BY <1>1, <1>2, <2>1 DEF Macs
  <2>3. MacKey(fam) \o c = MacKey(fam) \o s
    <3>1. Poly1305(fam, c, 1) = Poly1305(fam, s, 1)
      BY <2>2
    <3>2. Poly1305(fam, c, 1).of = MacKey(fam) \o c
      BY MacFields
    <3>3. Poly1305(fam, s, 1).of = MacKey(fam) \o s
      BY MacFields
    <3> QED BY <3>1, <3>2, <3>3
  <2>4. PICK k : k = MacKey(fam)
    OBVIOUS
  <2>5. Elements(k, Half)
    BY <2>4 DEF MacKey, Elements
  <2>6. k \o c = k \o s /\ Elements(c, n) /\ Half \in Nat
    BY <1>1, <1>4, <2>3, <2>4
  <2>7. c = s
    BY ONLY <2>5, <2>6, n \in Nat, Elements(s, n), ConcatenatedSame
  <2> QED BY <2>1, <2>7
<1> QED BY <1>6, <1>7, <1>8

\* And so do the two halves of a signature and the message.
LEMMA SignatureVerifies ==
  ASSUME NEW n \in Nat, NEW s, Elements(s, n), Filled(s, n),
         NEW x \in 0 .. n, NEW y \in 0 .. MacLen, x = 0 \/ y = 0,
         NEW c, c = Changed(s, x),
         NEW sig, sig = SigHalf(2, s), NEW g, g = Changed(sig, y)
  PROVE  g = SigHalf(2, c) <=> x = 0 /\ y = 0
<1>1. MacLen \in Nat \ {0}
  BY StreamAssumption
<1>2. /\ Elements(sig, MacLen)
      /\ \A i \in 1 .. MacLen : sig[i].b = -200 - i /\ sig[i].of = s
  <2>1. sig = [i \in 1 .. MacLen |-> [b |-> -100 * 2 - i, ks |-> {}, of |-> s]]
    BY DEF SigHalf, Cell
  <2>2. Elements(sig, MacLen)
    BY <2>1 DEF Elements
  <2>3. ASSUME NEW i \in 1 .. MacLen PROVE sig[i].b = -200 - i /\ sig[i].of = s
    <3>1. sig[i] = [b |-> -100 * 2 - i, ks |-> {}, of |-> s]
      BY <2>1
    <3>2. sig[i].b = -100 * 2 - i /\ sig[i].of = s
      BY <3>1
    <3> QED BY <1>1, <3>2
  <2> QED BY <2>2, <2>3
<1>3. Filled(sig, MacLen)
  BY <1>1, <1>2 DEF Filled
<1>4. /\ Elements(c, n)
      /\ x = 0 => c = s
      /\ x # 0 => x \in 1 .. n /\ c[x] # s[x]
  BY ChangedCells
<1>5. /\ Elements(g, MacLen)
      /\ y = 0 => g = sig
      /\ y # 0 => y \in 1 .. MacLen /\ g[y].b = 0
  BY <1>1, <1>2, <1>3, ChangedCells
<1>6. CASE x = 0 /\ y = 0
  BY <1>4, <1>5, <1>6
<1>7. CASE y # 0
  <2>1. SigHalf(2, c)[y].b = -200 - y
    BY <1>1, <1>5, <1>7 DEF SigHalf, Cell
  <2> QED BY <1>1, <1>5, <1>7, <2>1
<1>8. CASE x # 0
  <2>1. y = 0 /\ g = sig /\ x \in 1 .. n /\ c[x] # s[x]
    BY <1>4, <1>5, <1>8
  <2>2. SigHalf(2, c)[1].of = c /\ g[1].of = s
    BY <1>1, <1>2, <2>1 DEF SigHalf, Cell
  <2> QED BY <1>8, <2>1, <2>2
<1> QED BY <1>6, <1>7, <1>8

\* k cells of m from address a hold s.
Holds(m, a, s, k) == \A j \in 1 .. k : m[a + j - 1] = s[j]

\* Where a change of cell at of a sequence is in its first n cells and behind them.
InFirst(at, n) == IF at <= n THEN at ELSE 0
InRest(at, n) == IF at > n THEN at - n ELSE 0

\* A change is in one of the two parts, or nowhere.
LEMMA ChangedPlace ==
  ASSUME NEW n \in Nat, NEW k \in Nat, NEW at \in 0 .. n + k
  PROVE  /\ InFirst(at, n) \in 0 .. n /\ InRest(at, n) \in 0 .. k
         /\ InFirst(at, n) = 0 \/ InRest(at, n) = 0
         /\ InFirst(at, n) = 0 /\ InRest(at, n) = 0 <=> at = 0
  BY DEF InFirst, InRest

\* Memory that holds two sequences, one behind the other, with cell at changed, and
\* what its two parts then hold.
WholeAt(m, a, f, n, g, k, at) == Holds(m, a, Changed(f \o g, at), n + k)
PartsAt(m, a, f, n, g, k, at) ==
  /\ Cells(m, a, n) = Changed(f, InFirst(at, n))
  /\ Cells(m, a + n, k) = Changed(g, InRest(at, n))

\* The parts are changed where the whole is.
LEMMA ChangedParts ==
  ASSUME NEW n \in Nat, NEW k \in Nat, NEW f, NEW g, Elements(f, n), Elements(g, k),
         NEW at \in Nat, NEW m, NEW a \in Int, WholeAt(m, a, f, n, g, k, at)
  PROVE  PartsAt(m, a, f, n, g, k, at)
<1>0. PICK h, y, x, b : h = f \o g /\ y = InFirst(at, n) /\ x = InRest(at, n) /\ b = a + n
  OBVIOUS
<1>1. Joins(h, f, n, g, k)
  BY <1>0, Concatenated
<1>2. DOMAIN h = 1 .. n + k /\ DOMAIN f = 1 .. n /\ DOMAIN g = 1 .. k
  BY <1>1 DEF Joins, Elements
<1>3. \A j \in 1 .. n + k : m[a + j - 1] = IF j = at THEN ZeroCell ELSE h[j]
  BY <1>0, <1>2 DEF WholeAt, Holds, Changed
<1>4. ASSUME NEW i \in 1 .. n
      PROVE  m[a + i - 1] = IF i = y THEN ZeroCell ELSE f[i]
  <2>1. i \in 1 .. n + k /\ h[i] = f[i]
    BY <1>1 DEF Joins
  <2>2. i = at <=> i = y
    BY <1>0 DEF InFirst
  <2> QED BY <1>3, <2>1, <2>2
<1>5. ASSUME NEW i \in 1 .. k
      PROVE  m[b + i - 1] = IF i = x THEN ZeroCell ELSE g[i]
  <2>1. n + i \in 1 .. n + k /\ h[n + i] = g[i]
    BY <1>1 DEF Joins
  <2>2. n + i = at <=> i = x
    BY <1>0 DEF InRest
  <2>3. m[a + (n + i) - 1] = IF n + i = at THEN ZeroCell ELSE h[n + i]
    BY <1>3, <2>1
  <2>4. a + (n + i) - 1 = b + i - 1
    BY <1>0
  <2> QED BY <2>1, <2>2, <2>3, <2>4
<1>6. Cells(m, a, n) = Changed(f, y)
  BY <1>2, <1>4 DEF Cells, Changed
<1>7. Cells(m, b, k) = Changed(g, x)
  BY <1>2, <1>5 DEF Cells, Changed
<1> QED BY <1>0, <1>6, <1>7 DEF PartsAt

\* Where a change of cell y of the first n or of cell x behind them is in the whole.
InWhole(y, x, n) == IF x # 0 THEN n + x ELSE y

\* And the other way round: the whole is changed where one of its parts is.
PartsJoin(f, n, g, k, y, x) ==
  Changed(f, y) \o Changed(g, x) = Changed(f \o g, InWhole(y, x, n))

\* The parts joined are the whole with the change in its place.
LEMMA ChangedJoin ==
  ASSUME NEW n \in Nat, NEW k \in Nat, NEW f, NEW g, Elements(f, n), Elements(g, k),
         NEW y \in 0 .. n, NEW x \in 0 .. k, x = 0 \/ y = 0
  PROVE  PartsJoin(f, n, g, k, y, x)
<1>0. PICK z, d, e, c, h :
        /\ z = InWhole(y, x, n) /\ d = Changed(f, y) /\ e = Changed(g, x)
        /\ c = d \o e /\ h = f \o g
  OBVIOUS
<1>1. DOMAIN f = 1 .. n /\ DOMAIN g = 1 .. k
  BY DEF Elements
<1>3. Elements(d, n) /\ \A i \in 1 .. n : d[i] = IF i = y THEN ZeroCell ELSE f[i]
  BY <1>0, <1>1 DEF Changed, Elements
<1>4. Elements(e, k) /\ \A i \in 1 .. k : e[i] = IF i = x THEN ZeroCell ELSE g[i]
  BY <1>0, <1>1 DEF Changed, Elements
<1>6. Joins(c, d, n, e, k)
  BY <1>0, <1>3, <1>4, Concatenated
<1>8. Joins(h, f, n, g, k)
  BY <1>0, Concatenated
<1>9. ASSUME NEW i \in 1 .. n + k
      PROVE  c[i] = IF i = z THEN ZeroCell ELSE h[i]
  <2>1. CASE i \in 1 .. n
    <3>1. i = y <=> i = z
      BY <1>0, <2>1 DEF InWhole
    <3> QED BY <1>3, <1>6, <1>8, <2>1, <3>1 DEF Joins
  <2>2. CASE i \notin 1 .. n
    <3>1. PICK j \in 1 .. k : i = n + j
      <4>1. i - n \in 1 .. k /\ i = n + (i - n)
        BY <2>2
      <4> QED BY <4>1
    <3>2. j = x <=> i = z
      BY <1>0, <2>2, <3>1 DEF InWhole
    <3>3. c[i] = e[j] /\ h[i] = g[j]
      BY <1>6, <1>8, <3>1 DEF Joins
    <3> QED BY <1>4, <3>2, <3>3
  <2> QED BY <2>1, <2>2
<1>10. Elements(c, n + k) /\ DOMAIN h = 1 .. n + k
  BY <1>6, <1>8 DEF Joins, Elements
<1>11. c = Changed(h, z)
  BY <1>9, <1>10 DEF Changed, Elements
<1> QED BY <1>0, <1>11 DEF PartsJoin

\* The parts of what is sealed: no cell of a message is empty, and xor leaves the value.
LEMMA MessageCells ==
  ASSUME NEW fam, NEW n \in Nat
  PROVE  /\ Elements(BoxCipher(fam, n), n)
         /\ Filled(BoxCipher(fam, n), n)
         /\ Elements(AeadCipher(n), n)
         /\ Filled(AeadCipher(n), n)
         /\ Elements(Message(n), n)
         /\ Filled(Message(n), n)
<1>1. ASSUME NEW i \in 1 .. n
      PROVE  Plain(i - 1).b # 0 /\ DOMAIN Plain(i - 1) = {"b", "ks", "of"}
  BY DEF Plain, Cell
<1>2. ASSUME NEW c, NEW k, DOMAIN c = {"b", "ks", "of"}
      PROVE  Xored(c, k).b = c.b
  BY <1>2 DEF Xored
<1>3. ASSUME NEW i \in 1 .. n, NEW k
      PROVE  Xored(Plain(i - 1), k).b # 0
  BY <1>1, <1>2
<1>4. /\ Elements(BoxCipher(fam, n), n)
      /\ Filled(BoxCipher(fam, n), n)
  BY <1>3 DEF BoxCipher, Elements, Filled
<1>5. /\ Elements(AeadCipher(n), n)
      /\ Filled(AeadCipher(n), n)
  BY <1>3 DEF AeadCipher, Elements, Filled
<1>6. /\ Elements(Message(n), n)
      /\ Filled(Message(n), n)
  BY <1>1 DEF Message, Elements, Filled
<1> QED BY <1>4, <1>5, <1>6

\* MACs and the halves of signatures are MacLen cells.
LEMMA MacCells ==
  ASSUME NEW fam, NEW s, NEW w
  PROVE  Elements(Macs(fam, s), MacLen) /\ Elements(SigHalf(w, s), MacLen)
  BY StreamAssumption DEF Macs, SigHalf, Elements

\* The comparison in open_easy_afternm succeeds when no byte of the box was changed.
LEMMA OpenTest ==
  ASSUME NEW fam, NEW n \in Nat, NEW l, l = MacLen + n, NEW at \in 0 .. l, NEW t,
         t = Changed(BoxOf(fam, n), at), NEW m, NEW a \in Int, Holds(m, a, t, l)
  PROVE  Cells(m, a, MacLen) = Macs(fam, Cells(m, a + MacLen, n)) <=> at = 0
<1>1. PICK s : s = BoxCipher(fam, n)
  OBVIOUS
<1>2. Elements(s, n) /\ Filled(s, n)
  BY <1>1, MessageCells
<1>3. PICK mac : mac = Macs(fam, s)
  OBVIOUS
<1>4. Elements(mac, MacLen)
  BY <1>3, MacCells
<1>5. PICK h : h = mac \o s
  OBVIOUS
<1>6. t = Changed(h, at)
  BY <1>1, <1>3, <1>5 DEF BoxOf
<1>7. PICK y, x : y = InFirst(at, MacLen) /\ x = InRest(at, MacLen)
  OBVIOUS
<1>8. MacLen \in Nat
  BY StreamAssumption
<1>9. /\ y \in 0 .. MacLen /\ x \in 0 .. n /\ (x = 0 \/ y = 0)
      /\ x = 0 /\ y = 0 <=> at = 0
  BY <1>7, <1>8, ChangedPlace
<1>10. PICK g, c : g = Cells(m, a, MacLen) /\ c = Cells(m, a + MacLen, n)
  OBVIOUS
<1>11. g = Changed(mac, y) /\ c = Changed(s, x)
  <2>1. WholeAt(m, a, mac, MacLen, s, n, at)
    BY <1>5, <1>6 DEF WholeAt
  <2>2. PartsAt(m, a, mac, MacLen, s, n, at)
    BY <1>2, <1>4, <1>8, <2>1, ChangedParts
  <2> QED BY <1>7, <1>10, <2>2 DEF PartsAt
<1>12. g = Macs(fam, c) <=> x = 0 /\ y = 0
  BY <1>2, <1>3, <1>9, <1>11, MacVerifies
<1> QED BY <1>9, <1>10, <1>12

\* And so does that of the AEAD, where the MAC is behind the cipher.
LEMMA AeadTest ==
  ASSUME NEW n \in Nat, NEW l, l = n + MacLen, NEW at \in 0 .. l, NEW t,
         t = Changed(AeadOf(n), at), NEW m, Holds(m, 0, t, l)
  PROVE  Cells(m, n, MacLen) = Macs("ietf", Cells(m, 0, n)) <=> at = 0
<1>1. PICK s : s = AeadCipher(n)
  OBVIOUS
<1>2. Elements(s, n) /\ Filled(s, n)
  BY <1>1, MessageCells
<1>3. PICK mac : mac = Macs("ietf", s)
  OBVIOUS
<1>4. Elements(mac, MacLen)
  BY <1>3, MacCells
<1>5. PICK h : h = s \o mac
  OBVIOUS
<1>6. t = Changed(h, at)
  BY <1>1, <1>3, <1>5 DEF AeadOf
<1>7. PICK x, y : x = InFirst(at, n) /\ y = InRest(at, n)
  OBVIOUS
<1>8. MacLen \in Nat
  BY StreamAssumption
<1>9. /\ y \in 0 .. MacLen /\ x \in 0 .. n /\ (x = 0 \/ y = 0)
      /\ x = 0 /\ y = 0 <=> at = 0
  BY <1>7, <1>8, ChangedPlace
<1>10. PICK g, c : g = Cells(m, n, MacLen) /\ c = Cells(m, 0, n)
  OBVIOUS
<1>11. g = Changed(mac, y) /\ c = Changed(s, x)
  <2>1. WholeAt(m, 0, s, n, mac, MacLen, at)
    BY <1>5, <1>6 DEF WholeAt
  <2>2. PartsAt(m, 0, s, n, mac, MacLen, at)
    BY <1>2, <1>4, <1>8, <2>1, ChangedParts
  <2> QED BY <1>7, <1>10, <2>2 DEF PartsAt
<1>12. g = Macs("ietf", c) <=> x = 0 /\ y = 0
  BY <1>2, <1>3, <1>9, <1>11, MacVerifies
<1> QED BY <1>9, <1>10, <1>12

\* And that of naion_sign_ed25519_open, over both halves of the signature.
LEMMA SignTest ==
  ASSUME NEW n \in Nat, NEW l, l = (MacLen + MacLen) + n, NEW at \in 0 .. l, NEW t,
         t = Changed(SignedOf(n), at), NEW m, Holds(m, 0, t, l)
  PROVE  Cells(m, MacLen, MacLen)
           = SigHalf(2, Cells(m, 0, MacLen) \o Cells(m, MacLen + MacLen, n)) <=> at = 0
<1>1. PICK s, r : s = Message(n) /\ r = SigHalf(1, s)
  OBVIOUS
<1>2. Elements(s, n) /\ Filled(s, n)
  BY <1>1, MessageCells
<1>3. PICK d : d = r \o s
  OBVIOUS
<1>4. PICK sig, rs, h : sig = SigHalf(2, d) /\ rs = r \o sig /\ h = rs \o s
  OBVIOUS
<1>5. t = Changed(h, at)
  BY <1>1, <1>3, <1>4 DEF SignedOf
<1>6. Elements(r, MacLen) /\ Elements(sig, MacLen)
  BY <1>1, <1>4, MacCells
<1>7. MacLen \in Nat /\ MacLen + MacLen \in Nat
  BY StreamAssumption
<1>8. Elements(rs, MacLen + MacLen)
  BY <1>4, <1>6, <1>7, Concatenated DEF Joins
<1>9. Joins(d, r, MacLen, s, n)
  BY <1>2, <1>3, <1>6, <1>7, Concatenated
<1>10. PICK both : both = MacLen + MacLen
  OBVIOUS
<1>11. PICK u, x : u = InFirst(at, both) /\ x = InRest(at, both)
  OBVIOUS
<1>12. /\ u \in 0 .. MacLen + MacLen /\ x \in 0 .. n /\ (u = 0 \/ x = 0)
       /\ u = 0 /\ x = 0 <=> at = 0
  BY <1>7, <1>10, <1>11, ChangedPlace
<1>13. PICK y, z : y = InFirst(u, MacLen) /\ z = InRest(u, MacLen)
  OBVIOUS
<1>14. /\ y \in 0 .. MacLen /\ z \in 0 .. MacLen /\ (y = 0 \/ z = 0)
       /\ y = 0 /\ z = 0 <=> u = 0
  BY <1>7, <1>12, <1>13, ChangedPlace
<1>15. /\ Cells(m, 0, both) = Changed(rs, u)
       /\ Cells(m, both, n) = Changed(s, x)
  <2>1. both \in Nat /\ Elements(rs, both) /\ l = both + n /\ at \in Nat
    BY <1>7, <1>8, <1>10
  <2>2. WholeAt(m, 0, rs, both, s, n, at)
    BY <1>4, <1>5, <2>1 DEF WholeAt
  <2>3. PartsAt(m, 0, rs, both, s, n, at)
    BY <1>2, <2>1, <2>2, ChangedParts
  <2> QED BY <1>11, <2>1, <2>3 DEF PartsAt
<1>16. PICK w : w = Changed(rs, u)
  OBVIOUS
<1>17. Holds(m, 0, w, both)
  <2>1. w = [i \in 1 .. both |-> m[0 + i - 1]]
    BY <1>15, <1>16 DEF Cells
  <2> QED BY <2>1 DEF Holds
<1>18. /\ Cells(m, 0, MacLen) = Changed(r, y)
       /\ Cells(m, MacLen, MacLen) = Changed(sig, z)
  <2>1. u \in Nat
    BY <1>7, <1>12
  <2>2. WholeAt(m, 0, r, MacLen, sig, MacLen, u)
    BY <1>4, <1>10, <1>16, <1>17 DEF WholeAt
  <2>3. PartsAt(m, 0, r, MacLen, sig, MacLen, u)
    BY <1>6, <1>7, <2>1, <2>2, ChangedParts
  <2> QED BY <1>7, <1>13, <2>3 DEF PartsAt
<1>19. PICK v, c : v = InWhole(y, x, MacLen) /\ c = Changed(r, y) \o Changed(s, x)
  OBVIOUS
<1>20. x = 0 \/ y = 0
  BY <1>12, <1>14
<1>21. c = Changed(d, v)
  <2>1. PartsJoin(r, MacLen, s, n, y, x)
    BY <1>2, <1>6, <1>7, <1>12, <1>14, <1>20, ChangedJoin
  <2> QED BY <1>3, <1>19, <2>1 DEF PartsJoin
<1>22. Elements(d, MacLen + n) /\ Filled(d, MacLen + n)
  <2>1. \A i \in 1 .. MacLen : r[i].b # 0
    <3>1. \A i \in 1 .. MacLen : r[i].b = -100 * 1 - i
      BY <1>1 DEF SigHalf, Cell
    <3> QED BY <1>7, <3>1
  <2>2. ASSUME NEW i \in 1 .. MacLen + n PROVE d[i].b # 0
    <3>1. CASE i \in 1 .. MacLen
      BY <1>9, <2>1, <3>1 DEF Joins
    <3>2. CASE i \notin 1 .. MacLen
      <4>1. i - MacLen \in 1 .. n /\ i = MacLen + (i - MacLen)
        BY <1>7, <3>2
      <4>2. d[MacLen + (i - MacLen)] = s[i - MacLen]
        BY <1>9, <4>1 DEF Joins
      <4> QED BY <1>2, <4>1, <4>2 DEF Filled
    <3> QED BY <3>1, <3>2
  <2> QED BY <1>9, <2>2 DEF Joins, Filled
<1>23. PICK g : g = Changed(sig, z)
  OBVIOUS
<1>24. /\ v \in 0 .. MacLen + n /\ (v = 0 \/ z = 0)
       /\ v = 0 /\ z = 0 <=> at = 0
  BY <1>7, <1>12, <1>14, <1>19 DEF InWhole
<1>25. g = SigHalf(2, c) <=> v = 0 /\ z = 0
  <2>1. PICK k : k = MacLen + n
    OBVIOUS
  <2>2. /\ k \in Nat /\ Elements(d, k) /\ v \in 0 .. k
        /\ Filled(d, k)
    BY <1>7, <1>22, <1>24, <2>1
  <2> QED BY <1>4, <1>14, <1>21, <1>23, <1>24, <2>2, SignatureVerifies
<1>26. /\ Cells(m, MacLen, MacLen) = g
       /\ Cells(m, 0, MacLen) \o Cells(m, MacLen + MacLen, n) = c
  <2>1. both = MacLen + MacLen
    BY <1>10
  <2> QED BY <1>15, <1>18, <1>19, <1>23, <2>1
<1> QED BY <1>24, <1>25, <1>26

\* The input of a call is the message or, to be opened, what was sealed, perhaps with one
\* cell changed, and bad says so.
InputMade ==
  \E at \in 0 .. Len(InputOf(call.op, call.fam, call.n)) :
    /\ call.input = Changed(InputOf(call.op, call.fam, call.n), at)
    /\ call.bad <=> at # 0
    /\ at # 0 => Opening(call.op)

\* Until a call has verified its input nothing is written but the buffer of its own,
\* and then it reads what the caller gave.
VerifyInv ==
  /\ StreamShape
  /\ InputMade /\ NothingBeforeVerified
  /\ Opening(call.op) =>
       /\ todo.phase \in {"gather", "verify", "rejected"} => DOMAIN mem = Addresses
       /\ todo.phase \in {"gather", "verify"} =>
            todo.src = IF call.op = "open_detached" THEN Scratch ELSE 0
       /\ todo.phase = "verify" => Holds(mem, todo.src, call.input, Len(call.input))

\* How long the input is.
SealedLen(op, n) ==
  IF op = "sign_open" THEN (MacLen + MacLen) + n
  ELSE IF op = "aead_open" THEN n + MacLen
  ELSE IF op \in {"open", "open_detached"} THEN MacLen + n ELSE n

\* What is sealed is as long as the lengths of its parts.
LEMMA InputLength ==
  ASSUME NEW op, NEW fam, NEW n \in Nat, NEW s, s = InputOf(op, fam, n)
  PROVE  /\ Elements(s, SealedLen(op, n)) /\ Len(s) = SealedLen(op, n)
         /\ SealedLen(op, n) \in Nat /\ SealedLen(op, n) <= n + 2 * MacLen
<1>1. MacLen \in Nat
  BY StreamAssumption
<1>2. CASE op \in {"open", "open_detached"}
  <2>1. PICK c, g : c = BoxCipher(fam, n) /\ g = Macs(fam, c)
    OBVIOUS
  <2>2. s = g \o c
    BY <1>2, <2>1 DEF InputOf, BoxOf
  <2>3. Joins(s, g, MacLen, c, n)
    BY <1>1, <2>1, <2>2, MessageCells, MacCells, Concatenated
  <2> QED BY <1>1, <1>2, <2>3 DEF Joins, SealedLen
<1>3. CASE op = "aead_open"
  <2>1. PICK c, g : c = AeadCipher(n) /\ g = Macs("ietf", c)
    OBVIOUS
  <2>2. s = c \o g
    BY <1>3, <2>1 DEF InputOf, AeadOf
  <2>3. Joins(s, c, n, g, MacLen)
    BY <1>1, <2>1, <2>2, MessageCells, MacCells, Concatenated
  <2> QED BY <1>1, <1>3, <2>3 DEF Joins, SealedLen
<1>4. CASE op = "sign_open"
  <2>1. PICK c, g : c = Message(n) /\ g = SigHalf(1, c)
    OBVIOUS
  <2>2. PICK h : h = SigHalf(2, g \o c)
    OBVIOUS
  <2>3. PICK r : r = g \o h
    OBVIOUS
  <2>4. s = r \o c
    BY <1>4, <2>1, <2>2, <2>3 DEF InputOf, SignedOf
  <2>5. Joins(r, g, MacLen, h, MacLen)
    BY <1>1, <2>1, <2>2, <2>3, MacCells, Concatenated
  <2>6. PICK k : k = MacLen + MacLen
    OBVIOUS
  <2>7. k \in Nat /\ Elements(r, k)
    BY <1>1, <2>5, <2>6 DEF Joins
  <2>8. Joins(s, r, k, c, n)
    BY <2>1, <2>4, <2>7, MessageCells, Concatenated
  <2> QED BY <1>1, <1>4, <2>6, <2>8 DEF Joins, SealedLen
<1>5. CASE op \notin {"open", "open_detached", "aead_open", "sign_open"}
  <2>1. s = Message(n)
    BY <1>5 DEF InputOf
  <2>2. Elements(s, n)
    BY <2>1, MessageCells
  <2>3. Len(s) = n
    BY <2>2, LengthOfElements DEF Elements
  <2> QED BY <1>1, <1>5, <2>2, <2>3 DEF SealedLen
<1> QED BY <1>2, <1>3, <1>4, <1>5

\* A changed sequence is as long as it was.
LEMMA ChangedLength ==
  ASSUME NEW k \in Nat, NEW f, Elements(f, k), NEW at, NEW g, g = Changed(f, at)
  PROVE  Elements(g, k) /\ Len(g) = k
<1>1. Elements(g, k)
  BY DEF Elements, Changed
<1> QED BY <1>1, LengthOfElements DEF Elements

\* What the input of a call is, and how long.
LEMMA CallInput ==
  ASSUME StreamShape, InputMade
  PROVE  /\ call.n \in Nat /\ Len(call.input) = SealedLen(call.op, call.n)
         /\ SealedLen(call.op, call.n) \in Nat
         /\ \E at \in 0 .. SealedLen(call.op, call.n) :
              /\ call.input = Changed(InputOf(call.op, call.fam, call.n), at)
              /\ call.bad <=> at # 0
              /\ at # 0 => Opening(call.op)
<1>1. call.n \in Nat
  BY StreamAssumption DEF StreamShape
<1>2. PICK s : s = InputOf(call.op, call.fam, call.n)
  OBVIOUS
<1>3. PICK at \in 0 .. Len(s) :
        call.input = Changed(s, at) /\ (call.bad <=> at # 0) /\ (at # 0 => Opening(call.op))
  BY <1>2 DEF InputMade
<1>4. PICK k : k = SealedLen(call.op, call.n)
  OBVIOUS
<1>5. Elements(s, k) /\ Len(s) = k /\ k \in Nat
  BY <1>1, <1>2, <1>4, InputLength
<1>6. Len(call.input) = k
  BY <1>3, <1>5, ChangedLength
<1> QED BY <1>1, <1>2, <1>3, <1>4, <1>5, <1>6

\* The memory has room for a sealed message twice.
LEMMA Room ==
  \E far \in Nat :
    /\ \A n \in MsgLens : n <= far
    /\ \A s \in Shifts : -(far + 2 * MacLen) <= s /\ s <= far + 4 * MacLen
    /\ Addresses = -(far + 3 * MacLen) .. 3 * (far + 3 * MacLen)
    /\ Scratch = 2 * (far + 3 * MacLen)
<1>1. PICK far : far = CHOOSE n \in MsgLens : \A o \in MsgLens : o <= n
  OBVIOUS
<1>2. far \in MsgLens /\ \A o \in MsgLens : o <= far
  BY <1>1, StreamAssumption
<1>3. PICK top \in MsgLens :
        /\ \A n \in MsgLens : n <= top
        /\ \A s \in Shifts : -(top + 2 * MacLen) <= s /\ s <= top + 4 * MacLen
  BY StreamAssumption
<1>4. far \in Nat /\ top = far
  BY <1>2, <1>3, StreamAssumption
<1> QED BY <1>1, <1>2, <1>3, <1>4 DEF Addresses, Scratch

\* The input, and the copy of it in the buffer of its own, are in memory.
LEMMA RoomForInput ==
  ASSUME NEW n \in MsgLens, NEW k \in Nat, k <= n + 2 * MacLen, NEW j \in 1 .. k
  PROVE  /\ j - 1 \in Addresses /\ j - 1 < Scratch /\ Scratch \in Int
         /\ Scratch + j - 1 \in Addresses
<1>1. PICK far \in Nat :
        /\ \A i \in MsgLens : i <= far
        /\ Addresses = -(far + 3 * MacLen) .. 3 * (far + 3 * MacLen)
        /\ Scratch = 2 * (far + 3 * MacLen)
  BY Room
<1>2. MacLen \in Nat \ {0} /\ n \in Nat
  BY StreamAssumption
<1>3. n <= far
  BY <1>1
<1>4. PICK s, adr : s = Scratch /\ adr = Addresses
  OBVIOUS
<1>5. /\ adr = -(far + 3 * MacLen) .. 3 * (far + 3 * MacLen)
      /\ s = 2 * (far + 3 * MacLen)
  BY <1>1, <1>4
<1>6. j - 1 \in adr /\ j - 1 < s /\ s \in Int /\ s + j - 1 \in adr
  BY ONLY <1>2, <1>3, <1>5, k \in Nat, k <= n + 2 * MacLen, j \in 1 .. k
<1> QED BY <1>4, <1>6

\* A call starts with its input in memory and nothing else.
LEMMA MemoryAtStart ==
  ASSUME StreamInit
  PROVE  /\ InputMade
         /\ mem = [a \in DOMAIN mem |-> mem[a]] /\ DOMAIN mem = Addresses
         /\ \A a \in Addresses : mem[a] = IF 0 <= a /\ a < Len(call.input)
                                        THEN call.input[a + 1] ELSE ZeroCell
         /\ Holds(mem, 0, call.input, Len(call.input))
         /\ todo = Start(call.op, call.fam, call.n, call.shift)
<1>1. StreamShape
  BY ShapeAtStart
<1>2. PICK op \in Ops, n \in MsgLens, shift \in Shifts :
        \E fam \in Families(op) :
          \E at \in {0} \cup (IF Opening(op) THEN 1 .. Len(InputOf(op, fam, n)) ELSE {}) :
            /\ call = [op |-> op, fam |-> fam, n |-> n, shift |-> shift, bad |-> at # 0,
                       input |-> Changed(InputOf(op, fam, n), at)]
            /\ todo = Start(op, fam, n, shift)
  BY DEF StreamInit
<1>3. PICK fam \in Families(op) :
        \E at \in {0} \cup (IF Opening(op) THEN 1 .. Len(InputOf(op, fam, n)) ELSE {}) :
          /\ call = [op |-> op, fam |-> fam, n |-> n, shift |-> shift, bad |-> at # 0,
                     input |-> Changed(InputOf(op, fam, n), at)]
          /\ todo = Start(op, fam, n, shift)
  BY <1>2
<1>4. PICK at \in {0} \cup (IF Opening(op) THEN 1 .. Len(InputOf(op, fam, n)) ELSE {}) :
        /\ call = [op |-> op, fam |-> fam, n |-> n, shift |-> shift, bad |-> at # 0,
                   input |-> Changed(InputOf(op, fam, n), at)]
        /\ todo = Start(op, fam, n, shift)
  BY <1>3
<1>5. call.op = op /\ call.fam = fam /\ call.n = n /\ call.shift = shift
      /\ (call.bad <=> at # 0) /\ call.input = Changed(InputOf(op, fam, n), at)
  BY <1>4
<1>6. n \in Nat
  BY StreamAssumption
<1>7. PICK s, k : s = InputOf(op, fam, n) /\ k = SealedLen(op, n)
  OBVIOUS
<1>8. Elements(s, k) /\ Len(s) = k /\ k \in Nat /\ k <= n + 2 * MacLen
  BY <1>6, <1>7, InputLength
<1>9. at \in 0 .. Len(s) /\ (at # 0 => Opening(op))
  <2>1. CASE Opening(op)
    <3>1. at \in {0} \cup 1 .. Len(s)
      BY <1>7, <2>1
    <3> QED BY <1>8, <2>1, <3>1
  <2>2. CASE ~Opening(op)
    <3>1. at = 0
      BY <2>2
    <3> QED BY <1>8, <3>1
  <2> QED BY <2>1, <2>2
<1>10. InputMade
  BY <1>5, <1>7, <1>9 DEF InputMade
<1>11. Len(call.input) = k
  BY <1>5, <1>7, <1>8, ChangedLength
<1>12. mem = Stored([a \in Addresses |-> ZeroCell], 0, call.input)
  BY DEF StreamInit
<1>13. mem = [a \in Addresses |-> IF 0 <= a /\ a < 0 + k THEN call.input[a - 0 + 1] ELSE ZeroCell]
  BY <1>11, <1>12 DEF Stored
<1>14. Addresses \subseteq Int
  BY DEF Addresses
<1>15. \A a \in Addresses : mem[a] = IF 0 <= a /\ a < k THEN call.input[a + 1] ELSE ZeroCell
  BY <1>8, <1>13, <1>14
<1>16. Holds(mem, 0, call.input, k)
  <2>1. ASSUME NEW j \in 1 .. k PROVE mem[0 + j - 1] = call.input[j]
    <3>1. j - 1 \in Addresses
      BY <1>8, RoomForInput
    <3> QED BY <1>8, <1>15, <3>1
  <2> QED BY <2>1 DEF Holds
<1>17. mem = [a \in DOMAIN mem |-> mem[a]] /\ DOMAIN mem = Addresses
  BY <1>13
<1> QED BY <1>4, <1>5, <1>10, <1>11, <1>15, <1>16, <1>17

\* So nothing is written yet.
LEMMA VerifyAtStart ==
  ASSUME StreamInit
  PROVE  VerifyInv
<1>1. StreamShape
  BY ShapeAtStart
<1>2. /\ InputMade /\ DOMAIN mem = Addresses
      /\ \A a \in Addresses : mem[a] = IF 0 <= a /\ a < Len(call.input)
                                     THEN call.input[a + 1] ELSE ZeroCell
      /\ Holds(mem, 0, call.input, Len(call.input))
      /\ todo = Start(call.op, call.fam, call.n, call.shift)
  BY MemoryAtStart
<1> SUFFICES ASSUME Opening(call.op) PROVE VerifyInv
  BY <1>1, <1>2 DEF VerifyInv, NothingBeforeVerified
<1>3. call.op \in {"open", "open_detached", "aead_open", "sign_open"}
  BY DEF Opening
<1>4. /\ todo.phase = IF call.op = "open_detached" THEN "gather" ELSE "verify"
      /\ todo.src = IF call.op = "open_detached" THEN Scratch ELSE 0
  BY <1>2, <1>3 DEF Start
<1>5. NothingBeforeVerified
  BY <1>2, <1>4 DEF NothingBeforeVerified
<1> QED BY <1>1, <1>2, <1>3, <1>4, <1>5 DEF VerifyInv

\* Once a call has written nothing but what it verified, it stays so.
LEMMA VerifyStep ==
  ASSUME VerifyInv, StreamNext
  PROVE  VerifyInv'
<1>1. StreamShape /\ StreamShape' /\ call' = call /\ Moves
  BY ShapeStep, StepsMove DEF VerifyInv
<1>2. InputMade /\ InputMade'
  BY <1>1 DEF VerifyInv, InputMade
<1> SUFFICES ASSUME Opening(call.op) PROVE VerifyInv'
  BY <1>1, <1>2 DEF VerifyInv, NothingBeforeVerified
<1>3. PICK k : k = SealedLen(call.op, call.n)
  OBVIOUS
<1>4. /\ call.op \in {"open", "open_detached", "aead_open", "sign_open"} /\ call.n \in Nat
      /\ Len(call.input) = k
      /\ \E at \in 0 .. k :
           /\ call.input = Changed(InputOf(call.op, call.fam, call.n), at)
           /\ call.bad <=> at # 0
  BY <1>1, <1>2, <1>3, CallInput DEF Opening
<1>5. k \in Nat /\ k <= call.n + 2 * MacLen
  BY <1>3, <1>4, InputLength
<1>6. call.n \in MsgLens
  BY <1>1 DEF StreamShape
<1>7. PICK at \in 0 .. k :
        /\ call.input = Changed(InputOf(call.op, call.fam, call.n), at)
        /\ call.bad <=> at # 0
  BY <1>4
<1>8. MacLen \in Nat
  BY StreamAssumption
<1>9. todo.phase = "verify" => Holds(mem, todo.src, call.input, k)
  BY <1>4 DEF VerifyInv
<1>10. DOMAIN todo = {"phase", "src", "dst", "left", "ctr", "first"}
  BY <1>1 DEF StreamShape
\* A verdict leaves memory alone and is right.
<1>11. ASSUME todo.phase = "verify", mem' = mem,
              todo'.phase \in {"first", "stream", "release", "rejected"},
              todo'.phase = "rejected" <=> call.bad
       PROVE  VerifyInv'
  BY <1>1, <1>2, <1>11 DEF VerifyInv, NothingBeforeVerified
<1>12. CASE OpenVerify
  <2>1. todo.phase = "verify" /\ call.op \in {"open", "open_detached"} /\ mem' = mem
    BY <1>12 DEF OpenVerify
  <2>2. todo.src \in Int /\ Holds(mem, todo.src, call.input, k)
    BY <1>5, <1>6, <1>9, <2>1, Room, <1>8 DEF VerifyInv
  <2>3. PICK b : b = todo.src
    OBVIOUS
  <2>4. k = MacLen + call.n /\ call.input = Changed(BoxOf(call.fam, call.n), at)
    BY <1>3, <1>7, <2>1 DEF SealedLen, InputOf
  <2>5. Cells(mem, b, MacLen) = Macs(call.fam, Cells(mem, b + MacLen, call.n)) <=> at = 0
    BY <1>4, <2>2, <2>3, <2>4, OpenTest
  <2>6. \/ at = 0 /\ todo'.phase = "first"
        \/ at # 0 /\ todo'.phase = "rejected"
    BY <1>10, <1>12, <2>3, <2>5 DEF OpenVerify
  <2> QED BY <1>7, <1>11, <2>1, <2>6
<1>13. CASE AeadVerify
  <2>1. todo.phase = "verify" /\ call.op = "aead_open" /\ mem' = mem
    BY <1>13 DEF AeadVerify
  <2>2. Holds(mem, 0, call.input, k)
    BY <1>9, <2>1 DEF VerifyInv
  <2>3. k = call.n + MacLen /\ call.input = Changed(AeadOf(call.n), at)
    BY <1>3, <1>7, <2>1 DEF SealedLen, InputOf
  <2>4. Cells(mem, call.n, MacLen) = Macs("ietf", Cells(mem, 0, call.n)) <=> at = 0
    BY <1>4, <2>2, <2>3, AeadTest
  <2>5. \/ at = 0 /\ todo'.phase = "stream"
        \/ at # 0 /\ todo'.phase = "rejected"
    BY <1>10, <1>13, <2>4 DEF AeadVerify, Phase
  <2> QED BY <1>7, <1>11, <2>1, <2>5
<1>14. CASE SignVerify
  <2>1. todo.phase = "verify" /\ call.op = "sign_open" /\ mem' = mem
    BY <1>14 DEF SignVerify
  <2>2. Holds(mem, 0, call.input, k)
    BY <1>9, <2>1 DEF VerifyInv
  <2>3. k = (MacLen + MacLen) + call.n /\ call.input = Changed(SignedOf(call.n), at)
    BY <1>3, <1>7, <2>1 DEF SealedLen, InputOf
  <2>4. Cells(mem, MacLen, MacLen)
           = SigHalf(2, Cells(mem, 0, MacLen) \o Cells(mem, MacLen + MacLen, call.n)) <=> at = 0
    BY <1>4, <2>2, <2>3, SignTest
  <2>5. 2 * MacLen = MacLen + MacLen
    BY <1>8
  <2>6. \/ at = 0 /\ todo'.phase = "release"
        \/ at # 0 /\ todo'.phase = "rejected"
    BY <1>10, <1>14, <2>4, <2>5 DEF SignVerify, Phase
  <2> QED BY <1>7, <1>11, <2>1, <2>6
<1>15. CASE OpenGather
  <2>0. todo.phase = "gather" /\ call.op = "open_detached"
    BY <1>1, <1>4, <1>15 DEF OpenGather, StreamShape, PhasesOf
  <2>1. /\ todo.phase = "gather" /\ call.op = "open_detached" /\ todo.src = Scratch
        /\ todo'.phase = "verify" /\ todo'.src = Scratch
        /\ mem' = Stored(mem, Scratch, Cells(mem, 0, MacLen + call.n))
        /\ DOMAIN mem = Addresses
    BY <1>10, <1>15, <2>0 DEF OpenGather, Phase, VerifyInv
  <2>2. k = MacLen + call.n
    BY <1>3, <2>1 DEF SealedLen
  <2>3. PICK c : c = Cells(mem, 0, k)
    OBVIOUS
  <2>4. Elements(c, k) /\ Len(c) = k
    <3>1. Elements(c, k)
      BY <2>3 DEF Cells, Elements
    <3> QED BY <1>5, <3>1, LengthOfElements DEF Elements
  <2>5. mem' = [a \in Addresses |-> IF Scratch <= a /\ a < Scratch + k
                                    THEN c[a - Scratch + 1] ELSE mem[a]]
    BY <2>1, <2>2, <2>3, <2>4 DEF Stored
  <2>6. Scratch \in Int /\ Addresses \subseteq Int
    BY Room, <1>8
  <2>7. \A a \in Addresses : a < Scratch => mem'[a] = mem[a]
    BY <1>5, <2>5, <2>6
  <2>8. ASSUME NEW j \in 1 .. k PROVE mem'[Scratch + j - 1] = call.input[j]
    <3>1. j - 1 \in Addresses /\ j - 1 < Scratch /\ Scratch + j - 1 \in Addresses
      BY <1>5, <1>6, RoomForInput
    <3>2. mem[j - 1] = call.input[j]
      <4>1. mem[j - 1] = IF 0 <= j - 1 /\ j - 1 < k THEN call.input[(j - 1) + 1] ELSE ZeroCell
        BY <1>4, <2>1, <3>1 DEF VerifyInv, NothingBeforeVerified
      <4> QED BY <1>5, <4>1
    <3>3. c[j] = mem[j - 1]
      BY <1>5, <2>3 DEF Cells
    <3>4. mem'[Scratch + j - 1] = c[j]
      <4>1. PICK a : a = Scratch + j - 1
        OBVIOUS
      <4>2. Scratch <= a /\ a < Scratch + k /\ a - Scratch + 1 = j /\ a \in Addresses
        BY <1>5, <2>6, <3>1, <4>1
      <4>3. mem'[a] = c[a - Scratch + 1]
        BY <2>5, <4>2
      <4> QED BY <4>1, <4>2, <4>3
    <3> QED BY <3>2, <3>3, <3>4
  <2>9. Holds(mem', Scratch, call.input, k)
    BY <2>8 DEF Holds
  <2>10. DOMAIN mem' = Addresses
    BY <2>5
  <2>11. NothingBeforeVerified'
    BY <1>1, <2>1, <2>7 DEF VerifyInv, NothingBeforeVerified
  <2> QED BY <1>1, <1>2, <1>4, <2>1, <2>9, <2>10, <2>11 DEF VerifyInv
\* Behind the verdict the call is one whose input was not changed.
<1>16. ASSUME todo.phase \in {"first", "stream", "release"},
              todo'.phase \in {"stream", "done"}
       PROVE  VerifyInv'
  BY <1>1, <1>2, <1>16 DEF VerifyInv, NothingBeforeVerified
<1>17. ASSUME NEW next, LoopBlock(next) PROVE VerifyInv'
  BY <1>10, <1>16, <1>17 DEF LoopBlock
<1>18. CASE StreamEnd
  BY <1>4, <1>10, <1>16, <1>18 DEF StreamEnd, Phase
<1>19. CASE OpenFirst
  BY <1>10, <1>16, <1>19 DEF OpenFirst
<1>20. CASE SignRelease
  BY <1>10, <1>16, <1>20 DEF SignRelease, Phase
\* The other calls do not open.
<1>21. ~(EasyFirst \/ EasyMac \/ AeadMac)
  BY <1>4 DEF EasyFirst, EasyMac, AeadMac
<1>22. ~(SealScatter \/ SignR \/ SignS \/ SignMove)
  BY <1>1, <1>4 DEF StreamShape, PhasesOf, SealScatter, SignR, SignS, SignMove
<1> QED BY <1>12, <1>13, <1>14, <1>15, <1>17, <1>18, <1>19, <1>20, <1>21, <1>22, StepIsACase
        DEF StepCases

\* VerifyInv holds of every call.
THEOREM VerifyInvariant == StreamSpec => []VerifyInv
<1>1. StreamInit => VerifyInv
  BY VerifyAtStart
<1>2. VerifyInv /\ [StreamNext]_streamVars => VerifyInv'
  <2> SUFFICES ASSUME VerifyInv, UNCHANGED streamVars PROVE VerifyInv'
    BY VerifyStep
  <2>1. mem' = mem /\ call' = call /\ todo' = todo
    BY DEF streamVars
  <2> QED BY <2>1 DEF VerifyInv, StreamShape, NothingBeforeVerified, InputMade
<1> QED BY <1>1, <1>2, PTL DEF StreamSpec

\* No opening call writes to its caller's memory before it verified the whole input, none
\* accepts an input of which a byte was changed, and none rejects one that was not.
THEOREM PlaintextOnlyAfterVerification == StreamSpec => []NothingBeforeVerified
<1>1. VerifyInv => NothingBeforeVerified
  BY DEF VerifyInv
<1> QED BY <1>1, VerifyInvariant, PTL

(***************************************************************************)
(* What a loop over bytes does, byte after byte.                           *)
(***************************************************************************)
\* A set of numbers has a least one: the initial segments of Nat are well-founded.
LEMMA LeastNumber ==
  ASSUME NEW T, T \subseteq Nat, T # {}
  PROVE  \E n \in T : \A k \in T : n <= k
<1> DEFINE F == {0 .. n : n \in T}
<1>1. \A n \in Nat : IsFiniteSet(0 .. n)
  <2> SUFFICES ASSUME NEW n \in Nat PROVE IsFiniteSet(0 .. n)
    OBVIOUS
  <2>1. 0 .. n \in SUBSET Nat /\ \A s \in 0 .. n : s <= n
    OBVIOUS
  <2> QED BY <2>1, FS_BoundedSetOfNaturals
<1>2. F \subseteq FiniteSubsetsOf(Nat) /\ F # {}
  <2>1. \A n \in T : 0 .. n \subseteq Nat /\ IsFiniteSet(0 .. n)
    BY <1>1
  <2>2. F \subseteq FiniteSubsetsOf(Nat)
    BY <2>1 DEF FiniteSubsetsOf
  <2>3. F # {}
    OBVIOUS
  <2> QED BY <2>2, <2>3
<1>3. PICK x \in F : \A y \in F : ~(<<y, x>> \in StrictSubsetOrdering(Nat))
  <2> HIDE DEF F
  <2>1. IsWellFoundedOn(StrictSubsetOrdering(Nat), FiniteSubsetsOf(Nat))
    BY FS_StrictSubsetOrderingWellFounded
  <2> QED BY <1>2, <2>1, WFMin
<1>4. PICK n \in T : x = 0 .. n
  BY <1>3
<1>5. ASSUME NEW k \in T, k < n PROVE FALSE
  <2>1. 0 .. k \in F /\ k \in Nat /\ n \in Nat
    OBVIOUS
  <2>2. 0 .. k \subseteq 0 .. n /\ 0 .. k # 0 .. n /\ 0 .. k \subseteq Nat /\ 0 .. n \subseteq Nat
    <3>1. n \in 0 .. n /\ n \notin 0 .. k
      BY <1>5, <2>1
    <3> QED BY <1>5, <2>1, <3>1
  <2>3. <<0 .. k, 0 .. n>> \in StrictSubsetOrdering(Nat)
    BY <2>2 DEF StrictSubsetOrdering
  <2> QED BY <1>3, <1>4, <2>1, <2>3
<1>6. \A k \in T : n <= k
  BY <1>5
<1> QED BY <1>4, <1>6

\* The memories that the loop of XorRun goes through.
XorSteps(f, m, src, dst, take, fam, ctr, from) ==
  f = [n \in 0 .. take |->
         IF n = 0 THEN m
         ELSE [f[n - 1] EXCEPT
                 ![dst + n - 1] = Xored(f[n - 1][src + n - 1], KeyByte(fam, ctr, from + n - 1))]]

\* The memory when n bytes are done and none of them was read after it was written.
XorDone(m, src, dst, n, fam, ctr, from) ==
  [a \in DOMAIN m |-> IF dst <= a /\ a < dst + n
                      THEN Xored(m[src + (a - dst)], KeyByte(fam, ctr, from + (a - dst)))
                      ELSE m[a]]

\* An output that is apart from the input or runs behind it is not read again.
LEMMA XorRunResult ==
  ASSUME NEW m, m = [a \in DOMAIN m |-> m[a]], DOMAIN m \subseteq Int,
         NEW src \in Int, NEW dst \in Int, NEW take \in Nat, NEW fam, NEW ctr, NEW from \in Nat,
         \A i \in 0 .. take - 1 : dst + i \in DOMAIN m /\ src + i \in DOMAIN m,
         dst <= src \/ dst >= src + take
  PROVE  XorRun(m, src, dst, take, fam, ctr, from) = XorDone(m, src, dst, take, fam, ctr, from)
<1> DEFINE G(n) == XorDone(m, src, dst, n, fam, ctr, from)
           K(n) == KeyByte(fam, ctr, from + n - 1)
           S(h, n) == [h EXCEPT ![dst + n - 1] = Xored(h[src + n - 1], K(n))]
           g == [n \in 0 .. take |-> G(n)]
<1>1. G(0) = m
  <2>1. \A a \in DOMAIN m : ~(dst <= a /\ a < dst + 0)
    OBVIOUS
  <2>2. G(0) = [a \in DOMAIN m |-> m[a]]
    BY <2>1 DEF XorDone
  <2> QED BY <2>2
<1>2. ASSUME NEW n \in 1 .. take PROVE G(n) = S(G(n - 1), n)
  <2>1. dst + n - 1 \in DOMAIN m /\ src + n - 1 \in DOMAIN m
    <3>1. n - 1 \in 0 .. take - 1 /\ dst + n - 1 = dst + (n - 1) /\ src + n - 1 = src + (n - 1)
      OBVIOUS
    <3>2. dst + (n - 1) \in DOMAIN m /\ src + (n - 1) \in DOMAIN m
      BY <3>1
    <3> QED BY <3>1, <3>2
  <2>2. G(n - 1)[src + n - 1] = m[src + n - 1]
    <3>1. ~(dst <= src + n - 1 /\ src + n - 1 < dst + (n - 1))
      OBVIOUS
    <3> QED BY <2>1, <3>1 DEF XorDone
  <2>3. PICK v, h : v = Xored(m[src + n - 1], K(n)) /\ h = G(n - 1)
    OBVIOUS
  <2>4. S(G(n - 1), n) = [h EXCEPT ![dst + n - 1] = v]
    BY <2>2, <2>3
  <2>5. DOMAIN h = DOMAIN m
    BY <2>3 DEF XorDone
  <2>6. ASSUME NEW a \in DOMAIN m PROVE G(n)[a] = [h EXCEPT ![dst + n - 1] = v][a]
    <3>1. CASE a = dst + n - 1
      <4>1. dst <= a /\ a < dst + n /\ a - dst = n - 1
        BY <3>1
      <4>2. G(n)[a] = Xored(m[src + (a - dst)], KeyByte(fam, ctr, from + (a - dst)))
        BY <4>1 DEF XorDone
      <4>3. src + (a - dst) = src + n - 1 /\ from + (a - dst) = from + n - 1
        BY <4>1
      <4>4. G(n)[a] = v
        BY <2>3, <4>2, <4>3
      <4> QED BY <2>1, <2>5, <3>1, <4>4
    <3>2. CASE a # dst + n - 1
      <4>1. dst <= a /\ a < dst + n <=> dst <= a /\ a < dst + (n - 1)
        BY <3>2
      <4>2. G(n)[a] = G(n - 1)[a]
        BY <4>1 DEF XorDone
      <4> QED BY <2>3, <2>5, <3>2, <4>2
    <3> QED BY <3>1, <3>2
  <2>7. G(n) = [a \in DOMAIN m |-> G(n)[a]]
    BY DEF XorDone
  <2>8. PICK e : e = [h EXCEPT ![dst + n - 1] = v]
    OBVIOUS
  <2>9. e = [a \in DOMAIN m |-> e[a]]
    BY <2>5, <2>8
  <2>10. \A a \in DOMAIN m : G(n)[a] = e[a]
    BY <2>6, <2>8
  <2>11. PICK q : q = G(n)
    OBVIOUS
  <2>12. q = e
    BY <2>7, <2>9, <2>10, <2>11
  <2> QED BY <2>4, <2>8, <2>11, <2>12
<1>3. XorSteps(g, m, src, dst, take, fam, ctr, from)
  <2>1. ASSUME NEW n \in 0 .. take
        PROVE  g[n] = IF n = 0 THEN m ELSE S(g[n - 1], n)
    <3>1. CASE n = 0
      BY <1>1, <3>1
    <3>2. CASE n # 0
      <4>1. n \in 1 .. take /\ n - 1 \in 0 .. take
        BY <3>2
      <4>2. g[n] = G(n) /\ g[n - 1] = G(n - 1)
        BY <4>1
      <4>3. G(n) = S(G(n - 1), n)
        BY <1>2, <4>1
      <4> HIDE DEF G, g
      <4> QED BY <3>2, <4>2, <4>3
    <3> QED BY <3>1, <3>2
  <2>2. g = [n \in 0 .. take |-> g[n]]
    OBVIOUS
  <2> HIDE DEF g
  <2>3. g = [n \in 0 .. take |-> IF n = 0 THEN m ELSE S(g[n - 1], n)]
    BY <2>1, <2>2
  <2> QED BY <2>3 DEF XorSteps
<1>4. PICK f : f = CHOOSE h : XorSteps(h, m, src, dst, take, fam, ctr, from)
  OBVIOUS
<1>5. XorSteps(f, m, src, dst, take, fam, ctr, from)
  <2> HIDE DEF g
  <2> QED BY <1>3, <1>4
<1>6. \A n \in 0 .. take : f[n] = G(n)
  <2> DEFINE T == {n \in 0 .. take : f[n] # G(n)}
  <2> SUFFICES ASSUME T # {} PROVE FALSE
    OBVIOUS
  <2>1. PICK n \in T : \A k \in T : n <= k
    <3>1. T \subseteq Nat
      OBVIOUS
    <3> HIDE DEF T
    <3> QED BY <3>1, LeastNumber
  <2>2. n # 0
    BY <1>1, <1>5 DEF XorSteps
  <2>3. n \in 1 .. take /\ n - 1 \in 0 .. take /\ ~(n <= n - 1)
    BY <2>2
  <2>4. f[n - 1] = G(n - 1)
    BY <2>1, <2>3
  <2>5. f[n] = S(f[n - 1], n)
    <3>1. \A j \in 0 .. take : f[j] = IF j = 0 THEN m ELSE S(f[j - 1], j)
      BY <1>5 DEF XorSteps
    <3> HIDE DEF S
    <3> QED BY <2>2, <2>3, <3>1
  <2>6. G(n) = S(G(n - 1), n)
    BY <1>2, <2>3
  <2> HIDE DEF G, S
  <2> QED BY <2>1, <2>4, <2>5, <2>6
<1>7. XorRun(m, src, dst, take, fam, ctr, from) = f[take]
  BY <1>4 DEF XorRun, XorSteps
<1> QED BY <1>6, <1>7

(***************************************************************************)
(* What a call has written.                                                *)
(***************************************************************************)
\* Writing k cells of s at address dst changes those and no others.
Wrote(m2, m, dst, s, k) ==
  /\ DOMAIN m2 = DOMAIN m /\ m2 = [a \in DOMAIN m2 |-> m2[a]]
  /\ Holds(m2, dst, s, k)
  /\ \A a \in DOMAIN m : ~(dst <= a /\ a < dst + k) => m2[a] = m[a]

\* k cells of m from address a exist.
Exist(m, a, k) == \A i \in 1 .. k : a + i - 1 \in DOMAIN m

\* memcpy writes what it was given.
LEMMA StoredWrites ==
  ASSUME NEW m, DOMAIN m \subseteq Int, NEW dst \in Int, NEW k \in Nat, NEW s, Elements(s, k),
         Exist(m, dst, k), NEW m2, m2 = Stored(m, dst, s)
  PROVE  Wrote(m2, m, dst, s, k)
<1>1. Len(s) = k
  BY LengthOfElements DEF Elements
<1>2. m2 = [a \in DOMAIN m |-> IF dst <= a /\ a < dst + k THEN s[a - dst + 1] ELSE m[a]]
  BY <1>1 DEF Stored
<1>3. DOMAIN m2 = DOMAIN m /\ m2 = [a \in DOMAIN m2 |-> m2[a]]
  BY <1>2
<1>4. ASSUME NEW i \in 1 .. k PROVE m2[dst + i - 1] = s[i]
  <2>1. PICK a : a = dst + i - 1
    OBVIOUS
  <2>2. a \in DOMAIN m
    BY <2>1 DEF Exist
  <2>3. dst <= a /\ a < dst + k /\ a - dst + 1 = i
    BY <2>1
  <2>4. m2[a] = s[a - dst + 1]
    BY <1>2, <2>2, <2>3
  <2> QED BY <2>1, <2>3, <2>4
<1>5. \A a \in DOMAIN m : ~(dst <= a /\ a < dst + k) => m2[a] = m[a]
  BY <1>2
<1> QED BY <1>3, <1>4, <1>5 DEF Wrote, Holds

\* What the loop over the bytes of a block writes.
XoredCells(m, src, take, fam, ctr, from) ==
  [i \in 1 .. take |-> Xored(m[src + i - 1], KeyByte(fam, ctr, from + i - 1))]

\* So does the loop over the bytes of a block, when it does not read what it wrote.
LEMMA XorRunWrites ==
  ASSUME NEW m, m = [a \in DOMAIN m |-> m[a]], DOMAIN m \subseteq Int,
         NEW src \in Int, NEW dst \in Int, NEW take \in Nat, NEW fam, NEW ctr, NEW from \in Nat,
         Exist(m, dst, take), Exist(m, src, take), dst <= src \/ dst >= src + take,
         NEW m2, m2 = XorRun(m, src, dst, take, fam, ctr, from),
         NEW s, s = XoredCells(m, src, take, fam, ctr, from)
  PROVE  Wrote(m2, m, dst, s, take)
<1>1. ASSUME NEW i \in 0 .. take - 1 PROVE dst + i \in DOMAIN m /\ src + i \in DOMAIN m
  <2>1. i + 1 \in 1 .. take /\ dst + (i + 1) - 1 = dst + i /\ src + (i + 1) - 1 = src + i
    OBVIOUS
  <2>2. dst + (i + 1) - 1 \in DOMAIN m /\ src + (i + 1) - 1 \in DOMAIN m
    BY <2>1 DEF Exist
  <2> QED BY <2>1, <2>2
<1>2. m2 = XorDone(m, src, dst, take, fam, ctr, from)
  BY <1>1, XorRunResult
<1>3. m2 = [a \in DOMAIN m |-> IF dst <= a /\ a < dst + take
                      THEN Xored(m[src + (a - dst)], KeyByte(fam, ctr, from + (a - dst)))
                      ELSE m[a]]
  BY <1>2 DEF XorDone
<1>4. DOMAIN m2 = DOMAIN m /\ m2 = [a \in DOMAIN m2 |-> m2[a]]
  BY <1>3
<1>5. ASSUME NEW i \in 1 .. take PROVE m2[dst + i - 1] = s[i]
  <2>1. PICK a : a = dst + i - 1
    OBVIOUS
  <2>2. a \in DOMAIN m
    BY <2>1 DEF Exist
  <2>3. dst <= a /\ a < dst + take /\ src + (a - dst) = src + i - 1
        /\ from + (a - dst) = from + i - 1
    BY <2>1
  <2>4. m2[a] = Xored(m[src + (a - dst)], KeyByte(fam, ctr, from + (a - dst)))
    BY <1>3, <2>2, <2>3
  <2>5. s[i] = Xored(m[src + i - 1], KeyByte(fam, ctr, from + i - 1))
    BY DEF XoredCells
  <2> QED BY <2>1, <2>3, <2>4, <2>5
<1>6. \A a \in DOMAIN m : ~(dst <= a /\ a < dst + take) => m2[a] = m[a]
  BY <1>3
<1> QED BY <1>4, <1>5, <1>6 DEF Wrote, Holds

\* Where the loops of call c read and write, and the cells they read and write: the
\* message, or the message under the keystream.
InBase(c) == CASE c.op = "open" -> MacLen
               [] c.op = "open_detached" -> Scratch + MacLen
               [] OTHER -> 0
OutBase(c) == CASE c.op = "seal" -> c.shift + MacLen
                [] c.op = "seal_detached" -> Scratch + MacLen
                [] OTHER -> c.shift
CipherCell(c, i) == Xored(Plain(i), Linear(c.fam, Base(c.op) + i))
InCell(c, i) == IF Opening(c.op) THEN CipherCell(c, i) ELSE Plain(i)
OutCell(c, i) == IF Opening(c.op) THEN Plain(i) ELSE CipherCell(c, i)

\* Input from cell from on is still there; output is there up to cell to.
Unread(m, c, from) == \A i \in from .. c.n - 1 : m[InBase(c) + i] = InCell(c, i)
Written(m, c, to) == \A i \in 0 .. to - 1 : m[OutBase(c) + i] = OutCell(c, i)

\* The output is apart from the input or runs behind it.
Apart(c) == OutBase(c) <= InBase(c) \/ OutBase(c) >= InBase(c) + c.n

\* Xor undoes itself.
LEMMA OutOfIn ==
  ASSUME NEW c, NEW i
  PROVE  OutCell(c, i) = Xored(InCell(c, i), Linear(c.fam, Base(c.op) + i))
<1>1. PICK k, p : k = Linear(c.fam, Base(c.op) + i) /\ p = Plain(i)
  OBVIOUS
<1>2. p = [b |-> i + 1, ks |-> {}, of |-> <<>>]
  BY <1>1 DEF Plain, Cell
<1>3. p.ks = {} /\ DOMAIN p = {"b", "ks", "of"}
  BY <1>2
<1>4. PICK x : x = Xored(p, k)
  OBVIOUS
<1>5. x = [p EXCEPT !.ks = {k}]
  <2>1. k \notin p.ks /\ p.ks \cup {k} = {k}
    BY <1>3
  <2> QED BY <1>4, <2>1 DEF Xored
<1>6. x.ks = {k} /\ x.b = p.b /\ x.of = p.of /\ DOMAIN x = {"b", "ks", "of"}
  BY <1>3, <1>5
<1>7. Xored(x, k) = [x EXCEPT !.ks = {}]
  <2>1. k \in x.ks /\ x.ks \ {k} = {}
    BY <1>6
  <2> QED BY <2>1 DEF Xored
<1>8. Xored(x, k) = p
  <2>1. [x EXCEPT !.ks = {}] = p
    BY <1>2, <1>3, <1>5
  <2> QED BY <1>7, <2>1
<1> QED BY <1>1, <1>4, <1>8 DEF OutCell, InCell, CipherCell

\* What a write of the next take cells of output does, when the input that is left is not
\* where it writes.
LEMMA Advance ==
  ASSUME NEW m, DOMAIN m \subseteq Int, NEW m2, NEW c, c.n \in Nat, InBase(c) \in Int,
         OutBase(c) \in Int, NEW done \in Nat, NEW take \in Nat, NEW to, to = done + take,
         to <= c.n, Apart(c) \/ to = c.n, Unread(m, c, done), Written(m, c, done),
         \A i \in 0 .. c.n - 1 : InBase(c) + i \in DOMAIN m /\ OutBase(c) + i \in DOMAIN m,
         NEW s, NEW dst, dst = OutBase(c) + done, Wrote(m2, m, dst, s, take),
         \A i \in 1 .. take : s[i] = OutCell(c, done + i - 1)
  PROVE  Unread(m2, c, to) /\ Written(m2, c, to)
<1>1. PICK n, in, out : n = c.n /\ in = InBase(c) /\ out = OutBase(c)
  OBVIOUS
<1>2. n \in Nat /\ in \in Int /\ out \in Int /\ to \in Nat /\ dst = out + done
  BY <1>1
<1>3. ASSUME NEW i \in to .. n - 1 PROVE m2[in + i] = InCell(c, i)
  <2>1. i \in done .. n - 1 /\ i \in 0 .. n - 1
    BY <1>2
  <2>2. in + i \in DOMAIN m /\ m[in + i] = InCell(c, i)
    BY <1>1, <2>1 DEF Unread
  <2>3. ~(dst <= in + i /\ in + i < dst + take)
    <3>1. out <= in \/ out >= in + n
      BY <1>1, <1>2 DEF Apart
    <3> QED BY <1>1, <1>2, <3>1
  <2> QED BY <2>2, <2>3 DEF Wrote
<1>4. ASSUME NEW i \in 0 .. to - 1 PROVE m2[out + i] = OutCell(c, i)
  <2>1. CASE i < done
    <3>1. i \in 0 .. done - 1 /\ i \in 0 .. n - 1
      BY <1>1, <1>2, <2>1
    <3>2. out + i \in DOMAIN m /\ m[out + i] = OutCell(c, i)
      BY <1>1, <3>1 DEF Written
    <3>3. ~(dst <= out + i /\ out + i < dst + take)
      BY <1>2, <2>1
    <3> QED BY <3>2, <3>3 DEF Wrote
  <2>2. CASE i >= done
    <3>1. PICK j : j = i - done + 1
      OBVIOUS
    <3>2. j \in 1 .. take /\ dst + j - 1 = out + i /\ done + j - 1 = i
      BY <1>2, <2>2, <3>1
    <3>3. m2[dst + j - 1] = s[j]
      BY <3>2 DEF Wrote, Holds
    <3>4. s[j] = OutCell(c, done + j - 1)
      BY <3>2
    <3> QED BY <3>2, <3>3, <3>4
  <2> QED BY <1>2, <2>1, <2>2
<1> QED BY <1>1, <1>3, <1>4 DEF Unread, Written

\* What a stretch of memory holds, it holds in cells.
LEMMA HeldCells ==
  ASSUME NEW m, NEW a \in Int, NEW k \in Nat, NEW s, Elements(s, k), Holds(m, a, s, k)
  PROVE  Cells(m, a, k) = s /\ Len(s) = k
<1>1. Len(s) = k
  BY LengthOfElements DEF Elements
<1> QED BY <1>1 DEF Cells, Holds, Elements

\* Two sequences, one behind the other.
LEMMA HeldJoin ==
  ASSUME NEW m, NEW a \in Int, NEW n \in Nat, NEW k \in Nat, NEW f, NEW g, NEW h,
         Joins(h, f, n, g, k), Holds(m, a, f, n), NEW b, b = a + n, Holds(m, b, g, k),
         NEW l, l = n + k
  PROVE  Holds(m, a, h, l)
<1>1. ASSUME NEW j \in 1 .. l PROVE m[a + j - 1] = h[j]
  <2>1. CASE j \in 1 .. n
    BY <2>1 DEF Joins, Holds
  <2>2. CASE j \notin 1 .. n
    <3>1. PICK i \in 1 .. k : j = n + i
      <4>1. j - n \in 1 .. k /\ j = n + (j - n)
        BY <2>2
      <4> QED BY <4>1
    <3>2. a + j - 1 = b + i - 1
      BY <3>1
    <3>3. m[b + i - 1] = g[i]
      BY DEF Holds
    <3>4. h[n + i] = g[i]
      BY DEF Joins
    <3> QED BY <3>1, <3>2, <3>3, <3>4
  <2> QED BY <2>1, <2>2
<1> QED BY <1>1 DEF Holds

\* A write leaves what is elsewhere.
LEMMA HeldElsewhere ==
  ASSUME NEW m, NEW m2, NEW dst \in Int, NEW k \in Nat, NEW s, Wrote(m2, m, dst, s, k),
         NEW a \in Int, NEW n \in Nat, NEW f, Holds(m, a, f, n), Exist(m, a, n),
         a + n <= dst \/ dst + k <= a
  PROVE  Holds(m2, a, f, n)
<1>1. ASSUME NEW j \in 1 .. n PROVE m2[a + j - 1] = f[j]
  <2>1. PICK x : x = a + j - 1
    OBVIOUS
  <2>2. x \in DOMAIN m /\ m[x] = f[j]
    BY <2>1 DEF Exist, Holds
  <2>3. ~(dst <= x /\ x < dst + k)
    BY <2>1
  <2>4. m2[x] = m[x]
    BY <2>2, <2>3 DEF Wrote
  <2> QED BY <2>1, <2>2, <2>4
<1> QED BY <1>1 DEF Holds

\* The addresses call c uses are in memory, and its own buffer is behind the others.
Fits(c) ==
  /\ c.n \in Nat /\ c.shift \in Int /\ Scratch \in Int /\ MacLen \in Nat \ {0}
  /\ Half \in Nat \ {0} /\ Addresses \subseteq Int
  /\ \A i \in -MacLen .. c.n + 2 * MacLen - 1 : c.shift + i \in Addresses
  /\ \A i \in 0 .. c.n + 2 * MacLen - 1 : i \in Addresses
  /\ \A i \in 0 .. c.n + MacLen - 1 : Scratch + i \in Addresses
  /\ c.n <= Scratch /\ c.shift <= Scratch

\* That is so wherever the output lies.
LEMMA CallFits ==
  ASSUME NEW c, c.n \in MsgLens, c.shift \in Shifts
  PROVE  Fits(c)
<1>1. PICK far \in Nat :
        /\ \A n \in MsgLens : n <= far
        /\ \A s \in Shifts : -(far + 2 * MacLen) <= s /\ s <= far + 4 * MacLen
        /\ Addresses = -(far + 3 * MacLen) .. 3 * (far + 3 * MacLen)
        /\ Scratch = 2 * (far + 3 * MacLen)
  BY Room
<1>2. PICK n, s, adr, scr, k :
        n = c.n /\ s = c.shift /\ adr = Addresses /\ scr = Scratch /\ k = MacLen
  OBVIOUS
<1>3. /\ n \in Nat /\ s \in Int /\ k \in Nat \ {0} /\ n <= far
      /\ -(far + 2 * k) <= s /\ s <= far + 4 * k
      /\ adr = -(far + 3 * k) .. 3 * (far + 3 * k) /\ scr = 2 * (far + 3 * k)
  BY <1>1, <1>2, StreamAssumption
<1>4. /\ scr \in Int /\ adr \subseteq Int /\ n <= scr /\ s <= scr
      /\ \A i \in -k .. n + 2 * k - 1 : s + i \in adr
      /\ \A i \in 0 .. n + 2 * k - 1 : i \in adr
      /\ \A i \in 0 .. n + k - 1 : scr + i \in adr
  BY ONLY <1>3, far \in Nat
<1>5. Half \in Nat \ {0}
  BY StreamAssumption
<1> QED BY <1>2, <1>3, <1>4, <1>5 DEF Fits

\* So are the bytes that its loops read and write.
LoopFits(c) ==
  /\ InBase(c) \in Int /\ OutBase(c) \in Int
  /\ \A i \in 0 .. c.n - 1 : InBase(c) + i \in Addresses /\ OutBase(c) + i \in Addresses

\* The loops stay inside what the call uses.
LEMMA LoopInMemory ==
  ASSUME NEW c, Fits(c)
  PROVE  LoopFits(c)
<1>1. PICK n, s, scr, k, in, out :
        n = c.n /\ s = c.shift /\ scr = Scratch /\ k = MacLen /\ in = InBase(c) /\ out = OutBase(c)
  OBVIOUS
<1>2. n \in Nat /\ s \in Int /\ scr \in Int /\ k \in Nat \ {0}
  BY <1>1 DEF Fits
<1>3. in \in {k, scr + k, 0} /\ out \in {s + k, scr + k, s}
  BY <1>1 DEF InBase, OutBase
<1>4. ASSUME NEW i \in 0 .. n - 1
      PROVE  /\ i \in Addresses /\ k + i \in Addresses /\ scr + k + i \in Addresses
             /\ s + i \in Addresses /\ s + k + i \in Addresses
  <2>1. /\ i \in -k .. n + 2 * k - 1 /\ k + i \in -k .. n + 2 * k - 1
        /\ i \in 0 .. n + 2 * k - 1 /\ k + i \in 0 .. n + 2 * k - 1 /\ k + i \in 0 .. n + k - 1
    BY ONLY <1>2, i \in 0 .. n - 1
  <2>2. i \in Addresses /\ k + i \in Addresses
    BY <1>1, <2>1 DEF Fits
  <2>3. s + i \in Addresses
    BY <1>1, <2>1 DEF Fits
  <2>4. s + (k + i) \in Addresses
    BY <1>1, <2>1 DEF Fits
  <2>5. scr + (k + i) \in Addresses
    BY <1>1, <2>1 DEF Fits
  <2>6. s + (k + i) = s + k + i /\ scr + (k + i) = scr + k + i
    BY <1>2
  <2> QED BY <2>2, <2>3, <2>4, <2>5, <2>6
<1>5. in \in Int /\ out \in Int
  BY <1>2, <1>3
<1>6. ASSUME NEW i \in 0 .. n - 1 PROVE in + i \in Addresses /\ out + i \in Addresses
  <2>1. 0 + i = i
    OBVIOUS
  <2>2. in + i \in Addresses
    BY <1>3, <1>4, <2>1
  <2>3. out + i \in Addresses
    BY <1>3, <1>4
  <2> QED BY <2>2, <2>3
<1> QED BY <1>1, <1>5, <1>6 DEF LoopFits

\* What memory holds of a sequence it holds of its parts.
Both(m, a, f, n, b, g, k) == Holds(m, a, f, n) /\ Holds(m, b, g, k)

\* The parts are where they are in the sequence.
LEMMA HeldParts ==
  ASSUME NEW m, NEW a \in Int, NEW n \in Nat, NEW k \in Nat, NEW f, NEW g, NEW h,
         Joins(h, f, n, g, k), NEW l, l = n + k, Holds(m, a, h, l), NEW b, b = a + n
  PROVE  Both(m, a, f, n, b, g, k)
<1>2. ASSUME NEW j \in 1 .. n PROVE m[a + j - 1] = f[j]
  <2>1. j \in 1 .. l
    OBVIOUS
  <2> QED BY <2>1 DEF Joins, Holds
<1>3. ASSUME NEW i \in 1 .. k PROVE m[b + i - 1] = g[i]
  <2>1. PICK j : j = n + i
    OBVIOUS
  <2>2. j \in 1 .. l /\ a + j - 1 = b + i - 1
    BY <2>1
  <2>3. m[a + j - 1] = h[j]
    BY <2>2 DEF Holds
  <2>4. h[n + i] = g[i]
    BY DEF Joins
  <2> QED BY <2>1, <2>2, <2>3, <2>4
<1> QED BY <1>2, <1>3 DEF Holds, Both

\* The message under the keystream, and what a call makes of its input.
CipherSeq(c) == [i \in 1 .. c.n |-> CipherCell(c, i - 1)]
OutSeq(c) == IF Opening(c.op) THEN Message(c.n) ELSE CipherSeq(c)
InSeq(c) == IF Opening(c.op) THEN CipherSeq(c) ELSE Message(c.n)

\* It is the cipher in the layout of the call.
LEMMA CipherIs ==
  ASSUME NEW c, c.n \in Nat
  PROVE  /\ c.op \in {"seal", "seal_detached", "open", "open_detached"} =>
              CipherSeq(c) = BoxCipher(c.fam, c.n)
         /\ c.op \in {"aead_seal", "aead_open"} /\ c.fam = "ietf" => CipherSeq(c) = AeadCipher(c.n)
         /\ c.op = "xor" =>
              CipherSeq(c) = [i \in 1 .. c.n |->
                                Xored(Plain(i - 1), Linear(c.fam, (Ctr32 - 1) * Block64 + i - 1))]
<1>1. ASSUME NEW b \in Int, NEW i \in 1 .. c.n PROVE b + (i - 1) = b + i - 1
  OBVIOUS
<1>2. Half \in Int /\ Block64 \in Int /\ (Ctr32 - 1) * Block64 \in Int
  BY StreamConstants
<1>3. ASSUME c.op \in {"seal", "seal_detached", "open", "open_detached"}
      PROVE  CipherSeq(c) = BoxCipher(c.fam, c.n)
  BY <1>1, <1>2, <1>3 DEF CipherSeq, CipherCell, Base, BoxCipher
<1>4. ASSUME c.op \in {"aead_seal", "aead_open"}, c.fam = "ietf"
      PROVE  CipherSeq(c) = AeadCipher(c.n)
  BY <1>1, <1>2, <1>4 DEF CipherSeq, CipherCell, Base, AeadCipher
<1>5. ASSUME c.op = "xor"
      PROVE  CipherSeq(c) = [i \in 1 .. c.n |->
                               Xored(Plain(i - 1), Linear(c.fam, (Ctr32 - 1) * Block64 + i - 1))]
  <2>1. PICK b : b = (Ctr32 - 1) * Block64
    OBVIOUS
  <2>2. Base(c.op) = b /\ b \in Int
    BY <1>2, <1>5, <2>1 DEF Base
  <2>3. CipherSeq(c) = [i \in 1 .. c.n |-> Xored(Plain(i - 1), Linear(c.fam, b + i - 1))]
    BY <1>1, <2>2 DEF CipherSeq, CipherCell
  <2> QED BY <2>1, <2>3
<1> QED BY <1>3, <1>4, <1>5

\* Cell by cell.
LEMMA SeqCells ==
  ASSUME NEW c, c.n \in Nat
  PROVE  /\ Elements(InSeq(c), c.n) /\ Elements(OutSeq(c), c.n)
         /\ \A i \in 1 .. c.n : InSeq(c)[i] = InCell(c, i - 1) /\ OutSeq(c)[i] = OutCell(c, i - 1)
  BY DEF InSeq, OutSeq, InCell, OutCell, CipherSeq, Message, Elements

\* All of the input is there, or all of the output.
LEMMA AllUnread ==
  ASSUME NEW m, NEW c, c.n \in Nat, NEW a \in Int, a = InBase(c), Holds(m, a, InSeq(c), c.n)
  PROVE  Unread(m, c, 0)
<1>1. PICK n, s : n = c.n /\ s = InSeq(c)
  OBVIOUS
<1>2. ASSUME NEW i \in 0 .. n - 1 PROVE m[a + i] = InCell(c, i)
  <2>1. PICK j : j = i + 1
    OBVIOUS
  <2>2. j \in 1 .. n /\ a + j - 1 = a + i /\ j - 1 = i
    BY <1>1, <2>1
  <2>3. m[a + j - 1] = s[j] /\ s[j] = InCell(c, j - 1)
    BY <1>1, <2>2, SeqCells DEF Holds
  <2> QED BY <2>2, <2>3
<1> QED BY <1>1, <1>2 DEF Unread

\* When the last cell of output is written, the output is there.
LEMMA AllWritten ==
  ASSUME NEW m, NEW c, c.n \in Nat, NEW a \in Int, a = OutBase(c), Written(m, c, c.n)
  PROVE  Holds(m, a, OutSeq(c), c.n)
<1>1. PICK n, s : n = c.n /\ s = OutSeq(c)
  OBVIOUS
<1>2. ASSUME NEW j \in 1 .. n PROVE m[a + j - 1] = s[j]
  <2>1. PICK i : i = j - 1
    OBVIOUS
  <2>2. i \in 0 .. n - 1 /\ a + j - 1 = a + i
    BY <1>1, <2>1
  <2>3. m[a + i] = OutCell(c, i) /\ s[j] = OutCell(c, j - 1)
    BY <1>1, <2>2, SeqCells DEF Written
  <2> QED BY <2>1, <2>2, <2>3
<1> QED BY <1>1, <1>2 DEF Holds

\* Where the layout is allowed, the output is apart from the input, or the message is no
\* longer than the first bytes, which are copied.
LEMMA LayoutApart ==
  ASSUME StreamShape, InputMade, LayoutAllowed, call.op \notin {"sign", "sign_open"}
  PROVE  Apart(call) \/ (call.op \in {"seal", "open"} /\ call.n <= Half)
<1>1. PICK n, s, scr, k, l :
        n = call.n /\ s = call.shift /\ scr = Scratch /\ k = MacLen /\ l = Len(call.input)
  OBVIOUS
<1>2. Fits(call) /\ call.op \in Ops
  BY CallFits DEF StreamShape
<1>3. n \in Nat /\ s \in Int /\ scr \in Int /\ k \in Nat \ {0} /\ n <= scr /\ s <= scr
  BY <1>1, <1>2 DEF Fits
<1>4. l = SealedLen(call.op, n)
  BY <1>1, CallInput
<1>5. CASE call.op = "seal"
  <2>1. InBase(call) = 0 /\ OutBase(call) = s + k /\ l = n
    BY <1>1, <1>4, <1>5 DEF InBase, OutBase, SealedLen
  <2>2. s + k <= 0 \/ s >= l \/ call.n <= Half
    BY <1>1, <1>5 DEF LayoutAllowed, Behind
  <2> QED BY <1>1, <1>3, <1>5, <2>1, <2>2 DEF Apart
<1>6. CASE call.op = "open"
  <2>1. InBase(call) = k /\ OutBase(call) = s /\ l = k + n
    BY <1>1, <1>4, <1>6 DEF InBase, OutBase, SealedLen
  <2>2. s + (-k) <= 0 \/ s >= l \/ call.n <= Half
    BY <1>1, <1>6 DEF LayoutAllowed, Behind
  <2> QED BY <1>1, <1>3, <1>6, <2>1, <2>2 DEF Apart
<1>7. CASE call.op \in {"aead_seal", "aead_open", "xor"}
  <2>1. InBase(call) = 0 /\ OutBase(call) = s /\ l >= n
    BY <1>1, <1>3, <1>4, <1>7 DEF InBase, OutBase, SealedLen
  <2>2. s + 0 <= 0 \/ s >= l
    BY <1>1, <1>7 DEF LayoutAllowed, Behind
  <2>3. l \in Int
    BY <1>1, <1>3, <1>4 DEF SealedLen
  <2> QED BY <1>1, <1>3, <2>1, <2>2, <2>3 DEF Apart
<1>8. CASE call.op = "seal_detached"
  <2>1. InBase(call) = 0 /\ OutBase(call) = scr + k
    BY <1>1, <1>8 DEF InBase, OutBase
  <2> QED BY <1>1, <1>3, <2>1 DEF Apart
<1>9. CASE call.op = "open_detached"
  <2>1. InBase(call) = scr + k /\ OutBase(call) = s
    BY <1>1, <1>9 DEF InBase, OutBase
  <2> QED BY <1>1, <1>3, <2>1 DEF Apart
<1> QED BY <1>2, <1>5, <1>6, <1>7, <1>8, <1>9 DEF Ops

\* An input of which no cell was changed.
LEMMA InputUnchanged ==
  ASSUME StreamShape, InputMade, ~call.bad
  PROVE  /\ call.input = InputOf(call.op, call.fam, call.n)
         /\ Len(call.input) = SealedLen(call.op, call.n)
<1>1. PICK s, l : s = InputOf(call.op, call.fam, call.n) /\ l = SealedLen(call.op, call.n)
  OBVIOUS
<1>2. call.input = Changed(s, 0) /\ Len(call.input) = l /\ call.n \in Nat
  BY <1>1, CallInput
<1>3. Elements(s, l) /\ l \in Nat
  BY <1>1, <1>2, InputLength
<1>4. Changed(s, 0) = s
  <2>1. DOMAIN s = 1 .. l
    BY <1>3 DEF Elements
  <2>2. Changed(s, 0) = [i \in 1 .. l |-> s[i]]
    BY <1>3, <2>1 DEF Changed
  <2> QED BY <1>3, <2>2 DEF Elements
<1> QED BY <1>1, <1>2, <1>4

\* What was verified is what was sealed.
LEMMA Accepted ==
  ASSUME VerifyInv, todo.phase = "verify", Opening(call.op), ~call.bad
  PROVE  /\ call.op # "sign_open" =>
              /\ Unread(mem, call, 0)
              /\ todo.src = InBase(call) - IF call.op = "aead_open" THEN 0 ELSE MacLen
         /\ call.op = "sign_open" => Holds(mem, 2 * MacLen, Message(call.n), call.n)
<1>1. PICK n, k, s, l, a :
        /\ n = call.n /\ k = MacLen /\ s = InputOf(call.op, call.fam, n)
        /\ l = SealedLen(call.op, n) /\ a = todo.src
  OBVIOUS
<1>2. StreamShape /\ InputMade /\ Fits(call)
  BY CallFits DEF VerifyInv, StreamShape
<1>3. n \in Nat /\ k \in Nat /\ Scratch \in Int
  BY <1>1, <1>2 DEF Fits
<1>4. Elements(s, l) /\ l \in Nat
  BY <1>1, <1>3, InputLength
<1>5. call.input = s /\ Len(call.input) = l
  BY <1>1, <1>2, InputUnchanged
<1>6. Holds(mem, a, s, l) /\ a = IF call.op = "open_detached" THEN Scratch ELSE 0
  BY <1>1, <1>5 DEF VerifyInv
<1>7. a \in Int
  BY <1>3, <1>6
<1>8. CASE call.op \in {"open", "open_detached"}
  <2>1. PICK c, g, b : c = BoxCipher(call.fam, n) /\ g = Macs(call.fam, c) /\ b = a + k
    OBVIOUS
  <2>2. s = g \o c /\ l = k + n
    BY <1>1, <1>8, <2>1 DEF InputOf, BoxOf, SealedLen
  <2>3. Elements(c, n) /\ Elements(g, k)
    BY <1>1, <1>3, <2>1, MessageCells, MacCells
  <2>8. Joins(s, g, k, c, n)
    BY <1>3, <2>2, <2>3, Concatenated
  <2>9. Both(mem, a, g, k, b, c, n)
    BY <1>3, <1>6, <1>7, <2>1, <2>2, <2>8, HeldParts
  <2>4. Holds(mem, b, c, n)
    BY <2>9 DEF Both
  <2>5. InSeq(call) = c
    BY <1>1, <1>3, <1>8, <2>1, CipherIs DEF InSeq, Opening
  <2>6. b = InBase(call) /\ b \in Int
    BY <1>1, <1>3, <1>6, <1>8, <2>1 DEF InBase
  <2>7. Unread(mem, call, 0)
    BY <1>1, <1>3, <2>4, <2>5, <2>6, AllUnread
  <2> QED BY <1>1, <1>3, <1>7, <1>8, <2>1, <2>6, <2>7
<1>9. CASE call.op = "aead_open"
  <2>1. PICK c, g, b : c = AeadCipher(n) /\ g = Macs("ietf", c) /\ b = a + n
    OBVIOUS
  <2>2. s = c \o g /\ l = n + k
    BY <1>1, <1>9, <2>1 DEF InputOf, AeadOf, SealedLen
  <2>3. Elements(c, n) /\ Elements(g, k)
    BY <1>1, <1>3, <2>1, MessageCells, MacCells
  <2>9. Joins(s, c, n, g, k)
    BY <1>3, <2>2, <2>3, Concatenated
  <2>10. Both(mem, a, c, n, b, g, k)
    BY <1>3, <1>6, <1>7, <2>1, <2>2, <2>9, HeldParts
  <2>4. Holds(mem, a, c, n)
    BY <2>10 DEF Both
  <2>5. call.fam = "ietf"
    BY <1>2, <1>9 DEF StreamShape, Families
  <2>6. InSeq(call) = c
    BY <1>1, <1>3, <1>9, <2>1, <2>5, CipherIs DEF InSeq, Opening
  <2>7. a = InBase(call)
    BY <1>6, <1>9 DEF InBase
  <2>8. Unread(mem, call, 0)
    BY <1>1, <1>3, <1>7, <2>4, <2>6, <2>7, AllUnread
  <2> QED BY <1>1, <1>7, <1>9, <2>7, <2>8
<1>10. CASE call.op = "sign_open"
  <2>1. PICK c, g, h, f, e, b :
          /\ c = Message(n) /\ g = SigHalf(1, c) /\ h = SigHalf(2, g \o c) /\ f = g \o h
          /\ e = k + k /\ b = a + e
    <3>1. PICK c : c = Message(n) OBVIOUS
    <3>2. PICK g : g = SigHalf(1, c) OBVIOUS
    <3>3. PICK h, e : h = SigHalf(2, g \o c) /\ e = k + k OBVIOUS
    <3>4. PICK f, b : f = g \o h /\ b = a + e OBVIOUS
    <3> QED BY <3>1, <3>2, <3>3, <3>4
  <2>2. s = f \o c /\ l = e + n
    BY <1>1, <1>10, <2>1 DEF InputOf, SignedOf, SealedLen
  <2>3. Elements(c, n) /\ Elements(g, k) /\ Elements(h, k)
    BY <1>1, <1>3, <2>1, MessageCells, MacCells
  <2>4. Joins(f, g, k, h, k)
    BY <1>3, <2>1, <2>3, Concatenated
  <2>5. Elements(f, e) /\ e \in Nat
    BY <1>3, <2>1, <2>4 DEF Joins
  <2>8. Joins(s, f, e, c, n)
    BY <1>3, <2>2, <2>3, <2>5, Concatenated
  <2>9. Both(mem, a, f, e, b, c, n)
    BY <1>3, <1>6, <1>7, <2>1, <2>2, <2>5, <2>8, HeldParts
  <2>6. Holds(mem, b, c, n)
    BY <2>9 DEF Both
  <2>7. b = 2 * MacLen
    BY <1>1, <1>3, <1>6, <1>10, <2>1
  <2> QED BY <1>1, <1>10, <2>1, <2>6, <2>7
<1> QED BY <1>8, <1>9, <1>10 DEF Opening

\* Where the loops of call c are.
LoopPlace(c, t) ==
  /\ t.phase = "stream" => /\ t.src = InBase(c) + (c.n - t.left)
                           /\ t.dst = OutBase(c) + (c.n - t.left)
                           /\ t.left > 0 => Apart(c)
  /\ t.phase = "first" /\ ~Opening(c.op) => t.src = InBase(c) /\ t.dst = OutBase(c) - MacLen
  /\ t.phase = "first" /\ Opening(c.op) =>
       /\ t.src = InBase(c) - MacLen /\ t.dst = OutBase(c)
       /\ Elements(t.first, Smaller(c.n, Half))
       /\ \A i \in 1 .. Smaller(c.n, Half) : t.first[i] = OutCell(c, i - 1)
  /\ t.phase \in {"gather", "verify"} => t.dst = OutBase(c)

\* What a call that signs, or has verified a signature, finds.
FirstHalf(c) == SigHalf(1, Message(c.n))
SecondHalf(c) == SigHalf(2, FirstHalf(c) \o Message(c.n))
SignCells(m, c, p) ==
  /\ p \in {"sig1", "sig2", "move"} => Holds(m, 0, Message(c.n), c.n)
  /\ p \in {"sig2", "move"} => Holds(m, c.shift, FirstHalf(c), MacLen)
  /\ p = "move" => Holds(m, c.shift + MacLen, SecondHalf(c), MacLen)
  /\ p = "release" => Holds(m, 2 * MacLen, Message(c.n), c.n)

\* In every phase the input that is left is still there, and the output so far is right.
Progress(m, c, t) ==
  /\ DOMAIN m = Addresses /\ m = [a \in DOMAIN m |-> m[a]]
  /\ LoopPlace(c, t)
  /\ t.phase \in {"first", "stream"} => Unread(m, c, c.n - t.left)
  /\ t.phase \in {"stream", "mac"} => Written(m, c, c.n - t.left)
  /\ SignCells(m, c, t.phase)
  /\ t.phase = "scatter" => Holds(m, Scratch, BoxOf(c.fam, c.n), MacLen + c.n)

\* A step comes to such a state, and when it is the last one, to the output.
Arrives(m, t) ==
  /\ Progress(m, call, t)
  /\ t.phase = "done" => Cells(m, OutputAt, Len(Output)) = Output

\* A block of a loop.
LEMMA LoopArrives ==
  ASSUME StreamShape, Progress(mem, call, todo), NEW next, LoopBlock(next),
         AtBlock(todo.ctr, Place)
  PROVE  Arrives(mem', todo')
<1>1. PICK take, n, l, in, out, m, m2, src, dst, done, to, fam, c :
        /\ take = Smaller(todo.left, Block64) /\ n = call.n /\ l = todo.left /\ c = call
        /\ in = InBase(call) /\ out = OutBase(call) /\ m = mem /\ m2 = mem'
        /\ src = todo.src /\ dst = todo.dst /\ done = n - l /\ to = (n - l) + take
        /\ fam = call.fam
  <2>1. PICK n, l, take : n = call.n /\ l = todo.left /\ take = Smaller(todo.left, Block64)
    OBVIOUS
  <2> QED BY <2>1
<1>2. DOMAIN todo = {"phase", "src", "dst", "left", "ctr", "first"} /\ l \in 0 .. n
  BY <1>1 DEF StreamShape
<1>3. /\ todo.phase = "stream" /\ l > 0
      /\ m2 = XorRun(m, src, dst, take, fam, todo.ctr, 0)
      /\ todo'.phase = "stream" /\ todo'.src = src + take /\ todo'.dst = dst + take
      /\ todo'.left = l - take
  BY <1>1, <1>2 DEF LoopBlock
<1>4. Fits(c) /\ LoopFits(c)
  BY <1>1, CallFits, LoopInMemory DEF StreamShape
<1>5. /\ n \in Nat /\ in \in Int /\ out \in Int /\ Addresses \subseteq Int
      /\ \A i \in 0 .. n - 1 : in + i \in Addresses /\ out + i \in Addresses
  BY <1>1, <1>4 DEF Fits, LoopFits
<1>6. take \in 1 .. l /\ take <= Block64 /\ Block64 \in Nat
  <2>1. PICK b : b = Block64
    OBVIOUS
  <2>2. b \in Nat \ {0} /\ take = IF l < b THEN l ELSE b
    BY <1>1, <2>1, StreamConstants DEF Smaller
  <2> QED BY <1>2, <1>3, <1>5, <2>1, <2>2
<1>7. /\ DOMAIN m = Addresses /\ m = [a \in DOMAIN m |-> m[a]]
      /\ src = in + done /\ dst = out + done /\ Apart(c)
      /\ Unread(m, c, done) /\ Written(m, c, done)
  BY <1>1, <1>3 DEF Progress, LoopPlace
<1>8. out <= in \/ out >= in + n
  BY <1>1, <1>7 DEF Apart
<1>9. done \in Nat /\ to \in Nat /\ to = done + take /\ to <= n /\ n - (l - take) = to
  BY <1>1, <1>2, <1>5, <1>6
<1>10. src \in Int /\ dst \in Int /\ (dst <= src \/ dst >= src + take)
  <2>1. /\ src = in + done /\ dst = out + done
        /\ take \in Nat /\ n \in Nat /\ in \in Int /\ out \in Int
    BY <1>5, <1>6, <1>7
  <2> QED BY ONLY <1>8, <1>9, <2>1
<1>11. ASSUME NEW i \in 1 .. take
       PROVE  /\ done + i - 1 \in 0 .. n - 1
              /\ src + i - 1 = in + (done + i - 1) /\ dst + i - 1 = out + (done + i - 1)
  <2>1. /\ src = in + done /\ dst = out + done
        /\ take \in Nat /\ n \in Nat /\ in \in Int /\ out \in Int
    BY <1>5, <1>6, <1>7
  <2> QED BY ONLY <1>9, <2>1, i \in 1 .. take
<1>12. Exist(m, dst, take) /\ Exist(m, src, take)
  BY <1>5, <1>7, <1>11 DEF Exist
<1>13. PICK s : s = XoredCells(m, src, take, fam, todo.ctr, 0)
  OBVIOUS
<1>14. Wrote(m2, m, dst, s, take)
  <2>1. DOMAIN m \subseteq Int /\ take \in Nat
    BY <1>5, <1>6, <1>7
  <2> QED BY <1>3, <1>7, <1>10, <1>12, <1>13, <2>1, XorRunWrites
<1>15. PICK x \in Nat : todo.ctr = CtrOf(x) /\ Base(c.op) + done = x * Block64
  BY <1>1 DEF AtBlock, Place
<1>16. Base(c.op) \in Int
  BY <1>1, StreamConstants DEF Base
<1>17. ASSUME NEW i \in 1 .. take PROVE s[i] = OutCell(c, done + i - 1)
  <2>1. PICK j, p : j = done + i - 1 /\ p = x * Block64 + (i - 1)
    OBVIOUS
  <2>2. j \in done .. n - 1 /\ src + i - 1 = in + j
    BY <1>9, <1>11, <2>1
  <2>3. m[src + i - 1] = InCell(c, j)
    BY <1>1, <1>7, <2>2 DEF Unread
  <2>4. i - 1 \in 0 .. Block64 - 1
    BY <1>6
  <2>5. Linear(fam, p) = KeyByte(fam, CtrOf(x), i - 1)
    BY <2>1, <2>4, LinearByte
  <2>6. p = Base(c.op) + j
    <3>1. PICK b, y : b = Base(c.op) /\ y = x * Block64
      OBVIOUS
    <3>2. b \in Int /\ b + done = y
      BY <1>15, <1>16, <3>1
    <3>3. y + (i - 1) = b + j
      BY <1>9, <2>1, <3>2
    <3> QED BY <2>1, <3>1, <3>3
  <2>7. OutCell(c, j) = Xored(InCell(c, j), Linear(c.fam, Base(c.op) + j))
    BY OutOfIn
  <2>8. s[i] = Xored(m[src + i - 1], KeyByte(fam, todo.ctr, 0 + i - 1))
    BY <1>13 DEF XoredCells
  <2>9. 0 + i - 1 = i - 1
    OBVIOUS
  <2> QED BY <1>1, <1>15, <2>1, <2>3, <2>5, <2>6, <2>7, <2>8, <2>9
<1>18. Unread(m2, c, to) /\ Written(m2, c, to)
  <2>1. /\ DOMAIN m \subseteq Int /\ c.n \in Nat /\ InBase(c) \in Int /\ OutBase(c) \in Int
        /\ take \in Nat /\ to <= c.n /\ dst = OutBase(c) + done
        /\ \A i \in 0 .. c.n - 1 : InBase(c) + i \in DOMAIN m /\ OutBase(c) + i \in DOMAIN m
    BY <1>1, <1>5, <1>6, <1>7, <1>9
  <2> QED BY <1>7, <1>9, <1>14, <1>17, <2>1, Advance
<1>19. DOMAIN m2 = Addresses /\ m2 = [a \in DOMAIN m2 |-> m2[a]]
  BY <1>7, <1>14 DEF Wrote
<1>20. LoopPlace(c, todo')
  <2>1. src + take = in + to /\ dst + take = out + to
    BY <1>5, <1>6, <1>7, <1>9
  <2> QED BY <1>1, <1>3, <1>7, <1>9, <2>1 DEF LoopPlace
<1>21. Progress(m2, c, todo')
  BY <1>1, <1>3, <1>9, <1>18, <1>19, <1>20 DEF Progress, SignCells
<1> QED BY <1>1, <1>3, <1>21 DEF Arrives

\* The first bytes of a box.
LEMMA FirstArrives ==
  ASSUME StreamShape, Progress(mem, call, todo), Apart(call) \/ call.n <= Half,
         Unread(mem, call, 0), NEW take, take = Smaller(call.n, Half),
         NEW s, Elements(s, take), \A i \in 1 .. take : s[i] = OutCell(call, i - 1),
         mem' = Stored(mem, OutBase(call), s),
         todo'.phase = "stream", todo'.left = call.n - take,
         todo'.src = InBase(call) + take, todo'.dst = OutBase(call) + take
  PROVE  Arrives(mem', todo')
<1>1. PICK n, in, out, m, m2, c :
        /\ n = call.n /\ c = call /\ in = InBase(call) /\ out = OutBase(call)
        /\ m = mem /\ m2 = mem'
  OBVIOUS
<1>2. Fits(c) /\ LoopFits(c)
  BY <1>1, CallFits, LoopInMemory DEF StreamShape
<1>3. /\ n \in Nat /\ in \in Int /\ out \in Int /\ Addresses \subseteq Int /\ Half \in Nat \ {0}
      /\ \A i \in 0 .. n - 1 : in + i \in Addresses /\ out + i \in Addresses
  BY <1>1, <1>2 DEF Fits, LoopFits
<1>4. take \in 0 .. n /\ take <= Half /\ (take = n \/ Apart(c)) /\ take \in Nat
  BY <1>1, <1>3 DEF Smaller
<1>5. DOMAIN m = Addresses
  BY <1>1 DEF Progress
<1>6. Exist(m, out, take)
  <2>1. ASSUME NEW i \in 1 .. take PROVE out + i - 1 \in Addresses
    <3>1. i - 1 \in 0 .. n - 1 /\ out + (i - 1) = out + i - 1
      BY <1>3, <1>4
    <3> QED BY <1>3, <3>1
  <2> QED BY <1>5, <2>1 DEF Exist
<1>7. Wrote(m2, m, out, s, take)
  BY <1>1, <1>3, <1>4, <1>5, <1>6, StoredWrites
<1>8. Written(m, c, 0)
  BY DEF Written
<1>9. Unread(m2, c, take) /\ Written(m2, c, take)
  <2>1. /\ DOMAIN m \subseteq Int /\ c.n \in Nat /\ InBase(c) \in Int /\ OutBase(c) \in Int
        /\ take = 0 + take /\ take <= c.n /\ out = OutBase(c) + 0
        /\ \A i \in 0 .. c.n - 1 : InBase(c) + i \in DOMAIN m /\ OutBase(c) + i \in DOMAIN m
    BY <1>1, <1>3, <1>4, <1>5
  <2>2. \A i \in 1 .. take : s[i] = OutCell(c, 0 + i - 1)
    <3>1. \A i \in 1 .. take : 0 + i - 1 = i - 1
      BY <1>4
    <3> QED BY <1>1, <3>1
  <2>3. Unread(m, c, 0) /\ (Apart(c) \/ take = c.n)
    BY <1>1, <1>4
  <2> QED BY <1>4, <1>7, <1>8, <2>1, <2>2, <2>3, Advance
<1>10. DOMAIN m2 = Addresses /\ m2 = [a \in DOMAIN m2 |-> m2[a]]
  BY <1>5, <1>7 DEF Wrote
<1>11. n - (n - take) = take /\ (n - take > 0 => Apart(c))
  BY <1>3, <1>4
<1>12. LoopPlace(c, todo')
  BY <1>1, <1>11 DEF LoopPlace
<1>13. Progress(m2, c, todo')
  BY <1>1, <1>9, <1>10, <1>11, <1>12 DEF Progress, SignCells
<1> QED BY <1>1, <1>13 DEF Arrives

\* The first bytes are those behind the MAC key's in block 0.
LEMMA FirstKey ==
  ASSUME NEW c, Base(c.op) = Half, NEW i \in 1 .. Half
  PROVE  OutCell(c, i - 1) = Xored(InCell(c, i - 1), KeyByte(c.fam, <<0, 0>>, Half + i - 1))
<1>1. PICK h, p, b : h = Half /\ b = Block64 /\ p = h + (i - 1)
  OBVIOUS
<1>2. h \in Nat \ {0} /\ b = h + h /\ b \in Nat
  BY <1>1, StreamConstants
<1>3. p \in 0 .. b - 1 /\ p = 0 * b + p /\ p = h + i - 1
  BY <1>1, <1>2
<1>4. Linear(c.fam, p) = KeyByte(c.fam, CtrOf(0), p)
  BY <1>1, <1>3, LinearByte
<1>5. CtrOf(0) = <<0, 0>>
  <2>1. PICK w : w = Ctr32
    OBVIOUS
  <2>2. w \in Nat \ {0} /\ 0 \in 0 .. w - 1 /\ 0 \in Int /\ 0 = w * 0 + 0
    BY <2>1, StreamConstants
  <2>3. 0 \div w = 0 /\ 0 % w = 0
    BY <2>2, QuotientUnique
  <2> QED BY <2>1, <2>3 DEF CtrOf
<1>6. OutCell(c, i - 1) = Xored(InCell(c, i - 1), Linear(c.fam, Base(c.op) + (i - 1)))
  BY OutOfIn
<1> QED BY <1>1, <1>3, <1>4, <1>5, <1>6

\* EasyFirst copies and covers the first bytes before it writes, so it is right in any layout.
LEMMA EasyFirstArrives ==
  ASSUME StreamShape, InputMade, LayoutAllowed, Progress(mem, call, todo), EasyFirst
  PROVE  Arrives(mem', todo')
<1>1. PICK take, n : take = Smaller(call.n, Half) /\ n = call.n
  OBVIOUS
<1>2. /\ DOMAIN todo = {"phase", "src", "dst", "left", "ctr", "first"}
      /\ Fits(call) /\ LoopFits(call)
      /\ todo.phase = "first" /\ todo.left = n /\ ~Opening(call.op)
  BY <1>1, CallFits, LoopInMemory DEF StreamShape, EasyFirst
<1>3. /\ n \in Nat /\ Half \in Nat \ {0} /\ MacLen \in Nat
      /\ InBase(call) \in Int /\ OutBase(call) \in Int
  BY <1>1, <1>2 DEF Fits, LoopFits
<1>4. call.op \in {"seal", "seal_detached"}
  BY <1>2 DEF StreamShape, PhasesOf, Ops, Opening
<1>5. PICK src, dst : src = InBase(call) /\ dst = OutBase(call) - MacLen
  OBVIOUS
<1>6. todo.src = src /\ todo.dst = dst /\ Unread(mem, call, 0)
  <2>1. n - n = 0
    BY <1>3
  <2> QED BY <1>1, <1>2, <1>5, <2>1 DEF Progress, LoopPlace
<1>7. PICK s : s = [i \in 1 .. take |-> Xored(mem[src + i - 1],
                                              KeyByte(call.fam, <<0, 0>>, Half + i - 1))]
  OBVIOUS
<1>8. dst + MacLen = OutBase(call)
  BY <1>3, <1>5
<1>9. /\ mem' = Stored(mem, OutBase(call), s)
      /\ todo'.phase = "stream" /\ todo'.left = n - take
      /\ todo'.src = src + take /\ todo'.dst = dst + MacLen + take
  BY <1>1, <1>2, <1>6, <1>7, <1>8 DEF EasyFirst
<1>10. take \in 0 .. n /\ take <= Half
  BY <1>1, <1>3 DEF Smaller
<1>11. ASSUME NEW i \in 1 .. take PROVE s[i] = OutCell(call, i - 1)
  <2>1. i \in 1 .. Half /\ i - 1 \in 0 .. n - 1 /\ src + i - 1 = src + (i - 1)
    BY <1>3, <1>5, <1>10
  <2>2. mem[src + i - 1] = InCell(call, i - 1)
    BY <1>1, <1>5, <1>6, <2>1 DEF Unread
  <2>3. Base(call.op) = Half
    BY <1>4 DEF Base
  <2> QED BY <1>7, <2>1, <2>2, <2>3, FirstKey
<1>12. Elements(s, take)
  BY <1>7 DEF Elements
<1>13. Apart(call) \/ call.n <= Half
  BY <1>4, LayoutApart
<1> QED BY <1>1, <1>5, <1>6, <1>8, <1>9, <1>11, <1>12, <1>13, FirstArrives

\* OpenFirst writes the bytes that OpenVerify kept.
LEMMA OpenFirstArrives ==
  ASSUME StreamShape, InputMade, LayoutAllowed, Progress(mem, call, todo), OpenFirst
  PROVE  Arrives(mem', todo')
<1>1. PICK take, n, s : take = Smaller(call.n, Half) /\ n = call.n /\ s = todo.first
  OBVIOUS
<1>2. /\ DOMAIN todo = {"phase", "src", "dst", "left", "ctr", "first"}
      /\ Fits(call) /\ LoopFits(call)
      /\ todo.phase = "first" /\ todo.left = n /\ Opening(call.op) /\ Len(s) = take
  BY <1>1, CallFits, LoopInMemory DEF StreamShape, OpenFirst
<1>3. /\ n \in Nat /\ Half \in Nat \ {0} /\ MacLen \in Nat
      /\ InBase(call) \in Int /\ OutBase(call) \in Int
  BY <1>1, <1>2 DEF Fits, LoopFits
<1>4. call.op \in {"open", "open_detached"}
  BY <1>2 DEF StreamShape, PhasesOf, Ops, Opening
<1>5. /\ todo.src = InBase(call) - MacLen /\ todo.dst = OutBase(call) /\ Unread(mem, call, 0)
      /\ Elements(s, take) /\ \A i \in 1 .. take : s[i] = OutCell(call, i - 1)
  <2>1. n - n = 0
    BY <1>3
  <2> QED BY <1>1, <1>2, <2>1 DEF Progress, LoopPlace
<1>6. /\ mem' = Stored(mem, OutBase(call), s)
      /\ todo'.phase = "stream" /\ todo'.left = n - take
      /\ todo'.src = todo.src + MacLen + take /\ todo'.dst = OutBase(call) + take
  BY <1>1, <1>2, <1>5 DEF OpenFirst
<1>7. todo.src + MacLen + take = InBase(call) + take
  BY <1>3, <1>5
<1>8. Apart(call) \/ call.n <= Half
  BY <1>4, LayoutApart
<1> QED BY <1>1, <1>5, <1>6, <1>7, <1>8, FirstArrives

\* When the loop is done, all of the output is there.
LEMMA AllThere ==
  ASSUME StreamShape, Progress(mem, call, todo), todo.phase \in {"stream", "mac"}, todo.left = 0
  PROVE  /\ Holds(mem, OutBase(call), OutSeq(call), call.n) /\ Elements(OutSeq(call), call.n)
         /\ Fits(call) /\ OutBase(call) \in Int
<1>1. Fits(call) /\ LoopFits(call)
  BY CallFits, LoopInMemory DEF StreamShape
<1>2. call.n \in Nat /\ OutBase(call) \in Int
  BY <1>1 DEF Fits, LoopFits
<1>3. call.n - 0 = call.n
  BY <1>2
<1>4. Written(mem, call, call.n)
  BY <1>3 DEF Progress
<1> QED BY <1>1, <1>2, <1>4, AllWritten, SeqCells

\* The end of the loop leaves the MAC to be made, or nothing.
LEMMA StreamEndArrives ==
  ASSUME StreamShape, Progress(mem, call, todo), StreamEnd
  PROVE  Arrives(mem', todo')
<1>1. /\ DOMAIN todo = {"phase", "src", "dst", "left", "ctr", "first"}
      /\ todo.phase = "stream" /\ todo.left = 0 /\ mem' = mem
      /\ todo'.phase = IF call.op \in {"seal", "seal_detached", "aead_seal"} THEN "mac" ELSE "done"
      /\ todo'.left = 0
  BY DEF StreamShape, StreamEnd, Phase
<1>2. Progress(mem', call, todo')
  BY <1>1 DEF Progress, LoopPlace, SignCells
<1>3. ASSUME todo'.phase = "done" PROVE Cells(mem, OutputAt, Len(Output)) = Output
  <2>1. call.op \in {"xor", "open", "open_detached", "aead_open"}
    BY <1>1, <1>3 DEF StreamShape, PhasesOf, Ops
  <2>2. PICK s, a, n : s = OutSeq(call) /\ a = OutBase(call) /\ n = call.n
    OBVIOUS
  <2>3. Holds(mem, a, s, n) /\ Elements(s, n) /\ a \in Int /\ n \in Nat
    BY <1>1, <2>2, AllThere DEF Fits
  <2>4. Output = s
    BY <2>1, <2>2, <2>3, CipherIs DEF Output, OutSeq, Opening
  <2>5. OutputAt = a
    BY <2>1, <2>2 DEF OutputAt, OutBase
  <2>6. Cells(mem, a, n) = s /\ Len(s) = n
    BY <2>3, HeldCells
  <2> QED BY <2>4, <2>5, <2>6
<1> QED BY <1>1, <1>2, <1>3 DEF Arrives

\* The MAC comes in front of a box.
LEMMA EasyMacArrives ==
  ASSUME StreamShape, Progress(mem, call, todo), EasyMac
  PROVE  Arrives(mem', todo')
<1>1. PICK m, m2, n, k, a, b, s, g, fam :
        /\ m = mem /\ m2 = mem' /\ n = call.n /\ k = MacLen /\ a = BoxAt /\ b = BoxAt + MacLen
        /\ s = OutSeq(call) /\ g = Macs(call.fam, OutSeq(call)) /\ fam = call.fam
  OBVIOUS
<1>2. /\ DOMAIN todo = {"phase", "src", "dst", "left", "ctr", "first"}
      /\ todo.phase = "mac" /\ call.op \in {"seal", "seal_detached"} /\ todo.left = 0
      /\ m2 = Stored(m, a, Macs(fam, Cells(m, b, n)))
      /\ todo'.phase = IF call.op = "seal_detached" THEN "scatter" ELSE "done"
  BY <1>1 DEF StreamShape, EasyMac, Phase
<1>3. Holds(m, OutBase(call), s, n) /\ Elements(s, n) /\ Fits(call)
  BY <1>1, <1>2, AllThere
<1>4. /\ n \in Nat /\ k \in Nat \ {0} /\ call.shift \in Int /\ Scratch \in Int
      /\ Addresses \subseteq Int
  BY <1>1, <1>3 DEF Fits
<1>5. a \in Int /\ b = a + k /\ b \in Int /\ OutBase(call) = b
  BY <1>1, <1>2, <1>4 DEF BoxAt, OutBase
<1>6. s = BoxCipher(fam, n)
  BY <1>1, <1>2, <1>4, CipherIs DEF OutSeq, Opening
<1>7. Cells(m, b, n) = s
  BY <1>3, <1>4, <1>5, HeldCells
<1>8. Elements(g, k)
  BY <1>1, MacCells
<1>9. DOMAIN m = Addresses
  BY <1>1 DEF Progress
<1>10. ASSUME NEW i \in 0 .. k + n - 1 PROVE a + i \in Addresses
  <2>1. i \in -k .. n + 2 * k - 1 /\ i \in 0 .. n + k - 1
    BY <1>4
  <2>2. call.shift + i \in Addresses /\ Scratch + i \in Addresses
    BY <1>1, <1>3, <2>1 DEF Fits
  <2> QED BY <1>1, <2>2 DEF BoxAt
<1>11. Exist(m, a, k) /\ Exist(m, b, n)
  <2>1. ASSUME NEW i \in 1 .. k PROVE a + i - 1 \in Addresses
    <3>1. i - 1 \in 0 .. k + n - 1 /\ a + (i - 1) = a + i - 1
      BY <1>4, <1>5
    <3> QED BY <1>10, <3>1
  <2>2. ASSUME NEW i \in 1 .. n PROVE b + i - 1 \in Addresses
    <3>1. k + (i - 1) \in 0 .. k + n - 1 /\ a + (k + (i - 1)) = b + i - 1
      BY <1>4, <1>5
    <3>2. a + (k + (i - 1)) \in Addresses
      BY <1>10, <3>1
    <3> QED BY <3>1, <3>2
  <2> QED BY <1>9, <2>1, <2>2 DEF Exist
<1>12. Wrote(m2, m, a, g, k)
  BY <1>1, <1>2, <1>4, <1>5, <1>7, <1>8, <1>9, <1>11, StoredWrites
<1>13. Holds(m2, a, g, k) /\ DOMAIN m2 = Addresses /\ m2 = [x \in DOMAIN m2 |-> m2[x]]
  BY <1>9, <1>12 DEF Wrote
<1>14. Holds(m2, b, s, n)
  <2>1. a + k <= b /\ k \in Nat
    BY <1>4, <1>5
  <2> QED BY <1>3, <1>4, <1>5, <1>11, <1>12, <2>1, HeldElsewhere
<1>15. PICK h, l : h = g \o s /\ l = k + n
  OBVIOUS
<1>16. Holds(m2, a, h, l) /\ Elements(h, l) /\ l \in Nat
  <2>1. Joins(h, g, k, s, n)
    BY <1>3, <1>4, <1>8, <1>15, Concatenated
  <2>2. Holds(m2, a, h, l)
    BY <1>4, <1>5, <1>13, <1>14, <1>15, <2>1, HeldJoin
  <2> QED BY <1>4, <1>15, <2>1, <2>2 DEF Joins
<1>17. h = BoxOf(fam, n)
  BY <1>1, <1>6, <1>15 DEF BoxOf
<1>18. Cells(m2, a, l) = h /\ Len(h) = l
  BY <1>5, <1>16, HeldCells
<1>19. CASE call.op = "seal"
  <2>1. Output = h /\ OutputAt = a
    BY <1>1, <1>17, <1>19 DEF Output, OutputAt, BoxAt, Opening
  <2>2. Progress(m2, call, todo')
    BY <1>2, <1>13, <1>19 DEF Progress, LoopPlace, SignCells
  <2> QED BY <1>1, <1>18, <2>1, <2>2 DEF Arrives
<1>20. CASE call.op = "seal_detached"
  <2>1. a = Scratch
    BY <1>1, <1>20 DEF BoxAt
  <2>2. Progress(m2, call, todo')
    BY <1>1, <1>2, <1>13, <1>15, <1>16, <1>17, <1>20, <2>1 DEF Progress, LoopPlace, SignCells
  <2> QED BY <1>1, <1>2, <1>20, <2>2 DEF Arrives
<1> QED BY <1>2, <1>19, <1>20

\* The MAC comes behind the cipher of the AEAD.
LEMMA AeadMacArrives ==
  ASSUME StreamShape, Progress(mem, call, todo), AeadMac
  PROVE  Arrives(mem', todo')
<1>1. PICK m, m2, n, k, a, b, s, g :
        /\ m = mem /\ m2 = mem' /\ n = call.n /\ k = MacLen /\ a = call.shift
        /\ b = call.shift + call.n /\ s = OutSeq(call) /\ g = Macs("ietf", OutSeq(call))
  OBVIOUS
<1>2. /\ DOMAIN todo = {"phase", "src", "dst", "left", "ctr", "first"}
      /\ todo.phase = "mac" /\ call.op = "aead_seal" /\ todo.left = 0
      /\ m2 = Stored(m, b, Macs("ietf", Cells(m, a, n))) /\ todo'.phase = "done"
  BY <1>1 DEF StreamShape, AeadMac, Phase
<1>3. Holds(m, OutBase(call), s, n) /\ Elements(s, n) /\ Fits(call)
  BY <1>1, <1>2, AllThere
<1>4. n \in Nat /\ k \in Nat \ {0} /\ a \in Int /\ Addresses \subseteq Int
  BY <1>1, <1>3 DEF Fits
<1>5. b = a + n /\ b \in Int /\ OutBase(call) = a
  BY <1>1, <1>2, <1>4 DEF OutBase
<1>6. call.fam = "ietf"
  BY <1>2 DEF StreamShape, Families
<1>7. s = AeadCipher(n)
  BY <1>1, <1>2, <1>4, <1>6, CipherIs DEF OutSeq, Opening
<1>8. Cells(m, a, n) = s
  BY <1>3, <1>4, <1>5, HeldCells
<1>9. Elements(g, k)
  BY <1>1, MacCells
<1>10. DOMAIN m = Addresses
  BY <1>1 DEF Progress
<1>11. Exist(m, b, k) /\ Exist(m, a, n)
  <2>1. ASSUME NEW i \in 0 .. n + k - 1 PROVE a + i \in Addresses
    <3>1. i \in -k .. n + 2 * k - 1
      BY <1>4
    <3> QED BY <1>1, <1>3, <3>1 DEF Fits
  <2>2. ASSUME NEW i \in 1 .. n PROVE a + i - 1 \in Addresses
    <3>1. i - 1 \in 0 .. n + k - 1 /\ a + (i - 1) = a + i - 1
      BY <1>4
    <3> QED BY <2>1, <3>1
  <2>3. ASSUME NEW i \in 1 .. k PROVE b + i - 1 \in Addresses
    <3>1. n + (i - 1) \in 0 .. n + k - 1 /\ a + (n + (i - 1)) = b + i - 1
      BY <1>4, <1>5
    <3>2. a + (n + (i - 1)) \in Addresses
      BY <2>1, <3>1
    <3> QED BY <3>1, <3>2
  <2> QED BY <1>10, <2>2, <2>3 DEF Exist
<1>12. Wrote(m2, m, b, g, k)
  BY <1>1, <1>2, <1>4, <1>5, <1>8, <1>9, <1>10, <1>11, StoredWrites
<1>13. Holds(m2, b, g, k) /\ DOMAIN m2 = Addresses /\ m2 = [x \in DOMAIN m2 |-> m2[x]]
  BY <1>10, <1>12 DEF Wrote
<1>14. Holds(m2, a, s, n)
  <2>1. a + n <= b /\ k \in Nat
    BY <1>4, <1>5
  <2>2. Holds(m, a, s, n)
    BY <1>3, <1>5
  <2> QED BY <1>4, <1>5, <1>11, <1>12, <2>1, <2>2, HeldElsewhere
<1>15. PICK h, l : h = s \o g /\ l = n + k
  OBVIOUS
<1>16. Holds(m2, a, h, l) /\ Elements(h, l) /\ l \in Nat
  <2>1. Joins(h, s, n, g, k)
    BY <1>3, <1>4, <1>9, <1>15, Concatenated
  <2>2. Holds(m2, a, h, l)
    BY <1>4, <1>5, <1>13, <1>14, <1>15, <2>1, HeldJoin
  <2> QED BY <1>4, <1>15, <2>1, <2>2 DEF Joins
<1>17. h = AeadOf(n)
  BY <1>1, <1>7, <1>15 DEF AeadOf
<1>18. Cells(m2, a, l) = h /\ Len(h) = l
  BY <1>4, <1>16, HeldCells
<1>19. Output = h /\ OutputAt = a
  BY <1>1, <1>2, <1>17 DEF Output, OutputAt, Opening
<1>20. Progress(m2, call, todo')
  BY <1>2, <1>13 DEF Progress, LoopPlace, SignCells
<1> QED BY <1>1, <1>18, <1>19, <1>20 DEF Arrives

\* The box is copied apart, into MAC and cipher.
LEMMA SealScatterArrives ==
  ASSUME StreamShape, Progress(mem, call, todo), SealScatter
  PROVE  Arrives(mem', todo')
<1>1. PICK m, m2, n, k, a, b, r, s, g :
        /\ m = mem /\ m2 = mem' /\ n = call.n /\ k = MacLen /\ b = call.shift
        /\ a = call.shift - MacLen /\ r = Scratch /\ s = BoxCipher(call.fam, call.n)
        /\ g = Macs(call.fam, BoxCipher(call.fam, call.n))
  OBVIOUS
<1>2. /\ DOMAIN todo = {"phase", "src", "dst", "left", "ctr", "first"} /\ Fits(call)
      /\ todo.phase = "scatter" /\ call.op = "seal_detached" /\ todo'.phase = "done"
      /\ m2 = Stored(Stored(m, a, Cells(m, r, k)), b, Cells(m, r + k, n))
  BY <1>1, CallFits DEF StreamShape, SealScatter, Phase, PhasesOf, Ops
<1>3. /\ n \in Nat /\ k \in Nat \ {0} /\ k \in Nat /\ b \in Int /\ r \in Int
      /\ Addresses \subseteq Int
  BY <1>1, <1>2 DEF Fits
<1>4. a \in Int /\ b = a + k /\ r + k \in Int
  BY <1>1, <1>3
<1>5. Elements(s, n) /\ Elements(g, k)
  BY <1>1, <1>3, MessageCells, MacCells
<1>6. PICK h, l : h = g \o s /\ l = k + n
  OBVIOUS
<1>7. Joins(h, g, k, s, n) /\ l \in Nat
  <2>1. Joins(h, g, k, s, n)
    BY <1>3, <1>5, <1>6, Concatenated
  <2> QED BY <1>3, <1>6, <2>1
<1>8. h = BoxOf(call.fam, n)
  BY <1>1, <1>6 DEF BoxOf
<1>9. Holds(m, r, h, l) /\ DOMAIN m = Addresses
  BY <1>1, <1>2, <1>6, <1>8 DEF Progress
<1>10. Cells(m, r, k) = g /\ Cells(m, r + k, n) = s
  <2>1. PICK q : q = r + k
    OBVIOUS
  <2>2. Both(m, r, g, k, q, s, n)
    BY <1>3, <1>6, <1>7, <1>9, <2>1, HeldParts
  <2>3. Holds(m, r, g, k) /\ Holds(m, q, s, n) /\ q \in Int
    BY <1>4, <2>1, <2>2 DEF Both
  <2>4. Cells(m, r, k) = g
    BY <1>3, <1>5, <2>3, HeldCells
  <2>5. Cells(m, q, n) = s
    BY <1>3, <1>5, <2>3, HeldCells
  <2> QED BY <2>1, <2>4, <2>5
<1>11. Exist(m, a, k) /\ Exist(m, b, n)
  <2>1. ASSUME NEW i \in -k .. n - 1 PROVE b + i \in Addresses
    <3>1. i \in -k .. n + 2 * k - 1
      BY <1>3
    <3> QED BY <1>1, <1>2, <3>1 DEF Fits
  <2>2. ASSUME NEW i \in 1 .. n PROVE b + i - 1 \in Addresses
    <3>1. i - 1 \in -k .. n - 1 /\ b + (i - 1) = b + i - 1
      BY <1>3
    <3> QED BY <2>1, <3>1
  <2>3. ASSUME NEW i \in 1 .. k PROVE a + i - 1 \in Addresses
    <3>1. i - 1 - k \in -k .. n - 1 /\ b + (i - 1 - k) = a + i - 1
      BY <1>3, <1>4
    <3>2. b + (i - 1 - k) \in Addresses
      BY <2>1, <3>1
    <3> QED BY <3>1, <3>2
  <2> QED BY <1>9, <2>2, <2>3 DEF Exist
<1>12. PICK m1 : m1 = Stored(m, a, g)
  OBVIOUS
<1>13. Wrote(m1, m, a, g, k)
  BY <1>3, <1>4, <1>5, <1>9, <1>11, <1>12, StoredWrites
<1>14. Holds(m1, a, g, k) /\ DOMAIN m1 = Addresses
  BY <1>9, <1>13 DEF Wrote
<1>15. Exist(m1, a, k) /\ Exist(m1, b, n)
  BY <1>9, <1>11, <1>14 DEF Exist
<1>16. Wrote(m2, m1, b, s, n)
  BY <1>2, <1>3, <1>5, <1>10, <1>12, <1>14, <1>15, StoredWrites
<1>17. Holds(m2, b, s, n) /\ DOMAIN m2 = Addresses /\ m2 = [x \in DOMAIN m2 |-> m2[x]]
  BY <1>14, <1>16 DEF Wrote
<1>18. Holds(m2, a, g, k)
  <2>1. a + k <= b
    BY <1>3, <1>4
  <2> QED BY <1>3, <1>4, <1>14, <1>15, <1>16, <2>1, HeldElsewhere
<1>19. Holds(m2, a, h, l) /\ Elements(h, l)
  <2>1. Holds(m2, a, h, l)
    BY <1>3, <1>4, <1>6, <1>7, <1>17, <1>18, HeldJoin
  <2> QED BY <1>6, <1>7, <2>1 DEF Joins
<1>20. Cells(m2, a, l) = h /\ Len(h) = l
  BY <1>4, <1>7, <1>19, HeldCells
<1>21. Output = h /\ OutputAt = a
  BY <1>1, <1>2, <1>8 DEF Output, OutputAt, Opening
<1>22. Progress(m2, call, todo')
  BY <1>2, <1>17 DEF Progress, LoopPlace, SignCells
<1> QED BY <1>1, <1>20, <1>21, <1>22 DEF Arrives

\* What a box or a sealed message is opened from is what was verified.
LEMMA OpenVerifyArrives ==
  ASSUME VerifyInv, VerifyInv', call' = call, Progress(mem, call, todo), OpenVerify
  PROVE  Arrives(mem', todo')
<1>1. PICK take, n, a : take = Smaller(call.n, Half) /\ n = call.n /\ a = todo.src + MacLen
  OBVIOUS
<1>2. /\ DOMAIN todo = {"phase", "src", "dst", "left", "ctr", "first"}
      /\ Fits(call) /\ LoopFits(call)
      /\ todo.phase = "verify" /\ call.op \in {"open", "open_detached"} /\ todo.left = n
      /\ mem' = mem
  BY <1>1, CallFits, LoopInMemory DEF StreamShape, OpenVerify, VerifyInv
<1>3. n \in Nat /\ Half \in Nat \ {0} /\ MacLen \in Nat /\ InBase(call) \in Int
  BY <1>1, <1>2 DEF Fits, LoopFits
<1>4. PICK s : s = [i \in 1 .. take |-> Xored(Cells(mem, a, n)[i],
                                              KeyByte(call.fam, <<0, 0>>, Half + i - 1))]
  OBVIOUS
<1>5. \/ todo' = [todo EXCEPT !.phase = "first", !.first = s]
      \/ todo' = [todo EXCEPT !.phase = "rejected"]
  BY <1>1, <1>4 DEF OpenVerify
<1>6. CASE todo' = [todo EXCEPT !.phase = "first", !.first = s]
  <2>1. /\ todo'.phase = "first" /\ todo'.first = s /\ todo'.src = todo.src
        /\ todo'.dst = todo.dst /\ todo'.left = n
    BY <1>2, <1>6
  <2>2. Opening(call.op) /\ ~call.bad
    BY <1>2, <2>1 DEF VerifyInv, NothingBeforeVerified, Opening
  <2>3. Unread(mem, call, 0) /\ todo.src = InBase(call) - MacLen
    BY <1>2, <2>2, Accepted
  <2>4. a = InBase(call)
    BY <1>1, <1>3, <2>3
  <2>5. take \in 0 .. n /\ take <= Half
    BY <1>1, <1>3 DEF Smaller
  <2>6. ASSUME NEW i \in 1 .. take PROVE s[i] = OutCell(call, i - 1)
    <3>1. i \in 1 .. Half /\ i \in 1 .. n /\ i - 1 \in 0 .. n - 1 /\ a + i - 1 = a + (i - 1)
      BY <1>3, <2>4, <2>5
    <3>2. mem[a + i - 1] = InCell(call, i - 1)
      BY <1>1, <2>3, <2>4, <3>1 DEF Unread
    <3>3. Base(call.op) = Half
      BY <1>2 DEF Base
    <3>4. Cells(mem, a, n)[i] = mem[a + i - 1]
      BY <3>1 DEF Cells
    <3>5. s[i] = Xored(Cells(mem, a, n)[i], KeyByte(call.fam, <<0, 0>>, Half + i - 1))
      BY <1>4
    <3> QED BY <3>1, <3>2, <3>3, <3>4, <3>5, FirstKey
  <2>7. Elements(s, take)
    BY <1>4 DEF Elements
  <2>8. LoopPlace(call, todo')
    BY <1>1, <1>2, <2>1, <2>2, <2>3, <2>6, <2>7 DEF LoopPlace, Progress
  <2>9. n - n = 0
    BY <1>3
  <2>10. Progress(mem', call, todo')
    BY <1>1, <1>2, <2>1, <2>3, <2>8, <2>9 DEF Progress, SignCells
  <2> QED BY <2>1, <2>10 DEF Arrives
<1>7. CASE todo' = [todo EXCEPT !.phase = "rejected"]
  <2>1. todo'.phase = "rejected"
    BY <1>2, <1>7
  <2>2. Progress(mem', call, todo')
    BY <1>2, <2>1 DEF Progress, LoopPlace, SignCells
  <2> QED BY <2>1, <2>2 DEF Arrives
<1> QED BY <1>5, <1>6, <1>7

\* The AEAD reads its cipher again after it verified it.
LEMMA AeadVerifyArrives ==
  ASSUME VerifyInv, VerifyInv', call' = call, LayoutAllowed, Progress(mem, call, todo), AeadVerify
  PROVE  Arrives(mem', todo')
<1>1. PICK n : n = call.n
  OBVIOUS
<1>2. /\ DOMAIN todo = {"phase", "src", "dst", "left", "ctr", "first"}
      /\ Fits(call) /\ LoopFits(call)
      /\ todo.phase = "verify" /\ call.op = "aead_open" /\ todo.left = n /\ mem' = mem
      /\ todo'.phase \in {"stream", "rejected"} /\ todo'.src = todo.src /\ todo'.dst = todo.dst
      /\ todo'.left = n
  BY <1>1, CallFits, LoopInMemory DEF StreamShape, AeadVerify, VerifyInv, Phase
<1>3. n \in Nat /\ n - n = 0 /\ InBase(call) \in Int /\ OutBase(call) \in Int
  BY <1>1, <1>2 DEF Fits, LoopFits
<1>4. CASE todo'.phase = "stream"
  <2>1. Opening(call.op) /\ ~call.bad
    BY <1>2, <1>4 DEF VerifyInv, NothingBeforeVerified, Opening
  <2>2. Unread(mem, call, 0) /\ todo.src = InBase(call) - 0
    BY <1>2, <2>1, Accepted
  <2>3. Apart(call)
    BY <1>2, LayoutApart DEF VerifyInv
  <2>4. todo.dst = OutBase(call)
    BY <1>2 DEF Progress, LoopPlace
  <2>5. todo.src = InBase(call) + 0 /\ todo.dst = OutBase(call) + 0
    BY <1>3, <2>2, <2>4
  <2>6. LoopPlace(call, todo')
    BY <1>1, <1>2, <1>3, <1>4, <2>3, <2>5 DEF LoopPlace
  <2>7. Written(mem, call, 0)
    BY DEF Written
  <2>8. Progress(mem', call, todo')
    BY <1>1, <1>2, <1>3, <1>4, <2>2, <2>6, <2>7 DEF Progress, SignCells
  <2> QED BY <1>4, <2>8 DEF Arrives
<1>5. CASE todo'.phase = "rejected"
  <2>1. Progress(mem', call, todo')
    BY <1>2, <1>5 DEF Progress, LoopPlace, SignCells
  <2> QED BY <1>5, <2>1 DEF Arrives
<1> QED BY <1>2, <1>4, <1>5

\* The detached form gathers MAC and cipher in the buffer of its own.
LEMMA OpenGatherArrives ==
  ASSUME StreamShape, Progress(mem, call, todo), OpenGather
  PROVE  Arrives(mem', todo')
<1>1. /\ DOMAIN todo = {"phase", "src", "dst", "left", "ctr", "first"}
      /\ todo.phase = "gather" /\ todo'.phase = "verify" /\ todo'.dst = todo.dst
      /\ mem' = Stored(mem, Scratch, Cells(mem, 0, MacLen + call.n))
  BY DEF StreamShape, OpenGather, Phase
<1>2. DOMAIN mem' = Addresses /\ mem' = [a \in DOMAIN mem' |-> mem'[a]]
  BY <1>1 DEF Stored, Progress
<1>3. Progress(mem', call, todo')
  BY <1>1, <1>2 DEF Progress, LoopPlace, SignCells
<1> QED BY <1>1, <1>3 DEF Arrives

\* Where a signature is written: beside the message, or all of it in front.
SignPlace(c) ==
  /\ c.shift >= c.n \/ c.shift + MacLen + MacLen <= 0
  /\ \A i \in 1 .. MacLen : /\ c.shift + i - 1 \in Addresses
                            /\ (c.shift + MacLen) + i - 1 \in Addresses
  /\ \A i \in 1 .. c.n : /\ 0 + i - 1 \in Addresses
                         /\ (c.shift + 2 * MacLen) + i - 1 \in Addresses

\* The layouts that are allowed to naion_sign_ed25519.
LEMMA SignApart ==
  ASSUME StreamShape, InputMade, LayoutAllowed, call.op = "sign"
  PROVE  SignPlace(call)
<1>1. PICK n, k, a, l : n = call.n /\ k = MacLen /\ a = call.shift /\ l = Len(call.input)
  OBVIOUS
<1>2. Fits(call)
  BY CallFits DEF StreamShape
<1>3. n \in Nat /\ k \in Nat \ {0} /\ a \in Int
  BY <1>1, <1>2 DEF Fits
<1>4. l = n
  BY <1>1, CallInput DEF SealedLen
<1>5. a >= l \/ a + 2 * k <= 0
  BY <1>1 DEF LayoutAllowed
<1>6. ASSUME NEW i \in 0 .. n + 2 * k - 1 PROVE a + i \in Addresses /\ i \in Addresses
  <2>1. i \in -k .. n + 2 * k - 1
    BY <1>3
  <2> QED BY <1>1, <1>2, <2>1 DEF Fits
<1>7. ASSUME NEW i \in 1 .. k PROVE a + i - 1 \in Addresses /\ (a + k) + i - 1 \in Addresses
  <2>1. PICK x, y : x = i - 1 /\ y = k + i - 1
    OBVIOUS
  <2>2. x \in 0 .. n + 2 * k - 1 /\ y \in 0 .. n + 2 * k - 1
        /\ a + x = a + i - 1 /\ a + y = (a + k) + i - 1
    BY <1>3, <2>1
  <2> QED BY <1>6, <2>2
<1>8. ASSUME NEW i \in 1 .. n PROVE 0 + i - 1 \in Addresses /\ (a + 2 * k) + i - 1 \in Addresses
  <2>1. PICK x, y : x = i - 1 /\ y = 2 * k + i - 1
    OBVIOUS
  <2>2. x \in 0 .. n + 2 * k - 1 /\ y \in 0 .. n + 2 * k - 1
        /\ x = 0 + i - 1 /\ a + y = (a + 2 * k) + i - 1
    BY <1>3, <2>1
  <2> QED BY <1>6, <2>2
<1>9. a >= n \/ a + k + k <= 0
  BY <1>3, <1>4, <1>5
<1> QED BY <1>1, <1>7, <1>8, <1>9 DEF SignPlace

\* The message to be signed stays where it is until the signature is made.
LEMMA SignRArrives ==
  ASSUME StreamShape, InputMade, LayoutAllowed, Progress(mem, call, todo), SignR
  PROVE  Arrives(mem', todo')
<1>1. PICK m, m2, n, k, a, s, g :
        /\ m = mem /\ m2 = mem' /\ n = call.n /\ k = MacLen /\ a = call.shift
        /\ s = Message(call.n) /\ g = FirstHalf(call)
  OBVIOUS
<1>2. /\ DOMAIN todo = {"phase", "src", "dst", "left", "ctr", "first"} /\ Fits(call)
      /\ todo.phase = "sig1" /\ call.op = "sign" /\ todo'.phase = "sig2"
      /\ m2 = Stored(m, a, SigHalf(1, Cells(m, 0, n)))
  BY <1>1, CallFits DEF StreamShape, SignR, Phase, PhasesOf, Ops
<1>3. SignPlace(call)
  BY <1>2, SignApart
<1>4. /\ n \in Nat /\ k \in Nat \ {0} /\ a \in Int /\ Addresses \subseteq Int
      /\ a >= n \/ a + k + k <= 0
      /\ Exist(m, a, k) /\ Exist(m, 0, n) /\ DOMAIN m = Addresses
  BY <1>1, <1>2, <1>3 DEF Fits, SignPlace, Exist, Progress
<1>5. Holds(m, 0, s, n) /\ Elements(s, n)
  BY <1>1, <1>2, <1>4, MessageCells DEF Progress, SignCells
<1>6. Cells(m, 0, n) = s
  BY <1>4, <1>5, HeldCells
<1>7. m2 = Stored(m, a, g) /\ Elements(g, k)
  BY <1>1, <1>2, <1>6, MacCells DEF FirstHalf
<1>8. Wrote(m2, m, a, g, k)
  BY <1>4, <1>7, StoredWrites
<1>9. Holds(m2, 0, s, n)
  <2>1. 0 + n <= a \/ a + k <= 0
    BY <1>4
  <2> QED BY <1>4, <1>5, <1>8, <2>1, HeldElsewhere
<1>10. Holds(m2, a, g, k) /\ DOMAIN m2 = Addresses /\ m2 = [x \in DOMAIN m2 |-> m2[x]]
  BY <1>4, <1>8 DEF Wrote
<1>11. Progress(m2, call, todo')
  BY <1>1, <1>2, <1>9, <1>10 DEF Progress, LoopPlace, SignCells
<1> QED BY <1>1, <1>2, <1>11 DEF Arrives

\* The second half is made of the first and the message.
LEMMA SignSArrives ==
  ASSUME StreamShape, InputMade, LayoutAllowed, Progress(mem, call, todo), SignS
  PROVE  Arrives(mem', todo')
<1>1. PICK m, m2, n, k, a, b, s, g, h :
        /\ m = mem /\ m2 = mem' /\ n = call.n /\ k = MacLen /\ a = call.shift
        /\ b = call.shift + MacLen /\ s = Message(call.n) /\ g = FirstHalf(call)
        /\ h = SecondHalf(call)
  OBVIOUS
<1>2. /\ DOMAIN todo = {"phase", "src", "dst", "left", "ctr", "first"} /\ Fits(call)
      /\ todo.phase = "sig2" /\ call.op = "sign" /\ todo'.phase = "move"
      /\ m2 = Stored(m, b, SigHalf(2, Cells(m, a, k) \o Cells(m, 0, n)))
  BY <1>1, CallFits DEF StreamShape, SignS, Phase, PhasesOf, Ops
<1>3. SignPlace(call)
  BY <1>2, SignApart
<1>4. /\ n \in Nat /\ k \in Nat \ {0} /\ a \in Int /\ Addresses \subseteq Int
      /\ a >= n \/ a + k + k <= 0
      /\ Exist(m, a, k) /\ Exist(m, b, k) /\ Exist(m, 0, n) /\ DOMAIN m = Addresses
  BY <1>1, <1>2, <1>3 DEF Fits, SignPlace, Exist, Progress
<1>5. /\ Holds(m, 0, s, n) /\ Elements(s, n) /\ Holds(m, a, g, k) /\ Elements(g, k)
      /\ b = a + k /\ b \in Int /\ k \in Nat
  BY <1>1, <1>2, <1>4, MessageCells, MacCells DEF Progress, SignCells, FirstHalf
<1>6. Cells(m, 0, n) = s /\ Cells(m, a, k) = g
  <2>1. Cells(m, 0, n) = s
    BY <1>4, <1>5, HeldCells
  <2>2. Cells(m, a, k) = g
    BY <1>4, <1>5, HeldCells
  <2> QED BY <2>1, <2>2
<1>7. m2 = Stored(m, b, h) /\ Elements(h, k)
  <2>1. h = SigHalf(2, g \o s)
    BY <1>1 DEF SecondHalf
  <2> QED BY <1>1, <1>2, <1>6, <2>1, MacCells
<1>8. Wrote(m2, m, b, h, k)
  BY <1>4, <1>5, <1>7, StoredWrites
<1>9. Holds(m2, 0, s, n)
  <2>1. 0 + n <= b \/ b + k <= 0
    BY <1>4, <1>5
  <2> QED BY <1>4, <1>5, <1>8, <2>1, HeldElsewhere
<1>10. Holds(m2, a, g, k)
  <2>1. a + k <= b
    BY <1>4, <1>5
  <2> QED BY <1>4, <1>5, <1>8, <2>1, HeldElsewhere
<1>11. Holds(m2, b, h, k) /\ DOMAIN m2 = Addresses /\ m2 = [x \in DOMAIN m2 |-> m2[x]]
  BY <1>4, <1>8 DEF Wrote
<1>12. Progress(m2, call, todo')
  BY <1>1, <1>2, <1>9, <1>10, <1>11 DEF Progress, LoopPlace, SignCells
<1> QED BY <1>1, <1>2, <1>12 DEF Arrives

\* The message is moved behind its signature.
LEMMA SignMoveArrives ==
  ASSUME StreamShape, InputMade, LayoutAllowed, Progress(mem, call, todo), SignMove
  PROVE  Arrives(mem', todo')
<1>1. PICK m, m2, n, k, a, b, d, e, s, g, h :
        /\ m = mem /\ m2 = mem' /\ n = call.n /\ k = MacLen /\ a = call.shift
        /\ b = call.shift + MacLen /\ s = Message(call.n) /\ g = FirstHalf(call)
        /\ h = SecondHalf(call) /\ d = call.shift + 2 * MacLen /\ e = MacLen + MacLen
  OBVIOUS
<1>2. /\ DOMAIN todo = {"phase", "src", "dst", "left", "ctr", "first"} /\ Fits(call)
      /\ todo.phase = "move" /\ call.op = "sign" /\ todo'.phase = "done"
      /\ m2 = Stored(m, d, Cells(m, 0, n))
  BY <1>1, CallFits DEF StreamShape, SignMove, Phase, PhasesOf, Ops
<1>3. SignPlace(call)
  BY <1>2, SignApart
<1>4. /\ n \in Nat /\ k \in Nat \ {0} /\ a \in Int /\ Addresses \subseteq Int
      /\ Exist(m, a, k) /\ Exist(m, b, k) /\ Exist(m, d, n) /\ DOMAIN m = Addresses
  BY <1>1, <1>2, <1>3 DEF Fits, SignPlace, Exist, Progress
<1>5. /\ Holds(m, 0, s, n) /\ Elements(s, n) /\ Holds(m, a, g, k) /\ Elements(g, k)
      /\ Holds(m, b, h, k) /\ Elements(h, k)
  BY <1>1, <1>2, <1>4, MessageCells, MacCells DEF Progress, SignCells, FirstHalf, SecondHalf
<1>6. /\ b = a + k /\ b \in Int /\ k \in Nat /\ d \in Int /\ d = a + e /\ e \in Nat /\ e = k + k
  BY <1>1, <1>4
<1>7. Cells(m, 0, n) = s
  BY <1>4, <1>5, HeldCells
<1>8. Wrote(m2, m, d, s, n)
  BY <1>2, <1>4, <1>5, <1>6, <1>7, StoredWrites
<1>9. Holds(m2, a, g, k)
  <2>1. a + k <= d
    BY <1>4, <1>6
  <2> QED BY <1>4, <1>5, <1>6, <1>8, <2>1, HeldElsewhere
<1>10. Holds(m2, b, h, k)
  <2>1. b + k <= d
    BY <1>4, <1>6
  <2> QED BY <1>4, <1>5, <1>6, <1>8, <2>1, HeldElsewhere
<1>11. Holds(m2, d, s, n) /\ DOMAIN m2 = Addresses /\ m2 = [x \in DOMAIN m2 |-> m2[x]]
  BY <1>4, <1>8 DEF Wrote
<1>12. PICK f, o, l : f = g \o h /\ o = (g \o h) \o s /\ l = e + n
  OBVIOUS
<1>13. Joins(f, g, k, h, k)
  BY <1>5, <1>6, <1>12, Concatenated
<1>14. Elements(f, e) /\ Holds(m2, a, f, e)
  <2>1. Holds(m2, a, f, e)
    BY <1>4, <1>6, <1>9, <1>10, <1>13, HeldJoin
  <2> QED BY <1>6, <1>13, <2>1 DEF Joins
<1>15. Joins(o, f, e, s, n)
  <2>1. o = f \o s
    BY <1>12
  <2> QED BY <1>4, <1>5, <1>6, <1>14, <2>1, Concatenated
<1>16. Elements(o, l) /\ Holds(m2, a, o, l) /\ l \in Nat
  <2>1. Holds(m2, a, o, l)
    BY <1>4, <1>6, <1>11, <1>12, <1>14, <1>15, HeldJoin
  <2>2. l \in Nat
    BY <1>4, <1>6, <1>12
  <2> QED BY <1>12, <1>15, <2>1, <2>2 DEF Joins
<1>17. Cells(m2, a, l) = o /\ Len(o) = l
  BY <1>4, <1>16, HeldCells
<1>18. Output = o /\ OutputAt = a
  <2>1. o = SignedOf(n)
    BY <1>1, <1>12 DEF SignedOf, FirstHalf, SecondHalf
  <2> QED BY <1>1, <1>2, <2>1 DEF Output, OutputAt, Opening
<1>19. Progress(m2, call, todo')
  BY <1>2, <1>11 DEF Progress, LoopPlace, SignCells
<1> QED BY <1>1, <1>17, <1>18, <1>19 DEF Arrives

\* A signature that verifies is of the message behind it.
LEMMA SignVerifyArrives ==
  ASSUME VerifyInv, VerifyInv', call' = call, Progress(mem, call, todo), SignVerify
  PROVE  Arrives(mem', todo')
<1>1. /\ DOMAIN todo = {"phase", "src", "dst", "left", "ctr", "first"}
      /\ todo.phase = "verify" /\ call.op = "sign_open" /\ mem' = mem
      /\ todo'.phase \in {"release", "rejected"}
  BY DEF StreamShape, SignVerify, VerifyInv, Phase
<1>2. ASSUME todo'.phase = "release" PROVE Holds(mem, 2 * MacLen, Message(call.n), call.n)
  <2>1. Opening(call.op) /\ ~call.bad
    BY <1>1, <1>2 DEF VerifyInv, NothingBeforeVerified, Opening
  <2> QED BY <1>1, <2>1, Accepted
<1>3. Progress(mem', call, todo')
  BY <1>1, <1>2 DEF Progress, LoopPlace, SignCells
<1> QED BY <1>1, <1>3 DEF Arrives

\* The message is moved to the front.
LEMMA SignReleaseArrives ==
  ASSUME StreamShape, Progress(mem, call, todo), SignRelease
  PROVE  Arrives(mem', todo')
<1>1. PICK m, m2, n, a, b, s :
        /\ m = mem /\ m2 = mem' /\ n = call.n /\ a = call.shift /\ b = 2 * MacLen
        /\ s = Message(call.n)
  OBVIOUS
<1>2. /\ DOMAIN todo = {"phase", "src", "dst", "left", "ctr", "first"} /\ Fits(call)
      /\ todo.phase = "release" /\ call.op = "sign_open" /\ todo'.phase = "done"
      /\ m2 = Stored(m, a, Cells(m, b, n))
  BY <1>1, CallFits DEF StreamShape, SignRelease, Phase, PhasesOf, Ops
<1>3. /\ n \in Nat /\ a \in Int /\ b \in Int /\ MacLen \in Nat \ {0} /\ Addresses \subseteq Int
      /\ DOMAIN m = Addresses
  BY <1>1, <1>2 DEF Fits, Progress
<1>4. Exist(m, a, n)
  <2>1. ASSUME NEW i \in 1 .. n PROVE a + i - 1 \in Addresses
    <3>1. i - 1 \in -MacLen .. n + 2 * MacLen - 1 /\ a + (i - 1) = a + i - 1
      BY <1>3
    <3>2. a + (i - 1) \in Addresses
      BY <1>1, <1>2, <3>1 DEF Fits
    <3> QED BY <3>1, <3>2
  <2> QED BY <1>3, <2>1 DEF Exist
<1>5. Holds(m, b, s, n) /\ Elements(s, n)
  BY <1>1, <1>2, <1>3, MessageCells DEF Progress, SignCells
<1>6. Cells(m, b, n) = s /\ Len(s) = n
  BY <1>3, <1>5, HeldCells
<1>7. Wrote(m2, m, a, s, n)
  BY <1>2, <1>3, <1>4, <1>5, <1>6, StoredWrites
<1>8. Holds(m2, a, s, n) /\ DOMAIN m2 = Addresses /\ m2 = [x \in DOMAIN m2 |-> m2[x]]
  BY <1>3, <1>7 DEF Wrote
<1>9. Cells(m2, a, n) = s
  BY <1>3, <1>5, <1>8, HeldCells
<1>10. Output = s /\ OutputAt = a
  BY <1>1, <1>2 DEF Output, OutputAt, Opening
<1>11. Progress(m2, call, todo')
  BY <1>2, <1>8 DEF Progress, LoopPlace, SignCells
<1> QED BY <1>1, <1>6, <1>9, <1>10, <1>11 DEF Arrives

\* A call starts with its input in place and no output.
LEMMA ProgressAtStart ==
  ASSUME StreamInit, LayoutAllowed
  PROVE  Progress(mem, call, todo)
<1>1. VerifyInv /\ StreamShape /\ InputMade
  BY VerifyAtStart DEF VerifyInv
<1>2. /\ mem = [a \in DOMAIN mem |-> mem[a]] /\ DOMAIN mem = Addresses
      /\ Holds(mem, 0, call.input, Len(call.input))
      /\ todo = Start(call.op, call.fam, call.n, call.shift)
  BY MemoryAtStart
<1>3. PICK n : n = call.n
  OBVIOUS
<1>4. Fits(call) /\ LoopFits(call)
  BY <1>1, CallFits, LoopInMemory DEF StreamShape
<1>5. n \in Nat /\ n - n = 0 /\ InBase(call) \in Int /\ OutBase(call) \in Int /\ MacLen \in Int
      /\ Scratch \in Int /\ call.shift \in Int
  BY <1>3, <1>4 DEF Fits, LoopFits
<1>6. todo.left = n
  BY <1>1, <1>2, <1>3 DEF Start, StreamShape, Ops
<1>7. ASSUME ~Opening(call.op) PROVE Holds(mem, 0, Message(n), n)
  <2>1. ~call.bad
    BY <1>1, <1>7 DEF InputMade
  <2>2. call.input = InputOf(call.op, call.fam, n) /\ Len(call.input) = SealedLen(call.op, n)
    BY <1>1, <1>3, <2>1, InputUnchanged
  <2>3. call.input = Message(n) /\ Len(call.input) = n
    BY <1>7, <2>2 DEF InputOf, SealedLen, Opening
  <2> QED BY <1>2, <2>3
<1>8. ASSUME call.op \in {"xor", "seal", "seal_detached", "aead_seal"}
      PROVE  Unread(mem, call, 0)
  <2>1. ~Opening(call.op) /\ InBase(call) = 0
    BY <1>8 DEF Opening, InBase
  <2>2. InSeq(call) = Message(n)
    BY <1>3, <2>1 DEF InSeq
  <2> QED BY <1>3, <1>5, <1>7, <2>1, <2>2, AllUnread
<1>9. Written(mem, call, 0)
  BY DEF Written
<1>10. CASE call.op \in {"xor", "aead_seal"}
  <2>1. todo.phase = "stream" /\ todo.src = 0 /\ todo.dst = call.shift
    BY <1>2, <1>10 DEF Start
  <2>2. InBase(call) + 0 = 0 /\ OutBase(call) + 0 = call.shift
    BY <1>5, <1>10 DEF InBase, OutBase
  <2>3. Apart(call)
    BY <1>1, <1>10, LayoutApart
  <2>4. LoopPlace(call, todo)
    BY <1>3, <1>5, <1>6, <2>1, <2>2, <2>3 DEF LoopPlace
  <2> QED BY <1>2, <1>3, <1>5, <1>6, <1>8, <1>9, <1>10, <2>1, <2>4 DEF Progress, SignCells
<1>11. CASE call.op \in {"seal", "seal_detached"}
  <2>1. todo.phase = "first" /\ todo.src = 0
        /\ todo.dst = IF call.op = "seal" THEN call.shift ELSE Scratch
    BY <1>2, <1>11 DEF Start
  <2>2. InBase(call) = 0 /\ ~Opening(call.op)
        /\ OutBase(call) = (IF call.op = "seal" THEN call.shift ELSE Scratch) + MacLen
    BY <1>11 DEF InBase, OutBase, Opening
  <2>3. todo.dst = OutBase(call) - MacLen
    BY <1>5, <2>1, <2>2
  <2>4. LoopPlace(call, todo)
    BY <2>1, <2>2, <2>3 DEF LoopPlace
  <2> QED BY <1>2, <1>3, <1>5, <1>6, <1>8, <1>11, <2>1, <2>4 DEF Progress, SignCells
<1>12. CASE call.op \in {"open", "open_detached", "aead_open", "sign_open"}
  <2>1. todo.phase \in {"gather", "verify"} /\ todo.dst = call.shift
    BY <1>2, <1>12 DEF Start
  <2>2. OutBase(call) = call.shift
    BY <1>12 DEF OutBase
  <2> QED BY <1>2, <2>1, <2>2 DEF Progress, LoopPlace, SignCells
<1>13. CASE call.op = "sign"
  <2>1. todo.phase = "sig1" /\ ~Opening(call.op)
    BY <1>2, <1>13 DEF Start, Opening
  <2> QED BY <1>2, <1>3, <1>7, <2>1 DEF Progress, LoopPlace, SignCells
<1> QED BY <1>1, <1>10, <1>11, <1>12, <1>13 DEF StreamShape, Ops

\* Every byte of output that is written is right, and what is still to be read is there.
OutputInv ==
  /\ VerifyInv /\ UsedInv
  /\ LayoutAllowed /\ CounterAllowed => Progress(mem, call, todo)
  /\ OutputRight

\* Every step keeps OutputInv: where layout and counter allow it, it arrives.
LEMMA OutputStep ==
  ASSUME OutputInv, StreamNext
  PROVE  OutputInv'
<1>1. VerifyInv /\ UsedInv /\ VerifyInv' /\ UsedInv'
  BY VerifyStep, UsedStep DEF OutputInv
<1>2. StreamShape /\ InputMade /\ call' = call /\ Moves
  BY <1>1, StepsMove DEF VerifyInv
<1>3. (LayoutAllowed' <=> LayoutAllowed) /\ (CounterAllowed' <=> CounterAllowed)
  BY <1>2 DEF LayoutAllowed, CounterAllowed, Behind
<1>4. ASSUME LayoutAllowed, CounterAllowed, Arrives(mem', todo')
      PROVE  OutputInv'
  BY <1>1, <1>2, <1>4 DEF Arrives, OutputInv, OutputRight, Output, OutputAt
<1> SUFFICES ASSUME LayoutAllowed, CounterAllowed PROVE Arrives(mem', todo')
  BY <1>1, <1>3, <1>4 DEF OutputInv, OutputRight
<1>5. Progress(mem, call, todo)
  BY DEF OutputInv
<1>6. ASSUME NEW next, LoopBlock(next), call.fam # "ed25519" PROVE Arrives(mem', todo')
  <2>1. AtBlock(todo.ctr, Place)
    BY <1>1, <1>6 DEF UsedInv, LoopBlock
  <2> QED BY <1>2, <1>5, <1>6, <2>1, LoopArrives
<1>7. CASE StreamEnd
  BY <1>2, <1>5, <1>7, StreamEndArrives
<1>8. CASE EasyFirst
  BY <1>2, <1>5, <1>8, EasyFirstArrives
<1>9. CASE OpenFirst
  BY <1>2, <1>5, <1>9, OpenFirstArrives
<1>10. CASE EasyMac
  BY <1>2, <1>5, <1>10, EasyMacArrives
<1>11. CASE AeadMac
  BY <1>2, <1>5, <1>11, AeadMacArrives
<1>12. CASE SealScatter
  BY <1>2, <1>5, <1>12, SealScatterArrives
<1>13. CASE OpenGather
  BY <1>2, <1>5, <1>13, OpenGatherArrives
<1>14. CASE OpenVerify
  BY <1>1, <1>2, <1>5, <1>14, OpenVerifyArrives
<1>15. CASE AeadVerify
  BY <1>1, <1>2, <1>5, <1>15, AeadVerifyArrives
<1>16. CASE SignVerify
  BY <1>1, <1>2, <1>5, <1>16, SignVerifyArrives
<1>17. CASE SignR
  BY <1>2, <1>5, <1>17, SignRArrives
<1>18. CASE SignS
  BY <1>2, <1>5, <1>18, SignSArrives
<1>19. CASE SignMove
  BY <1>2, <1>5, <1>19, SignMoveArrives
<1>20. CASE SignRelease
  BY <1>2, <1>5, <1>20, SignReleaseArrives
<1> QED BY <1>6, <1>7, <1>8, <1>9, <1>10, <1>11, <1>12, <1>13, <1>14, <1>15, <1>16, <1>17,
           <1>18, <1>19, <1>20, StepIsACase DEF StepCases

\* OutputInv holds of every call.
THEOREM OutputInvariant == StreamSpec => []OutputInv
<1>1. StreamInit => OutputInv
  <2> SUFFICES ASSUME StreamInit PROVE OutputInv
    OBVIOUS
  <2>1. VerifyInv /\ UsedInv
    BY VerifyAtStart, UsedAtStart
  <2>2. todo.phase # "done"
    BY MemoryAtStart, <2>1 DEF Start, VerifyInv, StreamShape, Ops
  <2> QED BY <2>1, <2>2, ProgressAtStart DEF OutputInv, OutputRight
<1>2. OutputInv /\ [StreamNext]_streamVars => OutputInv'
  <2> SUFFICES ASSUME OutputInv, UNCHANGED streamVars PROVE OutputInv'
    BY OutputStep
  <2>1. mem' = mem /\ call' = call /\ todo' = todo /\ used' = used
    BY DEF streamVars
  <2>2. VerifyInv'
    BY <2>1 DEF OutputInv, VerifyInv, StreamShape, NothingBeforeVerified, InputMade
  <2>3. UsedInv'
    BY <2>1 DEF OutputInv, UsedInv, StreamShape, Place, CounterAllowed
  <2>4. (LayoutAllowed' <=> LayoutAllowed) /\ (CounterAllowed' <=> CounterAllowed)
    BY <2>1 DEF LayoutAllowed, CounterAllowed, Behind
  <2>5. (LayoutAllowed /\ CounterAllowed => Progress(mem, call, todo))'
    BY <2>1, <2>4 DEF OutputInv
  <2>6. OutputRight'
    BY <2>1, <2>4 DEF OutputInv, OutputRight, Output, OutputAt
  <2> QED BY <2>2, <2>3, <2>5, <2>6 DEF OutputInv
<1> QED BY <1>1, <1>2, PTL DEF StreamSpec

\* Every sealing, opening, signing and stream call that returns has written the wire
\* layout, or the plaintext, byte for byte, also over its own input where that is allowed.
THEOREM OutputsAreRight == StreamSpec => []OutputRight
<1>1. OutputInv => OutputRight
  BY DEF OutputInv
<1> QED BY <1>1, OutputInvariant, PTL

=============================================================================
