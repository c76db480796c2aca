---------------------------- MODULE CryptoProofs ----------------------------
(***************************************************************************)
(* Proofs about crypto.hpp: HmacSha256 for any pieces and any number of    *)
(* calls, Rc4Envelope for any keys, nonces, payloads and envelopes.        *)
(***************************************************************************)
EXTENDS HmacSha256, Rc4Envelope, SequenceTheorems, TLAPS

(***************************************************************************)
(* SHA256_HMAC.                                                            *)
(***************************************************************************)
DataPieces == {DataPiece(d) : d \in Piece}

\* What the two properties say of two objects and a MAC rests on these fields.
HmacTypeOK ==
  /\ initialized \in BOOLEAN /\ updated \in BOOLEAN
  /\ since \in Seq(DataPieces)
  /\ tried \in [n : Nat, allOk : BOOLEAN]

HmacInv == HmacTypeOK /\ ObjectsInStep /\ MacCoversUpdates

\* Appending behind a prefix of one piece or none.
LEMMA AppendBehind ==
  ASSUME NEW S, NEW s \in Seq(S), NEW p \in S, NEW x
  PROVE  /\ Append(<<>> \o s, p) = <<>> \o Append(s, p)
         /\ Append(<<x>> \o s, p) = <<x>> \o Append(s, p)
         /\ Append(s, p) \in Seq(S) /\ Append(s, p) # <<>>
         /\ <<>> \o s = s
<1> DEFINE T == S \cup {x}
<1>1. s \in Seq(T) /\ p \in T /\ <<x>> \in Seq(T) /\ <<>> \in Seq(T)
  OBVIOUS
<1>2. Append(s, p) \in Seq(S) /\ Append(s, p) # <<>> /\ <<>> \o s = s
  <2>1. Append(s, p) \in Seq(S)
    OBVIOUS
  <2>2. Append(s, p) # <<>>
    <3>1. Len(Append(s, p)) = Len(s) + 1 /\ Len(s) \in Nat /\ Len(<<>>) = 0
      OBVIOUS
    <3> QED
      BY ONLY <3>1
  <2>3. <<>> \o s = s
    OBVIOUS
  <2> QED
    BY <2>1, <2>2, <2>3
<1>3. Append(<<>> \o s, p) = <<>> \o Append(s, p)
  BY <1>2
<1> HIDE DEF T
<1>4. Append(<<x>> \o s, p) = <<x>> \o Append(s, p)
  BY <1>1
<1> QED
  BY <1>2, <1>3, <1>4

\* An object of one piece or two.
LEMMA AppendFirst ==
  ASSUME NEW x, NEW y
  PROVE  Append(<<>>, y) = <<y>> /\ Append(<<x>>, y) = <<x, y>>
<1>1. Append(<<>>, y) = <<y>>
  OBVIOUS
<1>2. Append(<<x>>, y) = <<x, y>>
  <2> DEFINE T == {x, y}
  <2>1. /\ Append(<<x>>, y) \in Seq(T) /\ Len(Append(<<x>>, y)) = 2
        /\ Append(<<x>>, y)[1] = x /\ Append(<<x>>, y)[2] = y
    <3>1. <<x>> \in Seq(T) /\ y \in T /\ Len(<<x>>) = 1 /\ <<x>>[1] = x
      OBVIOUS
    <3> HIDE DEF T
    <3> QED
      BY <3>1
  <2>2. /\ <<x, y>> \in Seq(T) /\ Len(<<x, y>>) = 2
        /\ <<x, y>>[1] = x /\ <<x, y>>[2] = y
    OBVIOUS
  <2>3. \A i \in 1 .. 2 : Append(<<x>>, y)[i] = <<x, y>>[i]
    BY <2>1, <2>2
  <2> HIDE DEF T
  <2> QED
    BY <2>1, <2>2, <2>3, SeqEqual
<1> QED
  BY <1>1, <1>2

\* What ShaSummary answers for each size of buffer.
LEMMA SummaryCases ==
  ASSUME NEW o, NEW size \in Size
  PROVE  /\ ShaSummary(o, size).ok <=> size = "exact"
         /\ ShaSummary(o, "exact").digest = o
         /\ ShaSummary(o, "exact").object = <<>>
  BY DEF ShaSummary, Size

\* An accepted piece goes behind the key in the inner object and behind the
\* pieces since the last MAC.
LEMMA UpdateStep ==
  ASSUME HmacInv, NEW d \in Piece, HmacUpdate(d)
  PROVE  HmacInv'
<1>1. /\ initialized /\ inner' = Append(inner, DataPiece(d))
      /\ updated' = TRUE /\ since' = Append(since, DataPiece(d))
      /\ UNCHANGED <<outer, initialized, tried, mac>>
  BY DEF HmacUpdate, ShaUpdate
<1>2. since \in Seq(DataPieces) /\ DataPiece(d) \in DataPieces
  BY DEF HmacInv, HmacTypeOK, DataPieces
<1>3. since' \in Seq(DataPieces) /\ since' # <<>>
  BY <1>1, <1>2, AppendBehind
<1>4. HmacTypeOK'
  BY <1>1, <1>3 DEF HmacInv, HmacTypeOK
<1>5. ObjectsInStep'
  <2> SUFFICES ASSUME tried.allOk PROVE ObjectsInStep'
    BY <1>1 DEF ObjectsInStep
  <2>1. /\ inner = (IF tried.n = 0 THEN <<KeyPiece("ipad")>> ELSE <<>>) \o since
        /\ outer = IF tried.n = 0 THEN <<KeyPiece("opad")>> ELSE <<>>
    BY <1>1 DEF HmacInv, ObjectsInStep
  <2>2. inner' = (IF tried.n = 0 THEN <<KeyPiece("ipad")>> ELSE <<>>) \o since'
    BY <1>1, <1>2, <2>1, AppendBehind
  <2> QED
    BY <1>1, <1>3, <2>1, <2>2 DEF ObjectsInStep
<1>6. MacCoversUpdates'
  BY <1>1 DEF HmacInv, MacCoversUpdates
<1> QED
  BY <1>4, <1>5, <1>6 DEF HmacInv

\* A Summary that runs: the MAC is that of what the objects held, and after one
\* that succeeds both are empty.
LEMMA SummaryStep ==
  ASSUME HmacInv, NEW size \in Size, HmacSummary(size)
  PROVE  HmacInv'
<1> DEFINE fed == Append(outer, DigestPiece(inner))
           r2  == ShaSummary(fed, size)
<1>0. ShaSummary(inner, "exact").digest = inner /\ ShaSummary(inner, "exact").object = <<>>
  BY SummaryCases
<1>1. /\ initialized /\ updated
      /\ inner' = <<>> /\ outer' = r2.object
      /\ updated' = ~r2.ok /\ since' = <<>>
      /\ tried' = [n |-> tried.n + 1, allOk |-> tried.allOk /\ r2.ok]
      /\ mac' = IF r2.ok THEN [ok |-> TRUE, nth |-> tried.n + 1, spoiled |-> ~tried.allOk,
                               data |-> since, digest |-> r2.digest]
                         ELSE NoMac
      /\ UNCHANGED initialized
  BY <1>0 DEF HmacSummary, ShaUpdate
<1>2. /\ r2.ok \in BOOLEAN
      /\ r2.ok => r2.digest = fed /\ r2.object = <<>>
  BY DEF ShaSummary, Size
<1> HIDE DEF r2
<1>3. tried.n \in Nat /\ tried.allOk \in BOOLEAN /\ since \in Seq(DataPieces)
  BY DEF HmacInv, HmacTypeOK
<1>4. HmacTypeOK'
  <2>1. tried' \in [n : Nat, allOk : BOOLEAN]
    BY <1>1, <1>2, <1>3
  <2>2. since' \in Seq(DataPieces) /\ updated' \in BOOLEAN
    BY <1>1, <1>2
  <2> QED
    BY <1>1, <2>1, <2>2 DEF HmacInv, HmacTypeOK
<1>5. ObjectsInStep'
  <2> SUFFICES ASSUME tried'.allOk PROVE ObjectsInStep'
    BY DEF ObjectsInStep
  <2>1. r2.ok /\ tried'.n # 0
    BY <1>1, <1>2, <1>3
  <2>2. inner' = <<>> /\ outer' = <<>> /\ since' = <<>> /\ updated' = FALSE
    BY <1>1, <1>2, <2>1
  <2>3. <<>> \o <<>> = <<>>
    BY AppendBehind
  <2> QED
    BY <2>1, <2>2, <2>3 DEF ObjectsInStep
<1>6. MacCoversUpdates'
  <2> SUFFICES ASSUME mac'.ok, ~mac'.spoiled PROVE MacCoversUpdates'
    BY DEF MacCoversUpdates
  <2>1. /\ r2.ok
        /\ mac' = [ok |-> TRUE, nth |-> tried.n + 1, spoiled |-> ~tried.allOk,
                   data |-> since, digest |-> fed]
    BY <1>1, <1>2 DEF NoMac
  <2>2. tried.allOk
    BY <2>1
  <2>3. /\ inner = (IF tried.n = 0 THEN <<KeyPiece("ipad")>> ELSE <<>>) \o since
        /\ outer = IF tried.n = 0 THEN <<KeyPiece("opad")>> ELSE <<>>
        /\ since # <<>>
    BY <1>1, <2>2 DEF HmacInv, ObjectsInStep
  <2>4. fed = IF tried.n = 0 THEN Hmac(since) ELSE Unkeyed(since)
    <3>1. <<>> \o since = since
      BY <1>3, AppendBehind
    <3>2. /\ Append(<<>>, DigestPiece(inner)) = <<DigestPiece(inner)>>
          /\ Append(<<KeyPiece("opad")>>, DigestPiece(inner))
               = <<KeyPiece("opad"), DigestPiece(inner)>>
      BY AppendFirst
    <3> QED
      BY <2>3, <3>1, <3>2 DEF Hmac, Unkeyed
  <2>5. mac'.nth = 1 <=> tried.n = 0
    BY <1>3, <2>1
  <2>6. mac'.digest = (IF mac'.nth = 1 THEN Hmac(since) ELSE Unkeyed(since))
        /\ mac'.data = since
    BY <2>1, <2>4, <2>5
  <2> QED
    BY <2>3, <2>6 DEF MacCoversUpdates, Hmac, Unkeyed
<1> QED
  BY <1>4, <1>5, <1>6 DEF HmacInv

\* The inductive invariant.
THEOREM HmacInvariant == HmacSpec => []HmacInv
<1>1. HmacInit => HmacInv
  <2> SUFFICES ASSUME HmacInit PROVE HmacInv
    OBVIOUS
  <2>1. /\ since = <<>> /\ tried = [n |-> 0, allOk |-> TRUE] /\ updated = FALSE
        /\ mac = NoMac
        /\ initialized => inner = <<KeyPiece("ipad")>> /\ outer = <<KeyPiece("opad")>>
    BY DEF HmacInit, ShaUpdate
  <2>2. initialized \in BOOLEAN
    <3>1. /\ hkey \in {"none", "short", "block", "long"}
          /\ initialized = KeyAccepted(hkey)
      BY DEF HmacInit, KeyClass
    <3> QED
      BY <3>1 DEF KeyAccepted, Sha256, ShaSummary
  <2>3. HmacTypeOK
    <3>1. <<>> \in Seq(DataPieces)
      OBVIOUS
    <3>2. [n |-> 0, allOk |-> TRUE] \in [n : Nat, allOk : BOOLEAN]
      OBVIOUS
    <3> QED
      BY <2>1, <2>2, <3>1, <3>2 DEF HmacTypeOK
  <2>4. ObjectsInStep
    BY <2>1 DEF ObjectsInStep
  <2>5. MacCoversUpdates
    BY <2>1 DEF MacCoversUpdates, NoMac
  <2> QED
    BY <2>3, <2>4, <2>5 DEF HmacInv
<1>2. HmacInv /\ [HmacNext]_hmacVars => HmacInv'
  <2> SUFFICES ASSUME HmacInv, [HmacNext]_hmacVars PROVE HmacInv'
    OBVIOUS
  <2>1. CASE UNCHANGED hmacVars
    BY <2>1 DEF hmacVars, HmacInv, HmacTypeOK, ObjectsInStep, MacCoversUpdates
  <2>2. CASE HmacSummaryRefused
    <3>1. mac' = NoMac /\ UNCHANGED <<inner, outer, initialized, updated, since, tried>>
      BY <2>2 DEF HmacSummaryRefused
    <3> QED
      BY <3>1 DEF HmacInv, HmacTypeOK, ObjectsInStep, MacCoversUpdates, NoMac
  <2> QED
    BY <2>1, <2>2, UpdateStep, SummaryStep DEF HmacNext
<1> QED
  BY <1>1, <1>2, PTL DEF HmacSpec

\* A MAC is the HMAC of exactly the pieces given since the last one, keyed only
\* the first time.
THEOREM MacsCoverUpdates == HmacSpec => []MacCoversUpdates
<1>1. HmacInv => MacCoversUpdates
  BY DEF HmacInv
<1> QED
  BY <1>1, HmacInvariant, PTL

\* No byte of an earlier MAC stays in either SHA256 object.
THEOREM ObjectsStayInStep == HmacSpec => []ObjectsInStep
<1>1. HmacInv => ObjectsInStep
  BY DEF HmacInv
<1> QED
  BY <1>1, HmacInvariant, PTL

(***************************************************************************)
(* The envelope.                                                           *)
(***************************************************************************)
\* What Encrypt keeps of an envelope it returned.
Returned(s) ==
  /\ s.plain \in Payload /\ s.plain # <<>>
  /\ s.key \notin LongKeys /\ s.key \notin EmptyKeys
  /\ \E nonce : s.env = Sealed(s.key, nonce, s.plain)

EnvInv ==
  /\ \A s \in sent : Returned(s)
  /\ EnvelopeAuthentic

\* A payload is a sequence of no more than MaxLen letters.
LEMMA PayloadIsSequence ==
  ASSUME NEW p \in Payload
  PROVE  p \in Seq(Letters) /\ Len(p) \in 0 .. MaxLen /\ p = [i \in 1 .. Len(p) |-> p[i]]
<1>1. PICK n \in 0 .. MaxLen : p \in [1 .. n -> Letters]
  BY DEF Payload
<1>2. n \in Nat
  BY EnvAssumption
<1>3. p \in Seq(Letters) /\ Len(p) = n
  BY <1>1, <1>2
<1> QED
  BY <1>1, <1>2, <1>3

\* RC4 undoes itself: the same key gives the same bytes at the same positions.
LEMMA Rc4Inverse ==
  ASSUME NEW k, NEW p \in Payload
  PROVE  /\ Rc4Decrypt(k, Rc4Encrypt(k, p)) = p
         /\ Len(Rc4Encrypt(k, p)) = Len(p)
         /\ Rc4Encrypt(k, p) = <<>> => p = <<>>
<1> DEFINE c == Rc4Encrypt(k, p)
<1>1. Len(p) \in Nat /\ p = [i \in 1 .. Len(p) |-> p[i]] /\ p \in Seq(Letters)
  BY PayloadIsSequence, EnvAssumption
<1>2. c = [i \in 1 .. Len(p) |-> [pad |-> Keystream(k, i), letter |-> p[i]]]
  BY DEF Rc4Encrypt
<1>3. /\ DOMAIN c = 1 .. Len(p)
      /\ \A i \in 1 .. Len(p) : c[i].pad = Keystream(k, i) /\ c[i].letter = p[i]
  BY <1>2
<1> HIDE DEF c
<1>4. c \in Seq({c[i] : i \in 1 .. Len(p)}) /\ Len(c) = Len(p)
  BY <1>1, <1>2
<1>5. Rc4Decrypt(k, c) = [i \in 1 .. Len(p) |-> p[i]]
  BY <1>3, <1>4 DEF Rc4Decrypt
<1>6. c = <<>> => p = <<>>
  BY <1>1, <1>4
<1> QED
  BY <1>1, <1>4, <1>5, <1>6 DEF c

\* The fields of an envelope, and what the two signatures cover.
LEMMA SealedFields ==
  ASSUME NEW key, NEW nonce, NEW p
  PROVE  LET e == Sealed(key, nonce, p)
             sk == SignKey(key, nonce).mac
             body == Rc4Encrypt(EncKey(key, nonce).mac, p)
         IN  /\ e.nonce = nonce /\ e.length = Len(p) /\ e.body = body
             /\ e.signL = <<sk, nonce, Len(p)>>
             /\ e.signE = <<sk, <<sk, nonce, Len(p)>>, nonce, Len(p), body>>
BY DEF Sealed, SignL, SignE

\* One key, one nonce: a derived key names what it was derived from.
LEMMA DerivedKeys ==
  ASSUME NEW k1, NEW n1, NEW k2, NEW n2, SignKey(k1, n1).mac = SignKey(k2, n2).mac
  PROVE  k1 = k2 /\ n1 = n2
<1>1. /\ SignKey(k1, n1).mac.key = k1 /\ SignKey(k2, n2).mac.key = k2
      /\ SignKey(k1, n1).mac.nonce = n1 /\ SignKey(k2, n2).mac.nonce = n2
  BY DEF SignKey, Hmac256
<1> QED
  BY <1>1

\* Keys that Encrypt accepts are accepted by both derivations.
LEMMA KeysAccepted ==
  ASSUME NEW key, NEW nonce, key \notin LongKeys, key \notin EmptyKeys
  PROVE  EncKey(key, nonce).ok /\ SignKey(key, nonce).ok
BY DEF EncKey, SignKey, Hmac256

\* Whatever arrives carries the second signature of an envelope Encrypt returned.
LEMMA ArrivingSigned ==
  ASSUME NEW e \in Arriving
  PROVE  \E s \in sent : e.signE = s.env.signE
BY DEF Arriving, Envelopes

\* An envelope whose signatures verify is, field by field, one that Encrypt returned
\* under the same key.
LEMMA VerifiedIsReturned ==
  ASSUME EnvInv, NEW key, NEW e \in Arriving, Verified(key, e)
  PROVE  \E s \in sent : /\ Returned(s) /\ s.key = key
                         /\ e.length = Len(s.plain)
                         /\ e.body = Rc4Encrypt(EncKey(key, e.nonce).mac, s.plain)
<1>1. PICK s \in sent : e.signE = s.env.signE
  BY ArrivingSigned
<1>2. Returned(s)
  BY DEF EnvInv
<1>3. PICK nonce : s.env = Sealed(s.key, nonce, s.plain)
  BY <1>2 DEF Returned
<1> DEFINE sk == SignKey(key, e.nonce).mac
           sk0 == SignKey(s.key, nonce).mac
           body0 == Rc4Encrypt(EncKey(s.key, nonce).mac, s.plain)
<1>4. e.signE = <<sk, e.signL, e.nonce, e.length, e.body>>
  BY DEF Verified, SignE
<1>5. s.env.signE = <<sk0, <<sk0, nonce, Len(s.plain)>>, nonce, Len(s.plain), body0>>
  BY <1>3, SealedFields
<1> HIDE DEF sk, sk0, body0
<1>6. sk = sk0 /\ e.nonce = nonce /\ e.length = Len(s.plain) /\ e.body = body0
  <2>1. /\ e.signE[1] = sk /\ e.signE[3] = e.nonce /\ e.signE[4] = e.length
        /\ e.signE[5] = e.body
    BY <1>4
  <2>2. /\ s.env.signE[1] = sk0 /\ s.env.signE[3] = nonce
        /\ s.env.signE[4] = Len(s.plain) /\ s.env.signE[5] = body0
    BY <1>5
  <2> QED
    BY <1>1, <2>1, <2>2
<1>7. key = s.key
  BY <1>6, DerivedKeys DEF sk, sk0
<1> QED
  BY <1>2, <1>6, <1>7 DEF body0

\* What Decrypt answers for anything that arrives.
LEMMA DecryptedAuthentic ==
  ASSUME EnvInv, NEW key, NEW room \in Nat, NEW e \in Arriving
  PROVE  LET r == Decrypted(key, e, room)
         IN  /\ r.ok => /\ \E s \in sent : s.key = key /\ s.plain = r.out
                        /\ r.size = Len(r.out)
             /\ Len(r.out) <= r.room
<1> DEFINE r == Decrypted(key, e, room)
<1>1. CASE r = Refused(room, room) \/ r = Refused(room, e.length)
  BY <1>1 DEF Refused
<1>2. CASE ~(r = Refused(room, room) \/ r = Refused(room, e.length))
  <2>1. /\ r = [ok |-> TRUE, room |-> room, size |-> e.length,
                out |-> Rc4Decrypt(EncKey(key, e.nonce).mac, e.body)]
        /\ Verified(key, e) /\ ~(room < e.length)
    BY <1>2 DEF Decrypted
  <2>2. PICK s \in sent : /\ Returned(s) /\ s.key = key
                          /\ e.length = Len(s.plain)
                          /\ e.body = Rc4Encrypt(EncKey(key, e.nonce).mac, s.plain)
    BY <2>1, VerifiedIsReturned
  <2>3. s.plain \in Payload
    BY <2>2 DEF Returned
  <2>4. Rc4Decrypt(EncKey(key, e.nonce).mac, e.body) = s.plain
    BY <2>2, <2>3, Rc4Inverse
  <2>5. Len(s.plain) \in Nat
    BY <2>3, PayloadIsSequence, EnvAssumption
  <2>6. r.ok /\ r.room = room /\ r.size = Len(s.plain) /\ r.out = s.plain
    BY <2>1, <2>2, <2>4
  <2>7. Len(s.plain) <= room
    BY <2>1, <2>2, <2>5
  <2> QED
    BY <2>2, <2>6, <2>7
<1> QED
  BY <1>1, <1>2

\* Nothing has been sent or opened.
LEMMA EnvInvInit == EnvInit => EnvInv
BY DEF EnvInit, EnvInv, EnvelopeAuthentic, NothingOpened, Refused

\* Only Encrypt adds to what was sent; only Decrypt answers.
LEMMA EnvInvStep == EnvInv /\ [EnvNext]_envVars => EnvInv'
<1> SUFFICES ASSUME EnvInv, [EnvNext]_envVars PROVE EnvInv'
  OBVIOUS
<1>1. ASSUME NEW key \in EnvKeys, NEW p \in Payload, EnvEncrypt(key, p) PROVE EnvInv'
  <2>1. PICK nonce \in Nonces, providerOk \in BOOLEAN :
          sent' = IF /\ providerOk /\ p # <<>>
                     /\ EncKey(key, nonce).ok /\ SignKey(key, nonce).ok
                  THEN sent \cup {[key |-> key, plain |-> p, env |-> Sealed(key, nonce, p)]}
                  ELSE sent
    BY <1>1 DEF EnvEncrypt
  <2>2. ASSUME p # <<>>, SignKey(key, nonce).ok
        PROVE  Returned([key |-> key, plain |-> p, env |-> Sealed(key, nonce, p)])
    BY <2>2 DEF Returned, SignKey, Hmac256
  <2>3. \A s \in sent' : Returned(s)
    BY <2>1, <2>2 DEF EnvInv
  <2>4. EnvelopeAuthentic'
    BY <1>1 DEF EnvEncrypt, EnvelopeAuthentic, NothingOpened, Refused
  <2> QED
    BY <2>3, <2>4 DEF EnvInv, Returned
<1>2. ASSUME NEW key \in EnvKeys, NEW room \in 1 .. MaxLen, EnvDecrypt(key, room)
      PROVE  EnvInv'
  <2>1. PICK e \in Arriving : got' = [res |-> Decrypted(key, e, room), key |-> key]
    BY <1>2 DEF EnvDecrypt
  <2>2. sent' = sent /\ room \in Nat
    BY <1>2, EnvAssumption DEF EnvDecrypt
  <2>3. EnvelopeAuthentic'
    BY <2>1, <2>2, DecryptedAuthentic DEF EnvelopeAuthentic
  <2> QED
    BY <2>2, <2>3 DEF EnvInv, Returned
<1>3. CASE UNCHANGED envVars
  BY <1>3 DEF envVars, EnvInv, EnvelopeAuthentic, Returned
<1> QED
  BY <1>1, <1>2, <1>3 DEF EnvNext

\* Whatever is cut, extended or put together from other envelopes, what Decrypt
\* returns was encrypted whole under that key, and fits the caller's buffer.
THEOREM EnvelopesAuthentic == EnvSpec => []EnvelopeAuthentic
<1>1. EnvInv => EnvelopeAuthentic
  BY DEF EnvInv
<1> QED
  BY <1>1, EnvInvInit, EnvInvStep, PTL DEF EnvSpec

\* Whatever Encrypt returned opens with its key and the room, and with less room the
\* caller is told the size.
THEOREM EnvelopesRoundTrip == EnvSpec => []EnvelopeRoundTrip
<1>1. EnvInv => EnvelopeRoundTrip
  <2> SUFFICES ASSUME EnvInv, NEW s \in sent, NEW room \in 0 .. MaxLen
               PROVE  LET r == Decrypted(s.key, s.env, room)
                      IN  IF room >= Len(s.plain)
                          THEN r.ok /\ r.out = s.plain /\ r.size = Len(s.plain)
                          ELSE ~r.ok /\ r.size = Len(s.plain)
    BY DEF EnvelopeRoundTrip
  <2>1. Returned(s)
    BY DEF EnvInv
  <2>2. PICK nonce : s.env = Sealed(s.key, nonce, s.plain)
    BY <2>1 DEF Returned
  <2> DEFINE sk == SignKey(s.key, nonce).mac
             k == EncKey(s.key, nonce).mac
             e == s.env
  <2>3. /\ e.nonce = nonce /\ e.length = Len(s.plain) /\ e.body = Rc4Encrypt(k, s.plain)
        /\ e.signL = <<sk, nonce, Len(s.plain)>>
        /\ e.signE = <<sk, e.signL, nonce, Len(s.plain), e.body>>
    BY <2>2, SealedFields
  <2>4. /\ Len(s.plain) \in 1 .. MaxLen /\ Len(e.body) = Len(s.plain) /\ e.body # <<>>
        /\ Rc4Decrypt(k, e.body) = s.plain
    <3>1. s.plain \in Payload /\ s.plain # <<>>
      BY <2>1 DEF Returned
    <3>2. s.plain \in Seq(Letters) /\ Len(s.plain) \in 0 .. MaxLen
      BY <3>1, PayloadIsSequence
    <3>3. Len(s.plain) # 0
      BY <3>1, <3>2
    <3> HIDE DEF k
    <3> QED
      BY <2>3, <3>1, <3>2, <3>3, Rc4Inverse, EnvAssumption
  <2>5. EncKey(s.key, e.nonce).ok /\ SignKey(s.key, e.nonce).ok
    BY <2>1, KeysAccepted DEF Returned
  <2>6. Verified(s.key, e)
    BY <2>3 DEF Verified, SignL, SignE
  <2>7. ~(e.length < 0 \/ e.length > EnvSize(e))
    BY <2>3, <2>4, EnvAssumption DEF EnvSize
  <2>8. CASE room >= Len(s.plain)
    BY <2>3, <2>4, <2>5, <2>6, <2>7, <2>8, EnvAssumption DEF Decrypted
  <2>9. CASE ~(room >= Len(s.plain))
    <3>1. room < e.length
      BY <2>3, <2>4, <2>9, EnvAssumption
    <3>2. Decrypted(s.key, e, room) = Refused(room, e.length)
      BY <2>7, <3>1 DEF Decrypted
    <3> QED
      BY <2>3, <2>9, <3>2 DEF Refused
  <2> QED
    BY <2>8, <2>9
<1> QED
  BY <1>1, EnvInvInit, EnvInvStep, PTL DEF EnvSpec

=============================================================================
