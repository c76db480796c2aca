----------------------------- MODULE Rc4Envelope -----------------------------
(***************************************************************************)
(* Crypto_RC4_HMAC256 of crypto.hpp: the envelope signE, signL, nonce,     *)
(* length, encrypted.  Envelopes made by Encrypt reach Decrypt with their  *)
(* fields cut, extended or taken from other envelopes.  MACs and key       *)
(* derivation are symbolic: a MAC is the tuple of what it covers, and      *)
(* nobody without the key computes one.                                    *)
(***************************************************************************)
EXTENDS Integers, Sequences

CONSTANTS
  EnvKeys,      \* keys, by name
  LongKeys,     \* those of more than 64 bytes, which hmac256 refuses
  EmptyKeys,    \* those of no bytes
  Nonces,       \* what the random provider may return
  Letters, MaxLen, MaxSent

ASSUME EnvAssumption == MaxLen \in Nat

VARIABLES
  sent,     \* envelopes that Encrypt returned, with their key and plaintext
  got,      \* the last Decrypt: what it was asked and what it did
  encrypts  \* how many Encrypts have been tried

envVars == <<sent, got, encrypts>>

Refused(room, size) == [ok |-> FALSE, room |-> room, size |-> size, out |-> <<>>]

NothingOpened == [res |-> Refused(0, 0), key |-> "none"]

Payload == UNION {[1 .. n -> Letters] : n \in 0 .. MaxLen}

\* hmac256(key, data): refuses an empty or long key and empty data.
Hmac256(keyBad, dataEmpty, mac) ==
  [ok |-> ~keyBad /\ ~dataEmpty, mac |-> mac]

EncKey(key, nonce) ==
  Hmac256(FALSE, key \in EmptyKeys, [use |-> "enc", key |-> key, nonce |-> nonce])
SignKey(key, nonce) ==
  Hmac256(key \in LongKeys \cup EmptyKeys, FALSE,
          [use |-> "sign", key |-> key, nonce |-> nonce])

SignL(signKey, e) == <<signKey, e.nonce, e.length>>
SignE(signKey, e) == <<signKey, e.signL, e.nonce, e.length, e.body>>

\* RC4: a cipher byte shows its plaintext to the same key at the same position.
Keystream(k, i) == [key |-> k, at |-> i]

Rc4Encrypt(k, p) == [i \in 1 .. Len(p) |-> [pad |-> Keystream(k, i), letter |-> p[i]]]

\* Mutant: the decrypting object's keystream is one byte ahead.
Rc4DecryptAhead(k, c) ==
  [i \in 1 .. Len(c) |-> IF c[i].pad = Keystream(k, i + 1) THEN c[i].letter ELSE "garbage"]

Rc4Decrypt(k, c) ==
  [i \in 1 .. Len(c) |-> IF c[i].pad = Keystream(k, i) THEN c[i].letter ELSE "garbage"]

(***************************************************************************)
(* Encrypt.  A payload of no bytes fails in RC4, a failed provider or a    *)
(* refused key at once; none of them returns an envelope.                  *)
(***************************************************************************)
Sealed(key, nonce, p) ==
  LET sk == SignKey(key, nonce).mac
      e1 == [nonce |-> nonce, length |-> Len(p),
             body |-> Rc4Encrypt(EncKey(key, nonce).mac, p)]
      e2 == [nonce |-> nonce, length |-> Len(p), body |-> e1.body, signL |-> SignL(sk, e1)]
  IN  [nonce |-> nonce, length |-> Len(p), body |-> e1.body, signL |-> e2.signL,
       signE |-> SignE(sk, e2)]

EnvEncrypt(key, p) ==
  /\ encrypts < MaxSent
  /\ encrypts' = encrypts + 1
  /\ got' = NothingOpened
  /\ \E nonce \in Nonces, providerOk \in BOOLEAN :
       sent' = IF /\ providerOk /\ p # <<>>
                  /\ EncKey(key, nonce).ok /\ SignKey(key, nonce).ok
               THEN sent \cup {[key |-> key, plain |-> p, env |-> Sealed(key, nonce, p)]}
               ELSE sent

(***************************************************************************)
(* The channel.  Length -1 is an envelope that ends before its length.     *)
(***************************************************************************)
Envelopes == {s.env : s \in sent}

Bodies ==
  UNION {{SubSeq(e.body, 1, n) : n \in 0 .. Len(e.body)} : e \in Envelopes}
    \cup {e1.body \o e2.body : e1 \in Envelopes, e2 \in Envelopes}

Arriving ==
  Envelopes \cup
  [nonce : {e.nonce : e \in Envelopes}, length : -1 .. 2 * MaxLen + 1, body : Bodies,
   signL : {e.signL : e \in Envelopes}, signE : {e.signE : e \in Envelopes}]

\* Header, one byte of length (payloads are shorter than 128) and body.
EnvSize(e) == IF e.length < 0 THEN 24 ELSE 25 + Len(e.body)

\* Mutant: only the signature of the length is checked.
VerifiedLength(key, e) ==
  e.signL = SignL(SignKey(key, e.nonce).mac, e)

(***************************************************************************)
(* Decrypt.  The length is decoded and reported before anything is         *)
(* verified; the buffer is compared with the length, and then the whole    *)
(* body is decrypted into it.                                              *)
(***************************************************************************)
Verified(key, e) ==
  LET sk == SignKey(key, e.nonce).mac
  IN  e.signL = SignL(sk, e) /\ e.signE = SignE(sk, e)

\* Mutant: nothing compares the buffer with the length.
DecryptedAnyRoom(key, e, room) ==
  IF e.length < 0 \/ e.length > EnvSize(e) THEN Refused(room, room)
  ELSE IF \/ ~EncKey(key, e.nonce).ok \/ ~SignKey(key, e.nonce).ok
          \/ ~Verified(key, e) \/ e.body = <<>>
       THEN Refused(room, room)
  ELSE [ok |-> TRUE, room |-> room, size |-> e.length,
        out |-> Rc4Decrypt(EncKey(key, e.nonce).mac, e.body)]

Decrypted(key, e, room) ==
  IF e.length < 0 \/ e.length > EnvSize(e) THEN Refused(room, room)
  ELSE IF room < e.length THEN Refused(room, e.length)
  ELSE IF \/ ~EncKey(key, e.nonce).ok \/ ~SignKey(key, e.nonce).ok
          \/ ~Verified(key, e) \/ e.body = <<>>
       THEN Refused(room, room)
  ELSE [ok |-> TRUE, room |-> room, size |-> e.length,
        out |-> Rc4Decrypt(EncKey(key, e.nonce).mac, e.body)]

EnvDecrypt(key, room) ==
  /\ \E e \in Arriving :
       got' = [res |-> Decrypted(key, e, room), key |-> key]
  /\ UNCHANGED <<sent, encrypts>>

EnvInit ==
  /\ sent = {}
  /\ got = NothingOpened
  /\ encrypts = 0

EnvNext ==
  \/ \E key \in EnvKeys, p \in Payload : EnvEncrypt(key, p)
  \/ \E key \in EnvKeys, room \in 1 .. MaxLen : EnvDecrypt(key, room)

EnvSpec == EnvInit /\ [][EnvNext]_envVars

\* What Decrypt returns as plaintext was encrypted under that key, whole: no
\* envelope put together from parts of others, shortened or extended is opened.
\* Decrypt compares the buffer with the length field but writes the body: no more
\* is ever written than there is room for, because both are under signE.
EnvelopeAuthentic ==
  /\ got.res.ok => /\ \E s \in sent : s.key = got.key /\ s.plain = got.res.out
                   /\ got.res.size = Len(got.res.out)
  /\ Len(got.res.out) <= got.res.room

\* An envelope that arrives as it was made opens, given its key and the room, to
\* what was put in; with less room the caller learns the size it needs.
EnvelopeRoundTrip ==
  \A s \in sent, room \in 0 .. MaxLen :
    LET r == Decrypted(s.key, s.env, room)
    IN  IF room >= Len(s.plain) THEN r.ok /\ r.out = s.plain /\ r.size = Len(s.plain)
                                ELSE ~r.ok /\ r.size = Len(s.plain)

=============================================================================
