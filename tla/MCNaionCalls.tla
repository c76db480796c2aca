---------------------------- MODULE MCNaionCalls ----------------------------
(***************************************************************************)
(* The cryptographic calls of naion.h and crypto.hpp, one component at a   *)
(* time: subject says which one a behaviour is about, the others stay in   *)
(* one of their initial states.                                            *)
(***************************************************************************)
EXTENDS StreamingHash, HmacSha256, Rc4Envelope, SecretStream, BoxCalls

VARIABLE subject

\* Where the output lies relative to the input: overlapping from both sides,
\* equal, and apart.
MCShifts == (-4 .. 4) \cup {-11, 13}

mcVars == <<subject, hashVars, hmacVars, envVars, streamVars, boxVars>>

MCInit ==
  /\ subject \in {"hash", "hmac", "envelope", "stream", "box", "kx"}
  /\ HashInit /\ HmacInit /\ EnvInit /\ StreamInit /\ BoxInit
  /\ subject # "hash" => alg = "sha256"
  /\ subject # "hmac" => hkey = "none"
  /\ subject # "stream" => call.op = "seal" /\ call.fam = "xsalsa20"
                           /\ call.n = 0 /\ call.shift = 0

MCNext ==
  /\ UNCHANGED subject
  /\ \/ /\ subject = "hash" /\ HashNext
        /\ UNCHANGED <<hmacVars, envVars, streamVars, boxVars>>
     \/ /\ subject = "hmac" /\ HmacNext
        /\ UNCHANGED <<hashVars, envVars, streamVars, boxVars>>
     \/ /\ subject = "envelope" /\ EnvNext
        /\ UNCHANGED <<hashVars, hmacVars, streamVars, boxVars>>
     \/ /\ subject = "stream" /\ StreamNext
        /\ UNCHANGED <<hashVars, hmacVars, envVars, boxVars>>
     \/ /\ subject = "box" /\ BoxMessages
        /\ UNCHANGED <<hashVars, hmacVars, envVars, streamVars>>
     \/ /\ subject = "kx" /\ KeyExchange
        /\ UNCHANGED <<hashVars, hmacVars, envVars, streamVars>>

MCSpec == MCInit /\ [][MCNext]_mcVars

=============================================================================
