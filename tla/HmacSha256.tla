----------------------------- MODULE HmacSha256 -----------------------------
(***************************************************************************)
(* SHA256_HMAC of crypto.hpp over two SHA256 objects.  A SHA256 object is  *)
(* the sequence of pieces absorbed since its last Reset (StreamingHash     *)
(* shows that this is what its digest depends on); a piece is the padded   *)
(* key, a caller's piece, an inner digest, or the padding that a Summary   *)
(* leaves in an object it did not reset.                                   *)
(***************************************************************************)
EXTENDS Integers, Sequences

CONSTANTS Piece, MaxPieces, MaxSummaries

VARIABLES
  hkey,         \* what was given as key
  inner, outer, \* the two SHA256 objects
  initialized, updated,
  since,        \* history: pieces accepted since the last Summary that ran
  tried,        \* history: Summaries that ran, and whether all succeeded
  mac           \* what the last Summary returned

hmacVars == <<hkey, inner, outer, initialized, updated, since, tried, mac>>

KeyClass == {"none", "short", "block", "long"}

\* A caller's buffer against SHA256_BYTES.
Size == {"small", "exact", "large"}

KeyPiece(pad) == [tag |-> pad, data |-> "none", of |-> <<>>]
DataPiece(d) == [tag |-> "data", data |-> d, of |-> <<>>]
DigestPiece(o) == [tag |-> "digest", data |-> "none", of |-> o]
Padding == [tag |-> "padding", data |-> "none", of |-> <<>>]

(***************************************************************************)
(* SHA256: Update appends, Summary refuses a small buffer before pad() and *)
(* any size but 32 after it, and resets only when both are passed.         *)
(***************************************************************************)
ShaUpdate(o, piece) == Append(o, piece)

\* Mutant: a Summary that succeeds does not reset the object.
ShaSummaryKept(o, size) ==
  CASE size = "small" -> [ok |-> FALSE, digest |-> <<>>, object |-> o]
    [] size = "large" -> [ok |-> FALSE, digest |-> <<>>, object |-> Append(o, Padding)]
    [] size = "exact" -> [ok |-> TRUE, digest |-> o, object |-> o]

ShaSummary(o, size) ==
  CASE size = "small" -> [ok |-> FALSE, digest |-> <<>>, object |-> o]
    [] size = "large" -> [ok |-> FALSE, digest |-> <<>>, object |-> Append(o, Padding)]
    [] size = "exact" -> [ok |-> TRUE, digest |-> o, object |-> <<>>]

\* sha256(): a local object, the digest in a buffer of the caller's.
Sha256(piece, size) == ShaSummary(ShaUpdate(<<>>, piece), size)

(***************************************************************************)
(* The constructor.  A key longer than a block is hashed into a buffer of  *)
(* BLOCK_LEN bytes.                                                        *)
(***************************************************************************)
KeyAccepted(k) ==
  CASE k = "none" -> FALSE
    [] k = "long" -> Sha256(DataPiece("key"), "large").ok
    [] OTHER -> TRUE

NoMac == [ok |-> FALSE, nth |-> 0, spoiled |-> FALSE, data |-> <<>>, digest |-> <<>>]

HmacInit ==
  /\ hkey \in KeyClass
  /\ initialized = KeyAccepted(hkey)
  /\ inner = IF initialized THEN ShaUpdate(<<>>, KeyPiece("ipad")) ELSE <<>>
  /\ outer = IF initialized THEN ShaUpdate(<<>>, KeyPiece("opad")) ELSE <<>>
  /\ updated = FALSE
  /\ since = <<>>
  /\ tried = [n |-> 0, allOk |-> TRUE]
  /\ mac = NoMac

HmacUpdate(d) ==
  /\ initialized
  /\ Len(since) < MaxPieces
  /\ inner' = ShaUpdate(inner, DataPiece(d))
  /\ updated' = TRUE
  /\ since' = Append(since, DataPiece(d))
  /\ UNCHANGED <<hkey, outer, initialized, tried, mac>>

\* Refused: the object is as it was.
HmacSummaryRefused ==
  /\ ~initialized \/ ~updated
  /\ mac' = NoMac
  /\ UNCHANGED <<hkey, inner, outer, initialized, updated, since, tried>>

\* Mutant: the flag stays set when the Summary succeeds.
HmacSummaryStillUpdated(size) ==
  LET r0 == ShaSummary(inner, "exact")
      r2 == ShaSummary(ShaUpdate(outer, DigestPiece(r0.digest)), size)
  IN  /\ initialized /\ updated
      /\ tried.n < MaxSummaries
      /\ inner' = r0.object
      /\ outer' = r2.object
      /\ since' = <<>>
      /\ tried' = [n |-> tried.n + 1, allOk |-> tried.allOk /\ r2.ok]
      /\ mac' = IF r2.ok THEN [ok |-> TRUE, nth |-> tried.n + 1, spoiled |-> ~tried.allOk,
                               data |-> since, digest |-> r2.digest]
                         ELSE NoMac
      /\ UNCHANGED <<hkey, initialized, updated>>

\* The inner Summary, the outer Update and the outer Summary: when the last
\* fails the two objects have already changed, and updated stays set.
HmacSummary(size) ==
  LET r0 == ShaSummary(inner, "exact")
      r2 == ShaSummary(ShaUpdate(outer, DigestPiece(r0.digest)), size)
  IN  /\ initialized /\ updated
      /\ tried.n < MaxSummaries
      /\ inner' = r0.object
      /\ outer' = r2.object
      /\ updated' = ~r2.ok
      /\ since' = <<>>
      /\ tried' = [n |-> tried.n + 1, allOk |-> tried.allOk /\ r2.ok]
      /\ mac' = IF r2.ok THEN [ok |-> TRUE, nth |-> tried.n + 1, spoiled |-> ~tried.allOk,
                               data |-> since, digest |-> r2.digest]
                         ELSE NoMac
      /\ UNCHANGED <<hkey, initialized>>

HmacNext ==
  \/ \E d \in Piece : HmacUpdate(d)
  \/ HmacSummaryRefused
  \/ \E s \in Size : HmacSummary(s)

HmacSpec == HmacInit /\ [][HmacNext]_hmacVars

(***************************************************************************)
(* The reference: H((K ^ opad) || H((K ^ ipad) || data)).                  *)
(***************************************************************************)
Hmac(data) == <<KeyPiece("opad"), DigestPiece(<<KeyPiece("ipad")>> \o data)>>

\* What an object gives that has been used and reset: the key is gone.
Unkeyed(data) == <<DigestPiece(data)>>

\* The first MAC of an object is the HMAC of exactly the pieces it was updated
\* with, under its key; a later one covers exactly the pieces since the one before,
\* without the key; neither is ever of nothing.  (After a Summary that failed for
\* the size of the buffer nothing of the kind holds.)
MacCoversUpdates ==
  mac.ok /\ ~mac.spoiled =>
    /\ mac.data # <<>>
    /\ mac.digest = IF mac.nth = 1 THEN Hmac(mac.data) ELSE Unkeyed(mac.data)

\* Between calls, as long as no Summary has failed half-way, what the two objects
\* hold is their key or nothing and the pieces since the last MAC: no byte of an
\* earlier MAC is left in either, and updated is set just when there are any.
ObjectsInStep ==
  initialized /\ tried.allOk =>
    /\ inner = (IF tried.n = 0 THEN <<KeyPiece("ipad")>> ELSE <<>>) \o since
    /\ outer = IF tried.n = 0 THEN <<KeyPiece("opad")>> ELSE <<>>
    /\ updated <=> since # <<>>

=============================================================================
