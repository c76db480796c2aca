--------------------------- MODULE StreamingHash ---------------------------
(***************************************************************************)
(* The four streaming front ends of the repository: BLAKE2b (generichash), *)
(* SHA-512 and Poly1305 of naion.h and SHA-256 of crypto.hpp.  One object  *)
(* of one algorithm is fed in pieces of any length; what its compression   *)
(* function was given is kept in ctx.h, in order.  The compression         *)
(* functions themselves are symbolic.                                      *)
(*                                                                         *)
(* A byte of the input is its position in the input, counted from 1, so    *)
(* that a byte that is lost, repeated or misplaced shows.  An update call  *)
(* sets rest, the bytes its loop has still to absorb; each iteration of    *)
(* the loop is a step.  After init_key the first Block bytes of the input  *)
(* are the padded key.                                                     *)
(***************************************************************************)
EXTENDS Integers, Sequences

CONSTANTS
  Block,      \* bytes of a block: 128, 128, 64, 16 in the code
  LenCells,   \* bytes at the end of a SHA block kept for the length: 16, 8
  Word,       \* number of values of a counter word: 2^64 in the code
  MaxInput    \* bound on the bytes fed to one object

ASSUME BlockAssumption ==
  /\ Block \in Nat /\ LenCells \in Nat \ {0}
  /\ LenCells < Block
\* The carry the code computes is right for an increment of up to a word.
ASSUME WordAssumption ==
  /\ Word \in Nat \ {0} /\ MaxInput \in Nat
  /\ Block <= Word

VARIABLES
  alg,    \* the algorithm of the object
  ctx,    \* the object
  fed,    \* bytes fed since init
  rest,   \* bytes of the running update not absorbed yet
  out     \* the digest a final has just returned, and for how many bytes

hashVars == <<alg, ctx, fed, rest, out>>

Algorithm == {"blake2b", "sha512", "sha256", "poly1305"}

\* What is in a buffer besides input: zeros and padding.  LenCell stands for
\* the bytes of the message length, whose value is in the entry of ctx.h.
ZeroByte == 0
PadByte == -1
LenCell == -2

NoDigest == [n |-> -1, init |-> "none", clean |-> TRUE, h |-> <<>>]

BufSize(a) == IF a = "blake2b" THEN 2 * Block ELSE Block

\* Between calls a BLAKE2b buffer may be full, the others never are.
MaxFill(a) == IF a = "blake2b" THEN 2 * Block ELSE Block - 1

(***************************************************************************)
(* memcpy of n input bytes to buf + at, memset(0), memmove.                *)
(***************************************************************************)
Copied(buf, at, n, first) ==
  [j \in DOMAIN buf |-> IF at <= j /\ j < at + n THEN first + (j - at) ELSE buf[j]]

Zeroed(buf, from, to) ==
  [j \in DOMAIN buf |-> IF from <= j /\ j < to THEN ZeroByte ELSE buf[j]]

MovedDown(buf, n) ==
  [j \in DOMAIN buf |-> IF j < n THEN buf[j + Block] ELSE buf[j]]

FirstBlock(buf) == [j \in 0 .. Block - 1 |-> buf[j]]

\* The position in the stream after what has been compressed.
NextAt(h) == IF h = <<>> THEN 0 ELSE h[Len(h)].at + Block

\* The compression function is given m, a counter and a last-block flag.  "at"
\* is a history field: where in the stream the block starts.
Compressed(h, m, t, f) ==
  Append(h, [m |-> m, at |-> NextAt(h), t |-> t, f |-> f])

\* SHA's compression takes no counter; the length bytes of its last block show as t.
Blake2bCompress(h, m, t, f) == Compressed(h, m, t, f)
Sha512Transform(h, m, t) == Compressed(h, m, t, FALSE)
Sha256Transform(h, m, t) == Compressed(h, m, t, FALSE)
Poly1305Blocks(h, m, f) == Compressed(h, m, <<0, 0>>, f)

\* Mutant: no carry into the high word.
AddWordsNoCarry(t, inc) == <<(t[1] + inc) % Word, t[2]>>

\* A 128-bit counter of two words, and the carry as the code computes it.
AddWords(t, inc) ==
  LET lo == (t[1] + inc) % Word
  IN  <<lo, (t[2] + (IF lo < inc THEN 1 ELSE 0)) % Word>>

Zeros(a) == [j \in 0 .. BufSize(a) - 1 |-> ZeroByte]

\* The state a final leaves behind: memzero of the whole struct.
Wiped(a) == [init |-> "zero", h |-> <<>>, t |-> <<0, 0>>, f |-> FALSE,
             buf |-> Zeros(a), buflen |-> 0, clean |-> TRUE]

(***************************************************************************)
(* init.  SHA-512, SHA-256 and Poly1305 do not clear the buffer.           *)
(***************************************************************************)
Fresh(a, old) ==
  [init |-> "iv", h |-> <<>>, t |-> <<0, 0>>, f |-> FALSE,
   buf |-> IF a = "blake2b" THEN Zeros(a) ELSE old, buflen |-> 0, clean |-> TRUE]

\* init_key feeds one block, the key padded with zeros: it fits in the buffer.
Keyed(a) ==
  [Fresh(a, Zeros(a)) EXCEPT !.init = "key",
                             !.buf = Copied(Zeros(a), 0, Block, 1),
                             !.buflen = Block]

HashInit ==
  /\ alg \in Algorithm
  /\ \/ ctx = Fresh(alg, Zeros(alg)) /\ fed = 0
     \/ alg = "blake2b" /\ ctx = Keyed(alg) /\ fed = Block
  /\ rest = 0
  /\ out = NoDigest

\* Another init, update or final comes only between calls.
Idle == rest = 0

Restart ==
  /\ Idle
  /\ \/ ctx' = Fresh(alg, ctx.buf) /\ fed' = 0
     \/ alg = "blake2b" /\ ctx' = Keyed(alg) /\ fed' = Block
  /\ out' = NoDigest
  /\ UNCHANGED <<alg, rest>>

(***************************************************************************)
(* update.  SHA-512 counts the bits of the whole call first: the low word  *)
(* gets inlen * 8, the high word its carry and the bits shifted out.       *)
(* SHA-256 rejects an empty piece.  Only a BLAKE2b object can be used      *)
(* again after its final: the others are reset or local to their caller.   *)
(***************************************************************************)
CountBits(t, n) ==
  LET t1 == AddWords(t, (8 * n) % Word)
  IN  <<t1[1], (t1[2] + (8 * n) \div Word) % Word>>

Usable == ctx.init # "zero" \/ alg = "blake2b"

Update(n) ==
  /\ Idle /\ Usable
  /\ fed + n <= MaxInput
  /\ alg = "sha256" => n > 0
  /\ fed' = fed + n
  /\ rest' = n
  /\ ctx' = IF alg = "sha512" THEN [ctx EXCEPT !.t = CountBits(ctx.t, n)] ELSE ctx
  /\ out' = NoDigest
  /\ UNCHANGED alg

\* The input byte at the loop's pointer.
Next1 == fed - rest + 1

\* Absorb n bytes into the object c.
Absorb(c, n) ==
  /\ ctx' = c
  /\ rest' = rest - n
  /\ UNCHANGED <<alg, fed, out>>

(***************************************************************************)
(* BLAKE2b holds back up to two blocks: only when more input is left than  *)
(* fits does it compress the first of them.                                *)
(***************************************************************************)
Blake2bIncrement(t, inc) == AddWords(t, inc)

Blake2bFill ==
  LET fill == 2 * Block - ctx.buflen
      full == Copied(ctx.buf, ctx.buflen, fill, Next1)
      t1   == Blake2bIncrement(ctx.t, Block)
  IN  /\ alg = "blake2b" /\ rest > fill
      /\ Absorb([ctx EXCEPT !.t = t1,
                            !.h = Blake2bCompress(ctx.h, FirstBlock(full), t1, ctx.f),
                            !.buf = MovedDown(full, Block),
                            !.buflen = Block],
                fill)

Blake2bKeep ==
  /\ alg = "blake2b" /\ rest > 0
  /\ rest <= 2 * Block - ctx.buflen
  /\ Absorb([ctx EXCEPT !.buf = Copied(ctx.buf, ctx.buflen, rest, Next1),
                        !.buflen = @ + rest],
            rest)

\* Mutant: a block that is just complete is left in the buffer.
Sha512TakeLate ==
  LET take == IF Block - ctx.buflen > rest THEN rest ELSE Block - ctx.buflen
      buf1 == Copied(ctx.buf, ctx.buflen, take, Next1)
  IN  /\ alg = "sha512" /\ rest > 0
      /\ Absorb(IF ctx.buflen + take > Block
                THEN [ctx EXCEPT !.buf = buf1, !.buflen = 0,
                                 !.h = Sha512Transform(@, FirstBlock(buf1), <<0, 0>>)]
                ELSE [ctx EXCEPT !.buf = buf1, !.buflen = @ + take],
                take)

(***************************************************************************)
(* SHA-512 takes what completes the block and compresses a full block at   *)
(* once; SHA-256 does the same byte by byte and counts whole blocks.       *)
(***************************************************************************)
Sha512Take ==
  LET take == IF Block - ctx.buflen > rest THEN rest ELSE Block - ctx.buflen
      buf1 == Copied(ctx.buf, ctx.buflen, take, Next1)
  IN  /\ alg = "sha512" /\ rest > 0
      /\ Absorb(IF ctx.buflen + take = Block
                THEN [ctx EXCEPT !.buf = buf1, !.buflen = 0,
                                 !.h = Sha512Transform(@, FirstBlock(buf1), <<0, 0>>)]
                ELSE [ctx EXCEPT !.buf = buf1, !.buflen = @ + take],
                take)

\* mBitLen is one 64-bit number: the two words together.
AddBits(t, n) ==
  LET v == (t[1] + Word * t[2] + 8 * n) % (Word * Word)
  IN  <<v % Word, v \div Word>>

Sha256Byte ==
  LET buf1 == Copied(ctx.buf, ctx.buflen, 1, Next1)
  IN  /\ alg = "sha256" /\ rest > 0
      /\ Absorb(IF ctx.buflen + 1 = Block
                THEN [ctx EXCEPT !.buf = buf1, !.buflen = 0,
                                 !.t = AddBits(@, Block),
                                 !.h = Sha256Transform(@, FirstBlock(buf1), <<0, 0>>)]
                ELSE [ctx EXCEPT !.buf = buf1, !.buflen = @ + 1],
                1)

(***************************************************************************)
(* Poly1305 completes a started block, then takes whole blocks straight    *)
(* from the input, then keeps what is left.                                *)
(***************************************************************************)
Poly1305Complete ==
  LET want == IF Block - ctx.buflen > rest THEN rest ELSE Block - ctx.buflen
      buf1 == Copied(ctx.buf, ctx.buflen, want, Next1)
  IN  /\ alg = "poly1305" /\ rest > 0 /\ ctx.buflen # 0
      /\ Absorb(IF ctx.buflen + want < Block
                THEN [ctx EXCEPT !.buf = buf1, !.buflen = @ + want]
                ELSE [ctx EXCEPT !.buf = buf1, !.buflen = 0,
                                 !.h = Poly1305Blocks(@, FirstBlock(buf1), ctx.f)],
                want)

Poly1305Whole ==
  /\ alg = "poly1305" /\ ctx.buflen = 0 /\ rest >= Block
  /\ Absorb([ctx EXCEPT !.h = Poly1305Blocks(@, [j \in 0 .. Block - 1 |-> Next1 + j], ctx.f)],
            Block)

Poly1305Keep ==
  /\ alg = "poly1305" /\ rest > 0 /\ ctx.buflen = 0 /\ rest < Block
  /\ Absorb([ctx EXCEPT !.buf = Copied(ctx.buf, 0, rest, Next1), !.buflen = rest],
            rest)

(***************************************************************************)
(* final.                                                                  *)
(***************************************************************************)
Returned(c, h) == [n |-> fed, init |-> c.init, clean |-> c.clean, h |-> h]

Finished(h, c) ==
  /\ out' = Returned(ctx, h)
  /\ ctx' = c
  /\ fed' = 0
  /\ UNCHANGED <<alg, rest>>

Blake2bFinalBlocks(c) ==
  LET two  == c.buflen > Block
      t1   == IF two THEN Blake2bIncrement(c.t, Block) ELSE c.t
      h1   == IF two THEN Blake2bCompress(c.h, FirstBlock(c.buf), t1, FALSE) ELSE c.h
      len  == IF two THEN c.buflen - Block ELSE c.buflen
      buf1 == IF two THEN MovedDown(c.buf, len) ELSE c.buf
  IN  Blake2bCompress(h1, FirstBlock(Zeroed(buf1, len, 2 * Block)),
                 Blake2bIncrement(t1, len), TRUE)

Blake2bFinal ==
  /\ Idle /\ alg = "blake2b"
  /\ Finished(Blake2bFinalBlocks(ctx), Wiped(alg))

\* The end of a SHA block: everything from LenCells before the end.
WithLength(buf) == [j \in DOMAIN buf |-> IF j >= Block - LenCells THEN LenCell ELSE buf[j]]

\* Mutant: the byte that ends the message is not counted in the room for the length.
Sha512FinalBlocksTight(c) ==
  LET buf1 == [c.buf EXCEPT ![c.buflen] = PadByte]
      over == c.buflen > Block - LenCells
      h1   == IF over THEN Sha512Transform(c.h, FirstBlock(Zeroed(buf1, c.buflen + 1, Block)),
                                      <<0, 0>>)
                      ELSE c.h
      len  == IF over THEN 0 ELSE c.buflen + 1
  IN  Sha512Transform(h1, FirstBlock(WithLength(Zeroed(buf1, len, Block - LenCells))), c.t)

Sha512FinalBlocks(c) ==
  LET buf1 == [c.buf EXCEPT ![c.buflen] = PadByte]
      over == c.buflen + 1 > Block - LenCells
      h1   == IF over THEN Sha512Transform(c.h, FirstBlock(Zeroed(buf1, c.buflen + 1, Block)),
                                      <<0, 0>>)
                      ELSE c.h
      len  == IF over THEN 0 ELSE c.buflen + 1
  IN  Sha512Transform(h1, FirstBlock(WithLength(Zeroed(buf1, len, Block - LenCells))), c.t)

Sha512Final ==
  /\ Idle /\ Usable /\ alg = "sha512"
  /\ Finished(Sha512FinalBlocks(ctx), Wiped(alg))

\* pad(): the object after it.
Sha256Padded(c) ==
  LET over == c.buflen >= Block - LenCells
      buf1 == Zeroed([c.buf EXCEPT ![c.buflen] = PadByte], c.buflen + 1,
                     IF over THEN Block ELSE Block - LenCells)
      h1   == IF over THEN Sha256Transform(c.h, FirstBlock(buf1), <<0, 0>>) ELSE c.h
      buf2 == WithLength(IF over THEN Zeroed(buf1, 0, Block - LenCells) ELSE buf1)
      t1   == AddBits(c.t, c.buflen)
  IN  [c EXCEPT !.t = t1, !.buf = buf2, !.h = Sha256Transform(h1, FirstBlock(buf2), t1)]

\* Summary with a buffer of exactly 32 bytes: digest and Reset.
Sha256Summary ==
  /\ Idle /\ alg = "sha256"
  /\ Finished(Sha256Padded(ctx).h, Fresh(alg, Sha256Padded(ctx).buf))

\* Summary with a larger buffer: pad() has run when revert() refuses the size,
\* and the object is not reset.  Once is enough to spoil it.
Sha256OversizedSummary ==
  /\ Idle /\ alg = "sha256" /\ ctx.clean
  /\ ctx' = [Sha256Padded(ctx) EXCEPT !.clean = FALSE]
  /\ UNCHANGED <<alg, fed, rest, out>>

Poly1305FinalBlocks(c) ==
  IF c.buflen = 0 THEN c.h
  ELSE Poly1305Blocks(c.h,
                  FirstBlock(Zeroed([c.buf EXCEPT ![c.buflen] = PadByte],
                                    c.buflen + 1, Block)), TRUE)

Poly1305Finish ==
  /\ Idle /\ Usable /\ alg = "poly1305"
  /\ Finished(Poly1305FinalBlocks(ctx), Wiped(alg))

HashNext ==
  \/ Restart
  \/ \E n \in 0 .. MaxInput : Update(n)
  \/ Blake2bFill \/ Blake2bKeep \/ Sha512Take \/ Sha256Byte
  \/ Poly1305Complete \/ Poly1305Whole \/ Poly1305Keep
  \/ Blake2bFinal \/ Sha512Final \/ Poly1305Finish
  \/ Sha256Summary \/ Sha256OversizedSummary

HashSpec == HashInit /\ [][HashNext]_hashVars

(***************************************************************************)
(* The reference: the padded message of n bytes, by position.              *)
(***************************************************************************)
PaddedByte(a, n, p, last, j) ==
  CASE p < n -> p + 1
    [] a \in {"sha512", "sha256"} /\ last /\ j >= Block - LenCells -> LenCell
    [] p = n /\ a # "blake2b" -> PadByte
    [] OTHER -> ZeroByte

\* The last block of the shortest padding, given where it starts.
LastBlockAt(a, n, at) ==
  CASE a = "blake2b" -> (at < n /\ n <= at + Block) \/ (at = 0 /\ n = 0)
    [] a = "poly1305" -> at < n /\ n <= at + Block
    [] OTHER -> at - LenCells <= n /\ n < at + Block - LenCells

\* h is the sequence of blocks of the padded message of n bytes.
Spells(a, h, n) ==
  /\ h = <<>> => a = "poly1305" /\ n = 0
  /\ h # <<>> => LastBlockAt(a, n, h[Len(h)].at)
  /\ \A i \in 1 .. Len(h) :
       /\ h[i].at = IF i = 1 THEN 0 ELSE h[i - 1].at + Block
       /\ \A j \in 0 .. Block - 1 :
            h[i].m[j] = PaddedByte(a, n, h[i].at + j, i = Len(h), j)
       /\ h[i].f = (/\ i = Len(h)
                    /\ \/ a = "blake2b"
                       \/ a = "poly1305" /\ n < h[i].at + Block)

Value(t) == t[1] + Word * t[2]

HashEntry == [m : [0 .. Block - 1 -> Int], at : Nat, t : Int \X Int, f : BOOLEAN]

HashObject(a) ==
  [init : {"zero", "iv", "key"}, h : Seq(HashEntry), t : Int \X Int, f : {FALSE},
   buf : [0 .. BufSize(a) - 1 -> Int],
   buflen : 0 .. MaxFill(a), clean : BOOLEAN]

\* Types.  The range of buflen says that no loop and no final writes past the
\* end of its buffer: they write at buflen, and buflen counts what they wrote.
HashTypeOK ==
  /\ alg \in Algorithm
  /\ fed \in Nat /\ rest \in 0 .. fed
  /\ ctx \in HashObject(alg)
  /\ out \in [n : Int, init : {"none", "zero", "iv", "key"}, clean : BOOLEAN,
              h : Seq(HashEntry)]

\* Whatever the pieces were, a digest is that of exactly the bytes fed since the
\* last init or final, padded as the algorithm says: no byte is lost, repeated,
\* misplaced or left over from earlier use of the buffer, the last block alone is
\* flagged, and there is no block too many or too few.  (Of a SHA-256 object whose
\* Summary failed half-way nothing is promised.)
DigestIsOfInput ==
  out.n >= 0 /\ out.clean => Spells(alg, out.h, out.n)

\* The counter that goes into BLAKE2b's compression function is the number of
\* bytes up to the end of that block, the length that goes into SHA's last block
\* the number of bits of the message, across the carries between the two words.
CountersExact ==
  out.n >= 0 /\ out.clean =>
    \A i \in 1 .. Len(out.h) :
      LET e == out.h[i]
      IN  /\ alg = "blake2b" =>
               Value(e.t) = (IF e.f THEN out.n ELSE e.at + Block) % (Word * Word)
          /\ alg \in {"sha512", "sha256"} /\ i = Len(out.h) =>
               Value(e.t) = (8 * out.n) % (Word * Word)

=============================================================================
