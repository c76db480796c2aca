------------------------ MODULE StreamingHashProofs ------------------------
(***************************************************************************)
(* Proofs about StreamingHash for every block length, word and input: its  *)
(* types, by which no buffer is written past its end; that every digest is *)
(* of the bytes fed, padded as the algorithm says; and that the counters   *)
(* and lengths in it are exact across the carries between their words.     *)
(*                                                                         *)
(* The invariant (HashInv) says of the object, while no Summary has failed *)
(* on it, that ctx.h is full blocks of the input from its start, that the  *)
(* buffer holds the bytes that follow, up to what the running update has   *)
(* absorbed, and that the counter is the length it stands for.             *)
(***************************************************************************)
EXTENDS StreamingHash, TLAPS

\* memcpy, memset and the length keep the type of a buffer.
LEMMA BufferTypes ==
  ASSUME NEW size \in Int, NEW buf \in [0 .. size - 1 -> Int],
         NEW x \in Int, NEW y \in Int
  PROVE  /\ Zeroed(buf, x, y) \in [0 .. size - 1 -> Int]
         /\ WithLength(buf) \in [0 .. size - 1 -> Int]
         /\ \A first \in Int : Copied(buf, x, y, first) \in [0 .. size - 1 -> Int]
         /\ [buf EXCEPT ![x] = PadByte] \in [0 .. size - 1 -> Int]
<1>1. Zeroed(buf, x, y) \in [0 .. size - 1 -> Int]
  BY DEF Zeroed, ZeroByte
<1>2. WithLength(buf) \in [0 .. size - 1 -> Int]
  BY DEF WithLength, LenCell
<1>3. \A first \in Int : Copied(buf, x, y, first) \in [0 .. size - 1 -> Int]
  BY DEF Copied
<1>4. [buf EXCEPT ![x] = PadByte] \in [0 .. size - 1 -> Int]
  <2>1. PadByte \in Int
    BY DEF PadByte
  <2> QED
    BY <2>1
<1> QED
  BY <1>1, <1>2, <1>3, <1>4

\* So do memmove, which reads one block further on, and the first block.
LEMMA BlockTypes ==
  ASSUME NEW a \in Algorithm, NEW buf \in [0 .. BufSize(a) - 1 -> Int],
         NEW k \in 0 .. Block
  PROVE  /\ FirstBlock(buf) \in [0 .. Block - 1 -> Int]
         /\ a = "blake2b" => MovedDown(buf, k) \in [0 .. BufSize(a) - 1 -> Int]
<1>1. Block \in Nat
  BY BlockAssumption
<1>2. FirstBlock(buf) \in [0 .. Block - 1 -> Int]
  BY <1>1 DEF FirstBlock, BufSize, Algorithm
<1>3. ASSUME a = "blake2b" PROVE MovedDown(buf, k) \in [0 .. BufSize(a) - 1 -> Int]
  BY <1>1, <1>3 DEF MovedDown, BufSize
<1> QED
  BY <1>2, <1>3

\* A buffer's size is a number, and what an object's fields are.
LEMMA ObjectFields ==
  ASSUME NEW a \in Algorithm, NEW c \in HashObject(a)
  PROVE  /\ Block \in Nat \ {0} /\ LenCells \in Nat \ {0} /\ LenCells < Block
         /\ BufSize(a) \in Nat /\ MaxFill(a) \in Nat
         /\ c.h \in Seq(HashEntry) /\ c.t \in Int \X Int /\ c.f = FALSE
         /\ c.buf \in [0 .. BufSize(a) - 1 -> Int]
         /\ c.buflen \in 0 .. MaxFill(a) /\ c.buflen \in Nat
         /\ c.init \in {"zero", "iv", "key"} /\ c.clean \in BOOLEAN
<1>1. Block \in Nat \ {0} /\ LenCells \in Nat \ {0} /\ LenCells < Block
  BY BlockAssumption
<1>2. BufSize(a) \in Nat /\ MaxFill(a) \in Nat
  BY <1>1 DEF BufSize, MaxFill
<1>3. /\ c.h \in Seq(HashEntry) /\ c.t \in Int \X Int /\ c.f \in {FALSE}
      /\ c.buf \in [0 .. BufSize(a) - 1 -> Int]
      /\ c.buflen \in 0 .. MaxFill(a)
      /\ c.init \in {"zero", "iv", "key"} /\ c.clean \in BOOLEAN
  BY DEF HashObject
<1>4. c.buflen \in Nat
  BY <1>2, <1>3
<1> QED
  BY <1>1, <1>2, <1>3, <1>4

\* The next position in the stream is a natural number.
LEMMA NextAtType ==
  ASSUME NEW h \in Seq(HashEntry)
  PROVE  NextAt(h) \in Nat
<1>1. CASE h = <<>>
  BY <1>1 DEF NextAt
<1>2. CASE h # <<>>
  <2>1. h[Len(h)] \in HashEntry
    BY <1>2
  <2> QED
    BY <1>2, <2>1, BlockAssumption DEF NextAt, HashEntry
<1> QED
  BY <1>1, <1>2

\* A compression adds one well-formed entry.
LEMMA CompressedType ==
  ASSUME NEW h \in Seq(HashEntry), NEW m \in [0 .. Block - 1 -> Int],
         NEW t \in Int \X Int, NEW f \in BOOLEAN
  PROVE  Compressed(h, m, t, f) \in Seq(HashEntry)
<1>1. [m |-> m, at |-> NextAt(h), t |-> t, f |-> f] \in HashEntry
  BY NextAtType DEF HashEntry
<1> QED
  BY <1>1 DEF Compressed

\* Counters stay pairs of numbers.
LEMMA CounterTypes ==
  ASSUME NEW t \in Int \X Int, NEW n \in Nat
  PROVE  /\ AddWords(t, n) \in Int \X Int
         /\ CountBits(t, n) \in Int \X Int
         /\ AddBits(t, n) \in Int \X Int
         /\ Blake2bIncrement(t, n) \in Int \X Int
<1>1. Word \in Nat \ {0}
  BY WordAssumption
<1>2. \A u \in Int \X Int, k \in Int : AddWords(u, k) \in Int \X Int
  BY <1>1 DEF AddWords
<1>3. (8 * n) % Word \in Int /\ (8 * n) \div Word \in Int
  BY <1>1
<1>4. CountBits(t, n) \in Int \X Int
  <2> DEFINE t1 == AddWords(t, (8 * n) % Word)
  <2>1. t1 \in Int \X Int
    BY <1>2, <1>3
  <2>2. (t1[2] + (8 * n) \div Word) % Word \in Int
    BY <2>1, <1>3, <1>1
  <2> QED
    BY <2>1, <2>2 DEF CountBits
<1>5. AddBits(t, n) \in Int \X Int
  <2> DEFINE v == (t[1] + Word * t[2] + 8 * n) % (Word * Word)
  <2>1. Word * Word \in Nat \ {0} /\ t[1] + Word * t[2] + 8 * n \in Int
    BY <1>1
  <2>2. v \in Int
    BY <2>1
  <2>3. v % Word \in Int /\ v \div Word \in Int
    BY <2>2, <1>1
  <2> QED
    BY <2>3 DEF AddBits
<1> QED
  BY <1>2, <1>4, <1>5 DEF Blake2bIncrement

\* The states init and memzero leave are objects of their algorithm.
LEMMA FreshTypes ==
  ASSUME NEW a \in Algorithm, NEW old \in [0 .. BufSize(a) - 1 -> Int]
  PROVE  /\ Zeros(a) \in [0 .. BufSize(a) - 1 -> Int]
         /\ Fresh(a, old) \in HashObject(a)
         /\ Wiped(a) \in HashObject(a)
         /\ a = "blake2b" => Keyed(a) \in HashObject(a)
<1>1. Block \in Nat \ {0}
  BY BlockAssumption
<1>2. Zeros(a) \in [0 .. BufSize(a) - 1 -> Int] /\ BufSize(a) \in Nat
  BY <1>1 DEF Zeros, ZeroByte, BufSize
<1>3. 0 \in 0 .. MaxFill(a) /\ <<>> \in Seq(HashEntry) /\ <<0, 0>> \in Int \X Int
  BY <1>1 DEF MaxFill
<1>4. Fresh(a, old) \in HashObject(a)
  BY <1>2, <1>3 DEF Fresh, HashObject
<1>5. Wiped(a) \in HashObject(a)
  BY <1>2, <1>3 DEF Wiped, HashObject
<1>6. ASSUME a = "blake2b" PROVE Keyed(a) \in HashObject(a)
  <2> DEFINE buf == Copied(Zeros(a), 0, Block, 1)
  <2>1. buf \in [0 .. BufSize(a) - 1 -> Int]
    <3>1. BufSize(a) \in Int /\ 0 \in Int /\ 1 \in Int /\ Block \in Int
      BY <1>1, <1>2
    <3> QED
      BY <3>1, <1>2, BufferTypes
  <2>2. Block \in 0 .. MaxFill(a)
    BY <1>1, <1>6 DEF MaxFill
  <2> HIDE DEF buf
  <2>3. [Fresh(a, Zeros(a)) EXCEPT !.init = "key", !.buf = buf, !.buflen = Block]
          \in HashObject(a)
    BY <1>2, <1>3, <2>1, <2>2 DEF Fresh, HashObject
  <2> QED
    BY <2>3 DEF Keyed, buf
<1> QED
  BY <1>2, <1>4, <1>5, <1>6

\* What a final compresses is well-formed.
LEMMA FinalTypes ==
  ASSUME NEW a \in Algorithm, NEW c \in HashObject(a)
  PROVE  /\ a = "blake2b" => Blake2bFinalBlocks(c) \in Seq(HashEntry)
         /\ a = "sha512" => Sha512FinalBlocks(c) \in Seq(HashEntry)
         /\ a = "sha256" => Sha256Padded(c) \in HashObject(a)
         /\ a = "poly1305" => Poly1305FinalBlocks(c) \in Seq(HashEntry)
<1> DEFINE Buf == [0 .. BufSize(a) - 1 -> Int]
<1>0. /\ Block \in Nat \ {0} /\ LenCells \in Nat \ {0} /\ BufSize(a) \in Nat
      /\ c.h \in Seq(HashEntry) /\ c.t \in Int \X Int
      /\ c.buf \in Buf /\ c.buflen \in 0 .. MaxFill(a) /\ c.buflen \in Nat
  BY ObjectFields
<1>1. \A buf \in Buf, x, y \in Int :
        /\ Zeroed(buf, x, y) \in Buf /\ WithLength(buf) \in Buf
        /\ [buf EXCEPT ![x] = PadByte] \in Buf
  <2>1. BufSize(a) \in Int
    BY <1>0
  <2> QED
    BY <2>1, BufferTypes
<1>2. \A buf \in Buf : FirstBlock(buf) \in [0 .. Block - 1 -> Int]
  <2>1. 0 \in 0 .. Block
    BY <1>0
  <2> QED
    BY <2>1, BlockTypes
<1>3. \A h \in Seq(HashEntry), m \in [0 .. Block - 1 -> Int], t \in Int \X Int, f \in BOOLEAN :
        Compressed(h, m, t, f) \in Seq(HashEntry)
  BY CompressedType
<1>4. /\ <<0, 0>> \in Int \X Int /\ 0 \in Int /\ 2 * Block \in Int /\ Block \in Int
      /\ Block - LenCells \in Int /\ c.buflen + 1 \in Int /\ c.buflen \in Int
  BY <1>0
<1>7. ASSUME a = "blake2b" PROVE Blake2bFinalBlocks(c) \in Seq(HashEntry)
  <2> DEFINE two  == c.buflen > Block
             t1   == IF two THEN Blake2bIncrement(c.t, Block) ELSE c.t
             h1   == IF two THEN Compressed(c.h, FirstBlock(c.buf), t1, FALSE) ELSE c.h
             len  == IF two THEN c.buflen - Block ELSE c.buflen
             buf1 == IF two THEN MovedDown(c.buf, len) ELSE c.buf
  <2>1. len \in 0 .. Block /\ len \in Nat /\ len \in Int
    BY <1>7, <1>0 DEF MaxFill
  <2>2. t1 \in Int \X Int
    BY <1>0, CounterTypes
  <2>3. Blake2bIncrement(t1, len) \in Int \X Int
    <3> HIDE DEF t1, len
    <3> QED
      BY <2>1, <2>2, CounterTypes
  <2>4. h1 \in Seq(HashEntry)
    <3> HIDE DEF t1
    <3> QED
      BY <1>0, <1>2, <1>3, <2>2
  <2>5. buf1 \in Buf
    <3> HIDE DEF len
    <3> QED
      BY <1>0, <1>7, <2>1, BlockTypes
  <2> HIDE DEF t1, h1, len, buf1
  <2>6. FirstBlock(Zeroed(buf1, len, 2 * Block)) \in [0 .. Block - 1 -> Int]
    <3>1. Zeroed(buf1, len, 2 * Block) \in Buf
      BY <1>1, <1>4, <2>1, <2>5
    <3> QED
      BY <3>1, <1>2
  <2>7. Compressed(h1, FirstBlock(Zeroed(buf1, len, 2 * Block)), Blake2bIncrement(t1, len), TRUE)
          \in Seq(HashEntry)
    BY <1>3, <2>3, <2>4, <2>6
  <2> QED
    BY <2>7 DEF Blake2bFinalBlocks, t1, h1, len, buf1, Blake2bCompress
<1>8. ASSUME a = "sha512" PROVE Sha512FinalBlocks(c) \in Seq(HashEntry)
  <2> DEFINE buf1 == [c.buf EXCEPT ![c.buflen] = PadByte]
             over == c.buflen + 1 > Block - LenCells
             b2   == FirstBlock(Zeroed(buf1, c.buflen + 1, Block))
             h1   == IF over THEN Compressed(c.h, b2, <<0, 0>>, FALSE) ELSE c.h
             len  == IF over THEN 0 ELSE c.buflen + 1
             z    == Zeroed(buf1, len, Block - LenCells)
             b3   == FirstBlock(WithLength(z))
  <2>1. buf1 \in Buf /\ len \in Int
    BY <1>0, <1>1, <1>4
  <2> HIDE DEF buf1, len, over
  <2>2. b2 \in [0 .. Block - 1 -> Int]
    <3>1. Zeroed(buf1, c.buflen + 1, Block) \in Buf
      BY <2>1, <1>1, <1>4
    <3> QED
      BY <3>1, <1>2
  <2>3. b3 \in [0 .. Block - 1 -> Int]
    <3>1. z \in Buf
      BY <2>1, <1>1, <1>4
    <3>2. WithLength(z) \in Buf
      BY <3>1, <1>1, <1>4
    <3> QED
      BY <3>2, <1>2
  <2> HIDE DEF b2, b3, z
  <2>4. h1 \in Seq(HashEntry)
    BY <2>2, <1>0, <1>3, <1>4
  <2> HIDE DEF h1
  <2>5. Compressed(h1, b3, c.t, FALSE) \in Seq(HashEntry)
    BY <2>3, <2>4, <1>0, <1>3
  <2> QED
    BY <2>5 DEF Sha512FinalBlocks, h1, b2, b3, z, len, buf1, over, Sha512Transform
<1>9. ASSUME a = "sha256" PROVE Sha256Padded(c) \in HashObject(a)
  <2> DEFINE over == c.buflen >= Block - LenCells
             end  == IF over THEN Block ELSE Block - LenCells
             buf0 == [c.buf EXCEPT ![c.buflen] = PadByte]
             buf1 == Zeroed(buf0, c.buflen + 1, end)
             h1   == IF over THEN Compressed(c.h, FirstBlock(buf1), <<0, 0>>, FALSE) ELSE c.h
             z    == Zeroed(buf1, 0, Block - LenCells)
             buf2 == WithLength(IF over THEN z ELSE buf1)
             t1   == AddBits(c.t, c.buflen)
  <2>1. buf0 \in Buf /\ end \in Int
    BY <1>0, <1>1, <1>4
  <2> HIDE DEF buf0, end, over
  <2>2. buf1 \in Buf
    BY <2>1, <1>1, <1>4
  <2> HIDE DEF buf1
  <2>3. z \in Buf
    BY <2>2, <1>1, <1>4
  <2> HIDE DEF z
  <2>4. buf2 \in Buf
    BY <2>2, <2>3, <1>1, <1>4
  <2>5. t1 \in Int \X Int
    BY <1>0, CounterTypes
  <2>6. h1 \in Seq(HashEntry)
    BY <2>2, <1>0, <1>2, <1>3, <1>4
  <2> HIDE DEF h1, buf2, t1
  <2>7. Compressed(h1, FirstBlock(buf2), t1, FALSE) \in Seq(HashEntry)
    BY <2>4, <2>5, <2>6, <1>2, <1>3
  <2>8. [c EXCEPT !.t = t1, !.buf = buf2, !.h = Compressed(h1, FirstBlock(buf2), t1, FALSE)]
          \in HashObject(a)
    BY <2>4, <2>5, <2>7 DEF HashObject
  <2> QED
    BY <2>8 DEF Sha256Padded, h1, z, buf0, buf1, buf2, t1, over, end, Sha256Transform
<1>10. ASSUME a = "poly1305" PROVE Poly1305FinalBlocks(c) \in Seq(HashEntry)
  <2> DEFINE buf0 == [c.buf EXCEPT ![c.buflen] = PadByte]
             b    == FirstBlock(Zeroed(buf0, c.buflen + 1, Block))
  <2>1. buf0 \in Buf
    BY <1>0, <1>1, <1>4
  <2> HIDE DEF buf0
  <2>2. Zeroed(buf0, c.buflen + 1, Block) \in Buf
    BY <2>1, <1>1, <1>4
  <2>3. b \in [0 .. Block - 1 -> Int]
    BY <2>2, <1>2
  <2> HIDE DEF b
  <2> QED
    BY <2>3, <1>0, <1>3, <1>4 DEF Poly1305FinalBlocks, b, buf0, Poly1305Blocks
<1> QED
  BY <1>7, <1>8, <1>9, <1>10
\* An iteration of a loop leaves an object and a smaller rest.
LEMMA AbsorbType ==
  ASSUME HashTypeOK, NEW c \in HashObject(alg), NEW n \in 0 .. rest, Absorb(c, n)
  PROVE  HashTypeOK'
<1>1. alg' = alg /\ fed' = fed /\ out' = out /\ ctx' = c /\ rest' = rest - n
  BY DEF Absorb
<1>2. rest' \in 0 .. fed'
  BY <1>1 DEF HashTypeOK
<1>3. HashObject(alg)' = HashObject(alg')
  BY DEF HashObject, BufSize, MaxFill
<1> QED
  BY <1>1, <1>2, <1>3 DEF HashTypeOK

\* A final returns a digest and leaves an object.
LEMMA FinishedType ==
  ASSUME HashTypeOK, NEW h \in Seq(HashEntry), NEW c \in HashObject(alg),
         Finished(h, c), Idle
  PROVE  HashTypeOK'
<1>1. /\ alg' = alg /\ fed' = 0 /\ rest' = 0 /\ ctx' = c
      /\ out' = [n |-> fed, init |-> ctx.init, clean |-> ctx.clean, h |-> h]
  BY DEF Finished, Returned, Idle
<1>2. /\ fed \in Int /\ ctx.init \in {"none", "zero", "iv", "key"} /\ ctx.clean \in BOOLEAN
  <2>1. alg \in Algorithm /\ ctx \in HashObject(alg) /\ fed \in Nat
    BY DEF HashTypeOK
  <2>2. ctx.init \in {"zero", "iv", "key"} /\ ctx.clean \in BOOLEAN
    BY <2>1, ObjectFields
  <2> QED
    BY <2>1, <2>2
<1>3. out' \in [n : Int, init : {"none", "zero", "iv", "key"}, clean : BOOLEAN,
                h : Seq(HashEntry)]
  BY <1>1, <1>2
<1> QED
  BY <1>1, <1>3 DEF HashTypeOK

\* The objects the loops build.
LEMMA LoopTypes ==
  ASSUME HashTypeOK,
         NEW n \in Nat, ctx.buflen + n <= BufSize(alg),
         NEW buf1, buf1 = Copied(ctx.buf, ctx.buflen, n, Next1)
  PROVE  /\ ctx.buflen + n <= MaxFill(alg) =>
              [ctx EXCEPT !.buf = buf1, !.buflen = ctx.buflen + n] \in HashObject(alg)
         /\ \A t \in Int \X Int :
              [ctx EXCEPT !.buf = buf1, !.buflen = 0, !.t = t,
                          !.h = Compressed(ctx.h, FirstBlock(buf1), <<0, 0>>, FALSE)]
                \in HashObject(alg)
         /\ [ctx EXCEPT !.buf = buf1, !.buflen = 0,
                        !.h = Compressed(ctx.h, FirstBlock(buf1), <<0, 0>>, FALSE)]
              \in HashObject(alg)
         /\ buf1 \in [0 .. BufSize(alg) - 1 -> Int]
<1>0. alg \in Algorithm /\ ctx \in HashObject(alg) /\ fed \in Nat /\ rest \in Nat
  BY DEF HashTypeOK
<1>1. /\ Block \in Nat \ {0} /\ BufSize(alg) \in Nat /\ MaxFill(alg) \in Nat
      /\ ctx.h \in Seq(HashEntry) /\ ctx.t \in Int \X Int
      /\ ctx.buf \in [0 .. BufSize(alg) - 1 -> Int] /\ ctx.buflen \in Nat
  BY <1>0, ObjectFields
<1>2. buf1 \in [0 .. BufSize(alg) - 1 -> Int]
  <2>1. BufSize(alg) \in Int /\ ctx.buflen \in Int /\ n \in Int /\ Next1 \in Int
    BY <1>0, <1>1 DEF Next1
  <2> QED
    BY <2>1, <1>1, BufferTypes
<1>3. FirstBlock(buf1) \in [0 .. Block - 1 -> Int]
  <2>1. 0 \in 0 .. Block
    BY <1>1
  <2> QED
    BY <2>1, <1>0, <1>2, BlockTypes
<1>4. Compressed(ctx.h, FirstBlock(buf1), <<0, 0>>, FALSE) \in Seq(HashEntry)
  <2>1. <<0, 0>> \in Int \X Int
    OBVIOUS
  <2> QED
    BY <2>1, <1>1, <1>3, CompressedType
<1>5. ASSUME ctx.buflen + n <= MaxFill(alg)
      PROVE  [ctx EXCEPT !.buf = buf1, !.buflen = ctx.buflen + n] \in HashObject(alg)
  <2>1. ctx.buflen + n \in 0 .. MaxFill(alg)
    BY <1>1, <1>5
  <2> QED
    BY <1>0, <1>2, <2>1 DEF HashObject
<1>6. 0 \in 0 .. MaxFill(alg)
  BY <1>1
<1> DEFINE h1 == Compressed(ctx.h, FirstBlock(buf1), <<0, 0>>, FALSE)
<1> HIDE DEF h1
<1>7. ASSUME NEW t \in Int \X Int
      PROVE  [ctx EXCEPT !.buf = buf1, !.buflen = 0, !.t = t, !.h = h1] \in HashObject(alg)
  BY <1>0, <1>2, <1>4, <1>6 DEF HashObject, h1
<1>8. [ctx EXCEPT !.buf = buf1, !.buflen = 0, !.h = h1] \in HashObject(alg)
  BY <1>0, <1>2, <1>4, <1>6 DEF HashObject, h1
<1> QED
  BY <1>2, <1>5, <1>7, <1>8 DEF h1

\* Whatever is fed in whatever pieces, no buffer is written past its end.
THEOREM HashTypeCorrect == HashSpec => []HashTypeOK
<1>1. HashInit => HashTypeOK
  <2> SUFFICES ASSUME HashInit PROVE HashTypeOK
    OBVIOUS
  <2>1. alg \in Algorithm /\ rest = 0 /\ out = NoDigest /\ (fed = 0 \/ fed = Block)
    BY DEF HashInit
  <2>2. fed \in Nat /\ rest \in 0 .. fed
    BY <2>1, BlockAssumption
  <2>3. /\ Zeros(alg) \in [0 .. BufSize(alg) - 1 -> Int]
        /\ alg = "blake2b" => Keyed(alg) \in HashObject(alg)
    <3>1. BufSize(alg) \in Int /\ Zeros(alg) \in [0 .. BufSize(alg) - 1 -> Int]
      BY <2>1, BlockAssumption DEF Zeros, ZeroByte, BufSize
    <3> QED
      BY <2>1, <3>1, FreshTypes
  <2>4. ctx \in HashObject(alg)
    BY <2>1, <2>3, FreshTypes DEF HashInit
  <2>5. out \in [n : Int, init : {"none", "zero", "iv", "key"}, clean : BOOLEAN,
                h : Seq(HashEntry)]
    BY <2>1 DEF NoDigest
  <2> QED
    BY <2>1, <2>2, <2>4, <2>5 DEF HashTypeOK
<1>2. HashTypeOK /\ [HashNext]_hashVars => HashTypeOK'
  <2> SUFFICES ASSUME HashTypeOK, [HashNext]_hashVars PROVE HashTypeOK'
    OBVIOUS
  <2>0. /\ alg \in Algorithm /\ ctx \in HashObject(alg) /\ fed \in Nat
        /\ rest \in Nat /\ rest <= fed /\ Next1 \in Int
        /\ Block \in Nat \ {0} /\ BufSize(alg) \in Nat /\ MaxFill(alg) \in Nat
        /\ ctx.h \in Seq(HashEntry) /\ ctx.t \in Int \X Int /\ ctx.f = FALSE
        /\ ctx.buf \in [0 .. BufSize(alg) - 1 -> Int]
        /\ ctx.buflen \in 0 .. MaxFill(alg) /\ ctx.buflen \in Nat
    <3>1. alg \in Algorithm /\ ctx \in HashObject(alg) /\ fed \in Nat
          /\ rest \in Nat /\ rest <= fed /\ Next1 \in Int
      BY DEF HashTypeOK, Next1
    <3> QED
      BY <3>1, ObjectFields
  <2>1. CASE UNCHANGED hashVars
    <3>1. alg' = alg /\ ctx' = ctx /\ fed' = fed /\ rest' = rest /\ out' = out
      BY <2>1 DEF hashVars
    <3> QED
      BY <3>1 DEF HashTypeOK, HashObject, BufSize, MaxFill
  <2>2. CASE Restart
    <3>1. /\ alg' = alg /\ rest' = 0 /\ rest = 0 /\ out' = NoDigest
          /\ fed' = 0 \/ fed' = Block
      BY <2>2 DEF Restart, Idle
    <3>2. fed' \in Nat /\ rest' \in 0 .. fed'
      BY <3>1, <2>0
    <3>3. ctx' \in HashObject(alg)
      BY <2>2, <2>0, FreshTypes DEF Restart
    <3>4. HashObject(alg)' = HashObject(alg')
      BY DEF HashObject, BufSize, MaxFill
    <3>5. out' \in [n : Int, init : {"none", "zero", "iv", "key"}, clean : BOOLEAN,
                   h : Seq(HashEntry)]
      BY <3>1 DEF NoDigest
    <3> QED
      BY <3>1, <3>2, <3>3, <3>4, <3>5, <2>0 DEF HashTypeOK
  <2>3. ASSUME NEW n \in 0 .. MaxInput, Update(n) PROVE HashTypeOK'
    <3>1. /\ alg' = alg /\ fed' = fed + n /\ rest' = n /\ out' = NoDigest
          /\ ctx' = IF alg = "sha512" THEN [ctx EXCEPT !.t = CountBits(ctx.t, n)] ELSE ctx
      BY <2>3 DEF Update
    <3>2. n \in Nat /\ fed' \in Nat /\ rest' \in 0 .. fed'
      BY <3>1, <2>0, WordAssumption
    <3>3. CountBits(ctx.t, n) \in Int \X Int
      BY <3>2, <2>0, CounterTypes
    <3>4. [ctx EXCEPT !.t = CountBits(ctx.t, n)] \in HashObject(alg)
      BY <3>3, <2>0 DEF HashObject
    <3>5. ctx' \in HashObject(alg')
      BY <3>1, <3>4, <2>0
    <3>6. HashObject(alg)' = HashObject(alg')
      BY DEF HashObject, BufSize, MaxFill
    <3>7. out' \in [n : Int, init : {"none", "zero", "iv", "key"}, clean : BOOLEAN,
                   h : Seq(HashEntry)]
      BY <3>1 DEF NoDigest
    <3> QED
      BY <3>1, <3>2, <3>5, <3>6, <3>7, <2>0 DEF HashTypeOK
  <2>4. CASE Blake2bFill
    <3> DEFINE fill == 2 * Block - ctx.buflen
               full == Copied(ctx.buf, ctx.buflen, fill, Next1)
               t1   == Blake2bIncrement(ctx.t, Block)
               h1   == Compressed(ctx.h, FirstBlock(full), t1, ctx.f)
               mv   == MovedDown(full, Block)
    <3>1. fill \in Nat /\ fill <= rest /\ alg = "blake2b" /\ BufSize(alg) = 2 * Block
          /\ Block \in 0 .. MaxFill(alg) /\ Block \in 0 .. Block
      BY <2>4, <2>0 DEF Blake2bFill, BufSize, MaxFill, Blake2bCompress
    <3>2. full \in [0 .. BufSize(alg) - 1 -> Int]
      <4>1. ctx.buflen + fill <= BufSize(alg)
        BY <3>1, <2>0
      <4> HIDE DEF fill
      <4> QED
        BY <4>1, <3>1, LoopTypes
    <3>3. t1 \in Int \X Int
      BY <2>0, CounterTypes
    <3> HIDE DEF t1, full
    <3>4. FirstBlock(full) \in [0 .. Block - 1 -> Int] /\ mv \in [0 .. BufSize(alg) - 1 -> Int]
      BY <3>1, <3>2, <2>0, BlockTypes
    <3>5. h1 \in Seq(HashEntry)
      BY <3>3, <3>4, <2>0, CompressedType
    <3> HIDE DEF h1, mv
    <3>6. [ctx EXCEPT !.t = t1, !.h = h1, !.buf = mv, !.buflen = Block] \in HashObject(alg)
      BY <3>1, <3>3, <3>4, <3>5, <2>0 DEF HashObject
    <3>7. Absorb([ctx EXCEPT !.t = t1, !.h = h1, !.buf = mv, !.buflen = Block], fill)
      BY <2>4 DEF Blake2bFill, t1, h1, mv, full, Blake2bCompress
    <3> HIDE DEF fill
    <3>8. fill \in 0 .. rest
      BY <3>1, <2>0
    <3> QED
      BY <3>6, <3>7, <3>8, AbsorbType
  <2>5. CASE Blake2bKeep
    <3>1. /\ ctx.buflen + rest <= BufSize(alg) /\ ctx.buflen + rest <= MaxFill(alg)
          /\ rest \in 0 .. rest
      BY <2>5, <2>0 DEF Blake2bKeep, BufSize, MaxFill
    <3>2. Absorb([ctx EXCEPT !.buf = Copied(ctx.buf, ctx.buflen, rest, Next1),
                             !.buflen = ctx.buflen + rest], rest)
      BY <2>5 DEF Blake2bKeep
    <3> QED
      BY <3>1, <3>2, <2>0, LoopTypes, AbsorbType
  <2>6. CASE Sha512Take
    <3> DEFINE take == IF Block - ctx.buflen > rest THEN rest ELSE Block - ctx.buflen
               buf1 == Copied(ctx.buf, ctx.buflen, take, Next1)
    <3>1. take \in Nat /\ take \in 0 .. rest /\ ctx.buflen + take <= BufSize(alg)
          /\ (ctx.buflen + take # Block => ctx.buflen + take <= MaxFill(alg))
      BY <2>6, <2>0 DEF Sha512Take, BufSize, MaxFill, Sha512Transform
    <3>2. Absorb(IF ctx.buflen + take = Block
                 THEN [ctx EXCEPT !.buf = buf1, !.buflen = 0,
                         !.h = Compressed(ctx.h, FirstBlock(buf1), <<0, 0>>, FALSE)]
                 ELSE [ctx EXCEPT !.buf = buf1, !.buflen = ctx.buflen + take],
                 take)
      BY <2>6 DEF Sha512Take, Sha512Transform
    <3> HIDE DEF take
    <3> QED
      BY <3>1, <3>2, LoopTypes, AbsorbType
  <2>7. CASE Sha256Byte
    <3> DEFINE buf1 == Copied(ctx.buf, ctx.buflen, 1, Next1)
    <3>1. 1 \in Nat /\ 1 \in 0 .. rest /\ ctx.buflen + 1 <= BufSize(alg)
          /\ (ctx.buflen + 1 # Block => ctx.buflen + 1 <= MaxFill(alg))
      BY <2>7, <2>0 DEF Sha256Byte, BufSize, MaxFill, Sha256Transform
    <3>2. AddBits(ctx.t, Block) \in Int \X Int
      BY <2>0, CounterTypes
    <3>3. Absorb(IF ctx.buflen + 1 = Block
                 THEN [ctx EXCEPT !.buf = buf1, !.buflen = 0, !.t = AddBits(ctx.t, Block),
                         !.h = Compressed(ctx.h, FirstBlock(buf1), <<0, 0>>, FALSE)]
                 ELSE [ctx EXCEPT !.buf = buf1, !.buflen = ctx.buflen + 1],
                 1)
      BY <2>7 DEF Sha256Byte, Sha256Transform
    <3> QED
      BY <3>1, <3>2, <3>3, LoopTypes, AbsorbType
  <2>8. CASE Poly1305Complete
    <3> DEFINE want == IF Block - ctx.buflen > rest THEN rest ELSE Block - ctx.buflen
               buf1 == Copied(ctx.buf, ctx.buflen, want, Next1)
    <3>1. want \in Nat /\ want \in 0 .. rest /\ ctx.buflen + want <= BufSize(alg)
          /\ (ctx.buflen + want < Block => ctx.buflen + want <= MaxFill(alg))
      BY <2>8, <2>0 DEF Poly1305Complete, BufSize, MaxFill, Poly1305Blocks
    <3>2. Absorb(IF ctx.buflen + want < Block
                 THEN [ctx EXCEPT !.buf = buf1, !.buflen = ctx.buflen + want]
                 ELSE [ctx EXCEPT !.buf = buf1, !.buflen = 0,
                         !.h = Compressed(ctx.h, FirstBlock(buf1), <<0, 0>>, FALSE)],
                 want)
      BY <2>8, <2>0 DEF Poly1305Complete, Poly1305Blocks
    <3> HIDE DEF want
    <3> QED
      BY <3>1, <3>2, LoopTypes, AbsorbType
  <2>9. CASE Poly1305Whole
    <3> DEFINE m == [j \in 0 .. Block - 1 |-> Next1 + j]
               h1 == Compressed(ctx.h, m, <<0, 0>>, FALSE)
    <3>1. m \in [0 .. Block - 1 -> Int] /\ <<0, 0>> \in Int \X Int
      BY <2>0
    <3> HIDE DEF m
    <3>2. h1 \in Seq(HashEntry)
      BY <3>1, <2>0, CompressedType
    <3> HIDE DEF h1
    <3>3. [ctx EXCEPT !.h = h1] \in HashObject(alg)
      BY <3>2, <2>0 DEF HashObject
    <3>4. Absorb([ctx EXCEPT !.h = Compressed(ctx.h, m, <<0, 0>>, ctx.f)], Block)
      BY <2>9 DEF Poly1305Whole, m, Poly1305Blocks
    <3>5. Compressed(ctx.h, m, <<0, 0>>, ctx.f) = h1
      BY <2>0 DEF h1
    <3>6. Block \in 0 .. rest
      BY <2>9, <2>0 DEF Poly1305Whole, Poly1305Blocks
    <3> QED
      BY <3>3, <3>4, <3>5, <3>6, AbsorbType
  <2>10. CASE Poly1305Keep
    <3>1. /\ ctx.buflen + rest <= BufSize(alg) /\ ctx.buflen + rest <= MaxFill(alg)
          /\ rest \in 0 .. rest /\ ctx.buflen = 0 /\ ctx.buflen + rest = rest
      BY <2>10, <2>0 DEF Poly1305Keep, BufSize, MaxFill
    <3>2. Absorb([ctx EXCEPT !.buf = Copied(ctx.buf, ctx.buflen, rest, Next1),
                             !.buflen = ctx.buflen + rest], rest)
      BY <2>10, <3>1 DEF Poly1305Keep
    <3> QED
      BY <3>1, <3>2, <2>0, LoopTypes, AbsorbType
  <2>11. CASE Blake2bFinal
    <3>1. Finished(Blake2bFinalBlocks(ctx), Wiped(alg)) /\ Idle /\ alg = "blake2b"
      BY <2>11 DEF Blake2bFinal
    <3> QED
      BY <3>1, <2>0, FinalTypes, FreshTypes, FinishedType
  <2>12. CASE Sha512Final
    <3>1. Finished(Sha512FinalBlocks(ctx), Wiped(alg)) /\ Idle /\ alg = "sha512"
      BY <2>12 DEF Sha512Final
    <3> QED
      BY <3>1, <2>0, FinalTypes, FreshTypes, FinishedType
  <2>13. CASE Poly1305Finish
    <3>1. Finished(Poly1305FinalBlocks(ctx), Wiped(alg)) /\ Idle /\ alg = "poly1305"
      BY <2>13 DEF Poly1305Finish
    <3> QED
      BY <3>1, <2>0, FinalTypes, FreshTypes, FinishedType
  <2>14. CASE Sha256Summary
    <3> DEFINE p == Sha256Padded(ctx)
    <3>1. Finished(p.h, Fresh(alg, p.buf)) /\ Idle /\ alg = "sha256"
      BY <2>14 DEF Sha256Summary
    <3>2. p \in HashObject(alg)
      BY <3>1, <2>0, FinalTypes
    <3> HIDE DEF p
    <3>3. p.h \in Seq(HashEntry) /\ Fresh(alg, p.buf) \in HashObject(alg)
      BY <3>2, <2>0, ObjectFields, FreshTypes
    <3> QED
      BY <3>1, <3>3, FinishedType
  <2>15. CASE Sha256OversizedSummary
    <3> DEFINE p == Sha256Padded(ctx)
    <3>1. /\ ctx' = [p EXCEPT !.clean = FALSE] /\ alg = "sha256"
          /\ alg' = alg /\ fed' = fed /\ rest' = rest /\ out' = out
      BY <2>15 DEF Sha256OversizedSummary
    <3>2. p \in HashObject(alg)
      BY <3>1, <2>0, FinalTypes
    <3> HIDE DEF p
    <3>3. [p EXCEPT !.clean = FALSE] \in HashObject(alg)
      BY <3>2 DEF HashObject
    <3>4. HashObject(alg)' = HashObject(alg')
      BY DEF HashObject, BufSize, MaxFill
    <3> QED
      BY <3>1, <3>3, <3>4 DEF HashTypeOK
  <2> QED
    BY <2>1, <2>2, <2>3, <2>4, <2>5, <2>6, <2>7, <2>8, <2>9, <2>10, <2>11, <2>12, <2>13,
       <2>14, <2>15 DEF HashNext
<1> QED
  BY <1>1, <1>2, PTL DEF HashSpec

(***************************************************************************)
(* Two words as one number.                                                *)
(***************************************************************************)
\* Quotient and remainder, and that they are the only ones.
LEMMA QuotientRemainder ==
  ASSUME NEW a \in Int, NEW n \in Nat \ {0}
  PROVE  a = n * (a \div n) + (a % n) /\ a % n \in 0 .. n - 1 /\ a \div n \in Int
OBVIOUS

\* They are the only ones.
LEMMA RemainderUnique ==
  ASSUME NEW a \in Int, NEW n \in Nat \ {0}, NEW q \in Int, NEW r \in 0 .. n - 1,
         a = n * q + r
  PROVE  a % n = r
<1> DEFINE p == a \div n
           s == a % n
<1>1. p \in Int /\ s \in 0 .. n - 1 /\ n * p + s = n * q + r
  BY QuotientRemainder
<1> HIDE DEF p, s
<1>2. n * (p - q) = r - s
  BY <1>1
<1>3. CASE p - q >= 1
  <2>1. n * (p - q) >= n
    BY <1>1, <1>3
  <2> QED
    BY <1>1, <1>2, <2>1
<1>4. CASE p - q <= -1
  <2>1. n * (p - q) <= -n
    BY <1>1, <1>4
  <2> QED
    BY <1>1, <1>2, <2>1
<1>5. p = q
  BY <1>1, <1>3, <1>4
<1> QED
  BY <1>1, <1>5 DEF s

\* A remainder may be taken at every addition or once at the end.
LEMMA RemainderOfSum ==
  ASSUME NEW a \in Int, NEW b \in Int, NEW n \in Nat \ {0}
  PROVE  ((a % n) + b) % n = (a + b) % n
<1> DEFINE d == a \div n
           r == a % n
<1>1. a = n * d + r /\ r \in 0 .. n - 1 /\ d \in Int
  BY QuotientRemainder
<1> HIDE DEF d, r
<1> DEFINE e == (r + b) \div n
           s == (r + b) % n
<1>2. r + b \in Int
  BY <1>1
<1>3. r + b = n * e + s /\ s \in 0 .. n - 1 /\ e \in Int
  BY <1>2, QuotientRemainder
<1> HIDE DEF e, s
<1>4. a + b = n * (d + e) + s /\ d + e \in Int /\ a + b \in Int
  BY <1>1, <1>3
<1>5. (a + b) % n = s
  BY <1>3, <1>4, RemainderUnique
<1> QED
  BY <1>5 DEF r, s

\* Pairs of words, as the counters are.
Words == (0 .. Word - 1) \X (0 .. Word - 1)

\* A pair of words is a number below the square of a word.
LEMMA ValueRange ==
  ASSUME NEW t \in Words
  PROVE  /\ Value(t) \in 0 .. Word * Word - 1 /\ Value(t) \in Int
         /\ Word * Word \in Nat \ {0} /\ Word \in Nat \ {0}
         /\ t[1] \in 0 .. Word - 1 /\ t[2] \in 0 .. Word - 1
         /\ Value(t) % (Word * Word) = Value(t)
<1>1. Word \in Nat \ {0} /\ t[1] \in 0 .. Word - 1 /\ t[2] \in 0 .. Word - 1
  BY WordAssumption DEF Words
<1>2. Word * t[2] <= Word * (Word - 1) /\ Word * t[2] >= 0 /\ Word * t[2] \in Int
  BY <1>1
<1>3. Word * Word \in Nat \ {0} /\ Word * (Word - 1) = Word * Word - Word
  BY <1>1
<1>4. Value(t) \in 0 .. Word * Word - 1 /\ Value(t) \in Int
  <2> DEFINE x == Word * t[2]
             y == Word * Word
  <2>1. x <= y - Word /\ x >= 0 /\ x \in Int /\ y \in Nat
    BY <1>2, <1>3
  <2> HIDE DEF x, y
  <2>2. t[1] + x \in 0 .. y - 1 /\ t[1] + x \in Int
    BY <1>1, <2>1
  <2> QED
    BY <2>2 DEF x, y, Value
<1>5. Value(t) % (Word * Word) = Value(t)
  <2> DEFINE v == Value(t)
             y == Word * Word
  <2>1. v \in 0 .. y - 1 /\ v \in Int /\ y \in Nat \ {0}
    BY <1>3, <1>4
  <2> HIDE DEF v, y
  <2>2. v = y * 0 + v
    BY <2>1
  <2>3. v % y = v
    BY <2>1, <2>2, RemainderUnique
  <2> QED
    BY <2>3 DEF v, y
<1> QED
  BY <1>1, <1>3, <1>4, <1>5

\* The high word takes what the low word gives up: with d = the carry, the
\* pair is the sum modulo the square of a word.
LEMMA TwoWordSum ==
  ASSUME NEW lo \in 0 .. Word - 1, NEW hi \in Int, NEW v \in Int,
         v = lo + Word * hi
  PROVE  /\ <<lo, hi % Word>> \in Words
         /\ Value(<<lo, hi % Word>>) = v % (Word * Word)
<1>1. Word \in Nat \ {0} /\ lo \in Int
  BY WordAssumption
<1> DEFINE p == hi \div Word
           r == hi % Word
<1>2. hi = Word * p + r /\ r \in 0 .. Word - 1 /\ p \in Int
  BY <1>1, QuotientRemainder
<1> HIDE DEF p, r
<1>3. <<lo, r>> \in Words
  BY <1>2 DEF Words
<1>4. Value(<<lo, r>>) \in 0 .. Word * Word - 1 /\ Word * Word \in Nat \ {0}
  BY <1>3, ValueRange
<1>5. Value(<<lo, r>>) = lo + Word * r
  BY DEF Value
<1>6. v = (Word * Word) * p + (lo + Word * r)
  BY <1>1, <1>2
<1> DEFINE y == Word * Word
           w == lo + Word * r
<1>7. y \in Nat \ {0} /\ w \in 0 .. y - 1 /\ v = y * p + w
  BY <1>4, <1>5, <1>6
<1> HIDE DEF y, w
<1>8. v % y = w
  BY <1>2, <1>7, RemainderUnique
<1> QED
  BY <1>3, <1>5, <1>8 DEF y, w, r

\* The carry "low word < increment" is the carry of the addition, for an
\* increment of up to a word: the two words together are the sum.
LEMMA AddWordsExact ==
  ASSUME NEW t \in Words, NEW inc \in 0 .. Word
  PROVE  /\ AddWords(t, inc) \in Words
         /\ Value(AddWords(t, inc)) = (Value(t) + inc) % (Word * Word)
<1>1. Word \in Nat \ {0} /\ t[1] \in 0 .. Word - 1 /\ t[2] \in 0 .. Word - 1 /\ inc \in Int
  BY ValueRange
<1> DEFINE lo == (t[1] + inc) % Word
           c  == IF lo < inc THEN 1 ELSE 0
<1>2. lo \in 0 .. Word - 1 /\ c \in {0, 1} /\ t[1] + inc = lo + Word * c
  <2>1. CASE t[1] + inc < Word
    <3>1. t[1] + inc = Word * 0 + (t[1] + inc) /\ t[1] + inc \in 0 .. Word - 1
      BY <1>1, <2>1
    <3>2. lo = t[1] + inc
      BY <1>1, <3>1, RemainderUnique
    <3> HIDE DEF lo
    <3> QED
      BY <1>1, <2>1, <3>2
  <2>2. CASE ~(t[1] + inc < Word)
    <3> DEFINE x == t[1] + inc
               r == x - Word
    <3>1. x = Word * 1 + r /\ r \in 0 .. Word - 1 /\ x \in Int /\ 1 \in Int
      BY <1>1, <2>2
    <3> HIDE DEF r, x
    <3>2. x % Word = r
      BY <1>1, <3>1, RemainderUnique
    <3>3. lo = r
      BY <3>2 DEF lo, x
    <3> HIDE DEF lo
    <3> QED
      BY <1>1, <2>2, <3>3 DEF r, x
  <2> QED
    BY <2>1, <2>2
<1> HIDE DEF lo, c
<1>3. Value(t) + inc = lo + Word * (t[2] + c)
  <2> DEFINE h == t[2]
  <2>5. h \in Int /\ c \in Int /\ Word \in Int
    BY <1>1, <1>2
  <2> HIDE DEF h
  <2>4. Word * (h + c) = Word * h + Word * c
    BY <2>5
  <2>1. Word * (t[2] + c) = Word * t[2] + Word * c /\ t[2] \in Int /\ c \in Int
    BY <2>5, <2>4 DEF h
  <2>2. Word * t[2] \in Int /\ Word * c \in Int /\ lo \in Int
    BY <1>1, <1>2, <2>1
  <2> QED
    BY <1>1, <1>2, <2>1, <2>2 DEF Value
<1>4. t[2] + c \in Int /\ Value(t) + inc \in Int
  BY <1>1, <1>2, ValueRange
<1>5. AddWords(t, inc) = <<lo, (t[2] + c) % Word>>
  BY DEF AddWords, lo, c
<1> QED
  BY <1>2, <1>3, <1>4, <1>5, TwoWordSum

\* SHA-512's count of the bits of a call of n bytes, and SHA-256's, are sums too.
LEMMA CountBitsExact ==
  ASSUME NEW t \in Words, NEW n \in Nat
  PROVE  /\ CountBits(t, n) \in Words
         /\ Value(CountBits(t, n)) = (Value(t) + 8 * n) % (Word * Word)
<1>1. Word \in Nat \ {0} /\ Value(t) \in Int /\ 8 * n \in Int /\ Word * Word \in Nat \ {0}
  BY ValueRange
<1> DEFINE d == (8 * n) \div Word
           e == (8 * n) % Word
<1>2. 8 * n = Word * d + e /\ e \in 0 .. Word - 1 /\ d \in Int
  BY <1>1, QuotientRemainder
<1> HIDE DEF d, e
<1> DEFINE u == AddWords(t, e)
<1>3. u \in Words /\ Value(u) = (Value(t) + e) % (Word * Word)
  <2>1. e \in 0 .. Word
    BY <1>1, <1>2
  <2> QED
    BY <2>1, AddWordsExact
<1> HIDE DEF u
<1>4. u[1] \in 0 .. Word - 1 /\ u[2] \in 0 .. Word - 1 /\ Value(u) \in Int
  BY <1>3, ValueRange
<1>5. Value(u) + Word * d = u[1] + Word * (u[2] + d) /\ u[2] + d \in Int
      /\ Value(u) + Word * d \in Int /\ Word * d \in Int
  BY <1>1, <1>2, <1>4 DEF Value
<1>6. /\ <<u[1], (u[2] + d) % Word>> \in Words
      /\ Value(<<u[1], (u[2] + d) % Word>>) = (Value(u) + Word * d) % (Word * Word)
  BY <1>4, <1>5, TwoWordSum
<1>7. (Value(u) + Word * d) % (Word * Word) = (Value(t) + 8 * n) % (Word * Word)
  <2> DEFINE v == Value(t)
             y == Word * Word
             z == Word * d
  <2>1. Value(u) = (v + e) % y /\ v + e \in Int /\ z \in Int /\ y \in Nat \ {0}
    BY <1>1, <1>2, <1>3, <1>5
  <2> HIDE DEF v, y, z
  <2> DEFINE m == 8 * n
  <2>5. m = z + e /\ z \in Int /\ e \in Int /\ v \in Int
    BY <1>1, <1>2, <1>5 DEF v, z
  <2> HIDE DEF m
  <2>6. v + m = (v + e) + z
    BY <2>5
  <2>2. v + 8 * n = (v + e) + z
    BY <2>6 DEF m
  <2>3. (Value(u) + z) % y = ((v + e) + z) % y
    BY <2>1, RemainderOfSum
  <2>4. (Value(u) + z) % y = (v + 8 * n) % y
    BY <2>2, <2>3
  <2> QED
    BY <2>4 DEF v, y, z
<1>8. CountBits(t, n) = <<u[1], (u[2] + d) % Word>>
  BY DEF CountBits, u, d, e
<1> QED
  BY <1>6, <1>7, <1>8

\* SHA-256's single 64-bit count is the sum by its definition.
LEMMA AddBitsExact ==
  ASSUME NEW t \in Words, NEW n \in Nat
  PROVE  /\ AddBits(t, n) \in Words
         /\ Value(AddBits(t, n)) = (Value(t) + 8 * n) % (Word * Word)
<1>1. Word \in Nat \ {0} /\ Value(t) \in Int /\ Value(t) + 8 * n \in Int
      /\ Word * Word \in Nat \ {0}
  BY ValueRange
<1> DEFINE v == (Value(t) + 8 * n) % (Word * Word)
<1>2. v \in 0 .. Word * Word - 1 /\ v \in Int
  <2> DEFINE x == Value(t) + 8 * n
             y == Word * Word
  <2>1. x \in Int /\ y \in Nat \ {0}
    BY <1>1
  <2> HIDE DEF x, y
  <2>2. x % y \in 0 .. y - 1 /\ x % y \in Int
    BY <2>1, QuotientRemainder
  <2> QED
    BY <2>2 DEF x, y
<1>3. AddBits(t, n) = <<v % Word, v \div Word>>
  BY DEF AddBits, Value
<1> HIDE DEF v
<1> DEFINE q == v \div Word
           r == v % Word
<1>4. v = Word * q + r /\ r \in 0 .. Word - 1 /\ q \in Int
  BY <1>1, <1>2, QuotientRemainder
<1> HIDE DEF q, r
<1>5. q \in 0 .. Word - 1
  <2>1. CASE q >= Word
    <3>1. Word * q >= Word * Word
      BY <1>1, <1>4, <2>1
    <3> QED
      BY <1>1, <1>2, <1>4, <3>1
  <2>2. CASE q <= -1
    <3>1. Word * q <= -Word
      BY <1>1, <1>4, <2>2
    <3> QED
      BY <1>1, <1>2, <1>4, <3>1
  <2> QED
    BY <1>1, <1>4, <2>1, <2>2
<1>6. <<r, q>> \in Words /\ Value(<<r, q>>) = v
  BY <1>1, <1>4, <1>5 DEF Words, Value
<1> QED
  BY <1>3, <1>6 DEF v, q, r

(***************************************************************************)
(* The blocks of a message.                                                *)
(***************************************************************************)
\* The compressed blocks are the input from its start, block after block.
InputBlocks(h) ==
  \A i \in 1 .. Len(h) :
    /\ h[i].at = IF i = 1 THEN 0 ELSE h[i - 1].at + Block
    /\ h[i].at + Block <= NextAt(h)
    /\ h[i].f = FALSE
    /\ \A j \in 0 .. Block - 1 : h[i].m[j] = h[i].at + j + 1

\* BLAKE2b's counter of each block is the number of bytes up to its end.
BlockCounters(a, h) ==
  a = "blake2b" =>
    \A i \in 1 .. Len(h) : Value(h[i].t) = (h[i].at + Block) % (Word * Word)
\* The object's counter: bytes compressed, bits fed, bits compressed.
Counted(a, c, n) ==
  /\ c.t \in Words
  /\ a = "blake2b" => Value(c.t) = NextAt(c.h) % (Word * Word)
  /\ a = "sha512" => Value(c.t) = (8 * n) % (Word * Word)
  /\ a = "sha256" => Value(c.t) = (8 * NextAt(c.h)) % (Word * Word)

\* The object c holds the first n bytes of the input.
Holds(a, c, n) ==
  /\ InputBlocks(c.h)
  /\ BlockCounters(a, c.h)
  /\ NextAt(c.h) + c.buflen = n
  /\ \A j \in 0 .. c.buflen - 1 : c.buf[j] = NextAt(c.h) + j + 1
  /\ a = "blake2b" /\ c.h # <<>> => c.buflen > 0

\* What a compression appends.
LEMMA CompressedFields ==
  ASSUME NEW h \in Seq(HashEntry), NEW m, NEW t, NEW f,
         NEW g, g = Compressed(h, m, t, f)
  PROVE  /\ Len(h) \in Nat /\ Len(g) = Len(h) + 1 /\ g # <<>>
         /\ \A i \in 1 .. Len(h) : g[i] = h[i]
         /\ g[Len(g)].m = m /\ g[Len(g)].t = t /\ g[Len(g)].f = f
         /\ g[Len(g)].at = NextAt(h)
         /\ g[Len(g)].at = IF Len(g) = 1 THEN 0 ELSE g[Len(g) - 1].at + Block
         /\ NextAt(g) = NextAt(h) + Block
         /\ \A i \in 1 .. Len(g) : i \in 1 .. Len(h) \/ i = Len(g)
<1> DEFINE e == [m |-> m, at |-> NextAt(h), t |-> t, f |-> f]
<1>1. g = Append(h, e)
  BY DEF Compressed
<1>2. e.m = m /\ e.at = NextAt(h) /\ e.t = t /\ e.f = f
  OBVIOUS
<1> HIDE DEF e
<1>3. /\ Len(h) \in Nat /\ Len(g) = Len(h) + 1 /\ g # <<>>
      /\ \A i \in 1 .. Len(h) : g[i] = h[i]
      /\ g[Len(g)] = e
  BY <1>1
<1>4. NextAt(h) = IF Len(g) = 1 THEN 0 ELSE g[Len(g) - 1].at + Block
  <2>1. CASE h = <<>>
    BY <2>1, <1>3 DEF NextAt
  <2>2. CASE h # <<>>
    <3>1. Len(h) \in 1 .. Len(h) /\ Len(g) # 1 /\ Len(g) - 1 = Len(h)
      BY <2>2, <1>3
    <3> QED
      BY <2>2, <3>1, <1>3 DEF NextAt
  <2> QED
    BY <2>1, <2>2
<1>5. NextAt(g) = NextAt(h) + Block
  BY <1>2, <1>3 DEF NextAt
<1>6. \A i \in 1 .. Len(g) : i \in 1 .. Len(h) \/ i = Len(g)
  BY <1>3
<1> QED
  BY <1>2, <1>3, <1>4, <1>5, <1>6

\* A further block of input.
LEMMA InputBlockAppended ==
  ASSUME NEW h \in Seq(HashEntry), InputBlocks(h), NEW m, NEW t,
         \A j \in 0 .. Block - 1 : m[j] = NextAt(h) + j + 1,
         NEW f, f = FALSE, NEW g, g = Compressed(h, m, t, f)
  PROVE  InputBlocks(g)
<1>1. /\ Len(h) \in Nat /\ Len(g) = Len(h) + 1
      /\ \A i \in 1 .. Len(h) : g[i] = h[i]
      /\ g[Len(g)].m = m /\ g[Len(g)].f = FALSE
      /\ g[Len(g)].at = NextAt(h)
      /\ g[Len(g)].at = IF Len(g) = 1 THEN 0 ELSE g[Len(g) - 1].at + Block
      /\ NextAt(g) = NextAt(h) + Block
      /\ \A i \in 1 .. Len(g) : i \in 1 .. Len(h) \/ i = Len(g)
  BY CompressedFields
<1>2. NextAt(h) \in Nat /\ Block \in Nat
  BY NextAtType, BlockAssumption
<1> SUFFICES ASSUME NEW i \in 1 .. Len(g)
             PROVE  /\ g[i].at = IF i = 1 THEN 0 ELSE g[i - 1].at + Block
                    /\ g[i].at + Block <= NextAt(g)
                    /\ g[i].f = FALSE
                    /\ \A j \in 0 .. Block - 1 : g[i].m[j] = g[i].at + j + 1
  BY DEF InputBlocks
<1>3. CASE i \in 1 .. Len(h)
  <2>1. /\ h[i].at = IF i = 1 THEN 0 ELSE h[i - 1].at + Block
        /\ h[i].at + Block <= NextAt(h)
        /\ h[i].f = FALSE
        /\ \A j \in 0 .. Block - 1 : h[i].m[j] = h[i].at + j + 1
    BY <1>3 DEF InputBlocks
  <2>2. g[i] = h[i] /\ (i # 1 => g[i - 1] = h[i - 1]) /\ h[i] \in HashEntry
    BY <1>1, <1>3
  <2>3. h[i].at \in Nat
    BY <2>2 DEF HashEntry
  <2>4. g[i].at + Block <= NextAt(g)
    <3>1. g[i].at = h[i].at /\ NextAt(g) = NextAt(h) + Block /\ h[i].at + Block <= NextAt(h)
      BY <1>1, <2>1, <2>2
    <3> DEFINE x == NextAt(h)
               y == NextAt(g)
               z == h[i].at
    <3>2. x \in Nat /\ z \in Nat /\ Block \in Nat /\ y = x + Block /\ z + Block <= x
      BY <1>2, <2>3, <3>1
    <3> HIDE DEF x, y, z
    <3>3. z + Block <= y
      BY <3>2
    <3> QED
      BY <3>1, <3>3 DEF y, z
  <2> QED
    BY <2>1, <2>2, <2>4
<1>4. CASE i = Len(g)
  <2>1. g[i].at + Block <= NextAt(g)
    <3>1. g[i].at + Block = NextAt(g)
      BY <1>1, <1>4
    <3>3. NextAt(g) = NextAt(h) + Block
      BY <1>1
    <3>2. NextAt(g) \in Int
      BY ONLY <3>3, <1>2
    <3> QED
      BY <3>1, <3>2
  <2> QED
    BY <1>1, <1>4, <2>1
<1> QED
  BY <1>1, <1>3, <1>4

\* The padded message by cases.
LEMMA PaddedCases ==
  ASSUME NEW a \in Algorithm, NEW n \in Nat, NEW p \in Nat, NEW last \in BOOLEAN, NEW j \in Nat
  PROVE  LET sha == a \in {"sha512", "sha256"} /\ last /\ j >= Block - LenCells
         IN  /\ ~sha /\ p < n => PaddedByte(a, n, p, last, j) = p + 1
             /\ ~sha /\ p = n /\ a # "blake2b" => PaddedByte(a, n, p, last, j) = PadByte
             /\ ~sha /\ p > n => PaddedByte(a, n, p, last, j) = ZeroByte
             /\ a = "blake2b" /\ p >= n => PaddedByte(a, n, p, last, j) = ZeroByte
             /\ sha /\ p > n => PaddedByte(a, n, p, last, j) = LenCell
BY BlockAssumption DEF PaddedByte, Algorithm

\* All but the last block of the padded message of n bytes.
AllButLast(a, h, n) ==
  \A i \in 1 .. Len(h) :
    /\ h[i].at = IF i = 1 THEN 0 ELSE h[i - 1].at + Block
    /\ h[i].f = FALSE
    /\ \A j \in 0 .. Block - 1 : h[i].m[j] = PaddedByte(a, n, h[i].at + j, FALSE, j)

\* Blocks of input are such blocks.
LEMMA InputBlocksPadded ==
  ASSUME NEW a \in Algorithm, NEW h \in Seq(HashEntry), InputBlocks(h),
         NEW n \in Nat, NextAt(h) <= n
  PROVE  AllButLast(a, h, n)
<1> SUFFICES ASSUME NEW i \in 1 .. Len(h), NEW j \in 0 .. Block - 1
             PROVE  h[i].m[j] = PaddedByte(a, n, h[i].at + j, FALSE, j)
  BY DEF InputBlocks, AllButLast
<1>1. h[i].at \in Nat /\ NextAt(h) \in Nat /\ Block \in Nat
  <2>1. h[i] \in HashEntry
    OBVIOUS
  <2> QED
    BY <2>1, NextAtType, BlockAssumption DEF HashEntry
<1>2. h[i].at + Block <= NextAt(h) /\ h[i].m[j] = h[i].at + j + 1
  BY DEF InputBlocks
<1>3. h[i].at + j \in Nat /\ h[i].at + j < n /\ j \in Nat
  BY <1>1, <1>2
<1>4. PaddedByte(a, n, h[i].at + j, FALSE, j) = h[i].at + j + 1
  BY <1>3, PaddedCases
<1> QED
  BY <1>2, <1>4

\* A block of padding that is not the last.
LEMMA PaddedBlockAppended ==
  ASSUME NEW a \in Algorithm, NEW h \in Seq(HashEntry), NEW n \in Nat, AllButLast(a, h, n),
         NEW m, NEW t,
         \A j \in 0 .. Block - 1 : m[j] = PaddedByte(a, n, NextAt(h) + j, FALSE, j),
         NEW f, f = FALSE, NEW g, g = Compressed(h, m, t, f)
  PROVE  AllButLast(a, g, n)
<1>1. /\ Len(h) \in Nat /\ Len(g) = Len(h) + 1
      /\ \A i \in 1 .. Len(h) : g[i] = h[i]
      /\ g[Len(g)].m = m /\ g[Len(g)].f = FALSE
      /\ g[Len(g)].at = NextAt(h)
      /\ g[Len(g)].at = IF Len(g) = 1 THEN 0 ELSE g[Len(g) - 1].at + Block
      /\ \A i \in 1 .. Len(g) : i \in 1 .. Len(h) \/ i = Len(g)
  BY CompressedFields
<1> SUFFICES ASSUME NEW i \in 1 .. Len(g)
             PROVE  /\ g[i].at = IF i = 1 THEN 0 ELSE g[i - 1].at + Block
                    /\ g[i].f = FALSE
                    /\ \A j \in 0 .. Block - 1 : g[i].m[j] = PaddedByte(a, n, g[i].at + j, FALSE, j)
  BY DEF AllButLast
<1>3. CASE i \in 1 .. Len(h)
  <2>2. g[i] = h[i] /\ (i # 1 => g[i - 1] = h[i - 1])
    BY <1>1, <1>3
  <2> QED
    BY <1>3, <2>2 DEF AllButLast
<1>4. CASE i = Len(g)
  BY <1>1, <1>4
<1> QED
  BY <1>1, <1>3, <1>4

\* With its last block the message is complete.
LEMMA MessageComplete ==
  ASSUME NEW a \in Algorithm, NEW h \in Seq(HashEntry), NEW n \in Nat, AllButLast(a, h, n),
         NEW m, NEW t, NEW f,
         \A j \in 0 .. Block - 1 : m[j] = PaddedByte(a, n, NextAt(h) + j, TRUE, j),
         LastBlockAt(a, n, NextAt(h)),
         f = (a = "blake2b" \/ (a = "poly1305" /\ n < NextAt(h) + Block))
  PROVE  Spells(a, Compressed(h, m, t, f), n)
<1> DEFINE g == Compressed(h, m, t, f)
<1>1. /\ Len(h) \in Nat /\ Len(g) = Len(h) + 1 /\ g # <<>>
      /\ \A i \in 1 .. Len(h) : g[i] = h[i]
      /\ g[Len(g)].m = m /\ g[Len(g)].f = f
      /\ g[Len(g)].at = NextAt(h)
      /\ g[Len(g)].at = IF Len(g) = 1 THEN 0 ELSE g[Len(g) - 1].at + Block
      /\ \A i \in 1 .. Len(g) : i \in 1 .. Len(h) \/ i = Len(g)
  BY CompressedFields
<1> HIDE DEF g
<1> DEFINE Good(i) ==
       /\ g[i].at = IF i = 1 THEN 0 ELSE g[i - 1].at + Block
       /\ \A j \in 0 .. Block - 1 :
            g[i].m[j] = PaddedByte(a, n, g[i].at + j, i = Len(g), j)
       /\ g[i].f = (/\ i = Len(g)
                    /\ \/ a = "blake2b"
                       \/ a = "poly1305" /\ n < g[i].at + Block)
<1>2. ASSUME NEW i \in 1 .. Len(g) PROVE Good(i)
  <2>1. CASE i \in 1 .. Len(h)
    <3>1. g[i] = h[i] /\ (i # 1 => g[i - 1] = h[i - 1]) /\ i # Len(g) /\ (i = Len(g)) = FALSE
      BY <1>1, <2>1
    <3>2. /\ h[i].at = IF i = 1 THEN 0 ELSE h[i - 1].at + Block
          /\ h[i].f = FALSE
          /\ \A j \in 0 .. Block - 1 : h[i].m[j] = PaddedByte(a, n, h[i].at + j, FALSE, j)
      BY <2>1 DEF AllButLast
    <3>3. \A j \in 0 .. Block - 1 : g[i].m[j] = PaddedByte(a, n, g[i].at + j, i = Len(g), j)
      BY <3>1, <3>2
    <3> QED
      BY <3>1, <3>2, <3>3
  <2>2. CASE i = Len(g)
    <3>1. (i = Len(g)) = TRUE
      BY <2>2
    <3>2. \A j \in 0 .. Block - 1 : g[i].m[j] = PaddedByte(a, n, g[i].at + j, i = Len(g), j)
      BY <1>1, <2>2, <3>1
    <3> QED
      BY <1>1, <2>2, <3>1, <3>2
  <2> QED
    BY <1>1, <2>1, <2>2
<1>3. LastBlockAt(a, n, g[Len(g)].at)
  BY <1>1
<1> QED
  BY <1>1, <1>2, <1>3 DEF Spells, g

(***************************************************************************)
(* What the loops absorb.                                                  *)
(***************************************************************************)
\* Copying k further bytes of the input after what the buffer holds.
LEMMA CopiedInput ==
  ASSUME NEW a \in Algorithm, NEW c \in HashObject(a), NEW n \in Nat, Holds(a, c, n),
         NEW k \in Nat, c.buflen + k <= BufSize(a),
         NEW buf1, buf1 = Copied(c.buf, c.buflen, k, n + 1),
         NEW e, e = c.buflen + k
  PROVE  /\ \A j \in 0 .. e - 1 : buf1[j] = NextAt(c.h) + j + 1
         /\ e >= Block =>
              \A j \in 0 .. Block - 1 : FirstBlock(buf1)[j] = NextAt(c.h) + j + 1
<1>1. /\ Block \in Nat /\ BufSize(a) \in Nat /\ c.h \in Seq(HashEntry)
      /\ c.buf \in [0 .. BufSize(a) - 1 -> Int] /\ c.buflen \in Nat
  BY ObjectFields
<1>2. NextAt(c.h) \in Nat
  BY <1>1, NextAtType
<1>3. /\ NextAt(c.h) + c.buflen = n
      /\ \A j \in 0 .. c.buflen - 1 : c.buf[j] = NextAt(c.h) + j + 1
  BY DEF Holds
<1> DEFINE x == NextAt(c.h)
           w == c.buflen
<1> HIDE DEF x
<1>4. ASSUME NEW j \in 0 .. e - 1
      PROVE  buf1[j] = x + j + 1
  <2>1. x \in Nat /\ w \in Nat /\ x + w = n /\ j \in Int
    BY <1>1, <1>2, <1>3, <1>4 DEF x
  <2>2. j \in DOMAIN c.buf
    BY <1>1, <1>4
  <2>3. buf1[j] = IF w <= j /\ j < w + k THEN (n + 1) + (j - w) ELSE c.buf[j]
    BY <2>2 DEF Copied
  <2>4. CASE w <= j
    <3>1. buf1[j] = (n + 1) + (j - w)
      BY <1>4, <2>1, <2>3, <2>4
    <3> HIDE DEF w
    <3> QED
      BY <2>1, <3>1
  <2>5. CASE ~(w <= j)
    <3>1. j \in 0 .. w - 1 /\ buf1[j] = c.buf[j]
      BY <1>4, <2>1, <2>3, <2>5
    <3> QED
      BY <3>1, <1>3 DEF x
  <2> QED
    BY <2>4, <2>5
<1>5. ASSUME e >= Block, NEW j \in 0 .. Block - 1
      PROVE  FirstBlock(buf1)[j] = x + j + 1
  <2>1. j \in 0 .. e - 1
    BY <1>1, <1>5
  <2>2. FirstBlock(buf1)[j] = buf1[j]
    BY DEF FirstBlock
  <2> QED
    BY <1>4, <2>1, <2>2
<1> QED
  BY <1>4, <1>5 DEF x, w

\* The bytes stay in the buffer.
LEMMA InputKept ==
  ASSUME NEW a \in Algorithm, NEW c \in HashObject(a), NEW n \in Nat, Holds(a, c, n),
         NEW w \in Nat, Counted(a, c, w),
         NEW k \in Nat, c.buflen + k <= BufSize(a),
         NEW buf1, buf1 = Copied(c.buf, c.buflen, k, n + 1),
         NEW d \in HashObject(a),
         d.h = c.h, d.t = c.t, d.buf = buf1, d.buflen = c.buflen + k
  PROVE  Holds(a, d, n + k) /\ Counted(a, d, w)
<1>1. c.buflen \in Nat /\ NextAt(c.h) \in Nat
  BY ObjectFields, NextAtType
<1>2. \A j \in 0 .. d.buflen - 1 : d.buf[j] = NextAt(d.h) + j + 1
  <2>1. PICK e : e = d.buflen
    OBVIOUS
  <2>2. \A j \in 0 .. e - 1 : buf1[j] = NextAt(c.h) + j + 1
    BY <2>1, CopiedInput
  <2>3. d.buf = buf1 /\ NextAt(d.h) = NextAt(c.h)
    OBVIOUS
  <2> QED
    BY ONLY <2>1, <2>2, <2>3
<1>3. NextAt(d.h) + d.buflen = n + k
  BY <1>1 DEF Holds
<1>4. a = "blake2b" /\ d.h # <<>> => d.buflen > 0
  BY <1>1 DEF Holds
<1> QED
  BY <1>2, <1>3, <1>4 DEF Holds, Counted

\* They complete the block, which is compressed; the buffer is empty after it.
LEMMA BlockTaken ==
  ASSUME NEW a \in Algorithm, a # "blake2b",
         NEW c \in HashObject(a), NEW n \in Nat, Holds(a, c, n),
         NEW k \in Nat, NEW e, e = c.buflen + k, e = Block,
         NEW buf1, buf1 = Copied(c.buf, c.buflen, k, n + 1),
         NEW m, m = FirstBlock(buf1),
         NEW t, NEW f, f = FALSE,
         NEW d \in HashObject(a), d.buflen = 0,
         d.h = Compressed(c.h, m, t, f)
  PROVE  Holds(a, d, n + k)
<1>1. /\ c.buflen \in Nat /\ NextAt(c.h) \in Nat /\ Block \in Nat /\ c.h \in Seq(HashEntry)
      /\ BufSize(a) \in Nat /\ Block <= BufSize(a)
  <2>1. Block <= BufSize(a)
    BY BlockAssumption DEF BufSize
  <2> QED
    BY <2>1, ObjectFields, NextAtType
<1>2. \A j \in 0 .. Block - 1 : FirstBlock(buf1)[j] = NextAt(c.h) + j + 1
  <2>1. c.buflen + k <= BufSize(a) /\ c.buflen + k >= Block
    BY <1>1
  <2> QED
    BY <2>1, CopiedInput
<1>3. InputBlocks(c.h)
  BY DEF Holds
<1>4. InputBlocks(d.h)
  <2>1. PICK h, m1, g : h = c.h /\ m1 = FirstBlock(buf1) /\ g = d.h
    OBVIOUS
  <2>2. h \in Seq(HashEntry) /\ InputBlocks(h) /\ g = Compressed(h, m1, t, f)
    BY <1>1, <1>3, <2>1
  <2>3. \A j \in 0 .. Block - 1 : m1[j] = NextAt(h) + j + 1
    BY <1>2, <2>1
  <2>4. InputBlocks(g)
    BY <2>2, <2>3, InputBlockAppended
  <2> QED
    BY <2>1, <2>4
<1>5. NextAt(d.h) = NextAt(c.h) + Block
  BY <1>1, CompressedFields
<1>6. NextAt(d.h) + d.buflen = n + k
  <2> DEFINE x == NextAt(c.h)
  <2>1. /\ x \in Nat /\ x + c.buflen = n /\ c.buflen \in Nat /\ NextAt(d.h) = x + Block
        /\ c.buflen + k = Block
    BY <1>1, <1>5 DEF Holds
  <2> HIDE DEF x
  <2> QED
    BY <2>1, <1>1
<1>7. \A j \in 0 .. d.buflen - 1 : d.buf[j] = NextAt(d.h) + j + 1
  OBVIOUS
<1> QED
  BY <1>4, <1>5, <1>6, <1>7 DEF Holds, BlockCounters

\* Poly1305 compresses a block straight from the input.
LEMMA WholeBlockTaken ==
  ASSUME NEW c \in HashObject("poly1305"), NEW n \in Nat, Holds("poly1305", c, n),
         c.buflen = 0, NEW m, m = [j \in 0 .. Block - 1 |-> (n + 1) + j],
         NEW t, NEW f, f = FALSE,
         NEW d \in HashObject("poly1305"), d.buflen = 0,
         d.h = Compressed(c.h, m, t, f)
  PROVE  Holds("poly1305", d, n + Block)
<1>0. "poly1305" \in Algorithm
  BY DEF Algorithm
<1>1. NextAt(c.h) \in Nat /\ Block \in Nat /\ c.h \in Seq(HashEntry) /\ NextAt(c.h) = n
  <2>1. NextAt(c.h) \in Nat /\ Block \in Nat /\ c.h \in Seq(HashEntry)
    BY <1>0, ObjectFields, NextAtType
  <2> QED
    BY <2>1 DEF Holds
<1>2. \A j \in 0 .. Block - 1 : m[j] = NextAt(c.h) + j + 1
  BY <1>1
<1>3. InputBlocks(c.h)
  BY DEF Holds
<1>4. InputBlocks(d.h)
  <2>1. PICK h, m1, g : h = c.h /\ m1 = m /\ g = d.h
    OBVIOUS
  <2>2. h \in Seq(HashEntry) /\ InputBlocks(h) /\ g = Compressed(h, m1, t, f)
    BY <1>1, <1>3, <2>1
  <2>3. \A j \in 0 .. Block - 1 : m1[j] = NextAt(h) + j + 1
    BY <1>2, <2>1
  <2>4. InputBlocks(g)
    BY <2>2, <2>3, InputBlockAppended
  <2> QED
    BY <2>1, <2>4
<1>5. NextAt(d.h) = NextAt(c.h) + Block
  BY <1>1, CompressedFields
<1>6. \A j \in 0 .. d.buflen - 1 : d.buf[j] = NextAt(d.h) + j + 1
  OBVIOUS
<1> QED
  BY <1>1, <1>4, <1>5, <1>6 DEF Holds, BlockCounters

\* BLAKE2b compresses the first of two full blocks and keeps the second.
LEMMA FirstOfTwoTaken ==
  ASSUME NEW a, a = "blake2b",
         NEW c \in HashObject(a), NEW n \in Nat, Holds(a, c, n),
         NEW w \in Nat, Counted(a, c, w),
         NEW k \in Nat, c.buflen + k = 2 * Block,
         NEW full, full = Copied(c.buf, c.buflen, k, n + 1),
         NEW t, t = AddWords(c.t, Block), NEW f, f = FALSE,
         NEW d \in HashObject(a), d.buflen = Block, d.t = t, d.buf = MovedDown(full, Block),
         d.h = Compressed(c.h, FirstBlock(full), t, f)
  PROVE  Holds(a, d, n + k) /\ Counted(a, d, w)
<1>0. a \in Algorithm
  BY DEF Algorithm
<1>1. /\ c.buflen \in Nat /\ NextAt(c.h) \in Nat /\ Block \in Nat \ {0} /\ c.h \in Seq(HashEntry)
      /\ BufSize(a) = 2 * Block /\ c.buf \in [0 .. BufSize(a) - 1 -> Int]
  BY <1>0, ObjectFields, NextAtType DEF BufSize
<1> DEFINE x == NextAt(c.h)
<1>2. /\ \A j \in 0 .. 2 * Block - 1 : full[j] = x + j + 1
      /\ \A j \in 0 .. Block - 1 : FirstBlock(full)[j] = x + j + 1
  <2>1. c.buflen + k <= BufSize(a) /\ c.buflen + k >= Block
    BY <1>1
  <2> QED
    <3>1. PICK e : e = 2 * Block
      OBVIOUS
    <3>2. e = c.buflen + k /\ e >= Block
      BY <1>1, <3>1
    <3>3. /\ \A j \in 0 .. e - 1 : full[j] = NextAt(c.h) + j + 1
          /\ \A j \in 0 .. Block - 1 : FirstBlock(full)[j] = NextAt(c.h) + j + 1
      BY <2>1, <3>2, <1>0, CopiedInput
    <3> QED
      BY ONLY <3>1, <3>3
<1>3. InputBlocks(c.h) /\ x + c.buflen = n
  BY DEF Holds
<1>4. InputBlocks(d.h)
  <2>1. PICK h, m1, g : h = c.h /\ m1 = FirstBlock(full) /\ g = d.h
    OBVIOUS
  <2>2. h \in Seq(HashEntry) /\ InputBlocks(h) /\ g = Compressed(h, m1, t, f)
    BY <1>1, <1>3, <2>1
  <2>3. \A j \in 0 .. Block - 1 : m1[j] = NextAt(h) + j + 1
    BY <1>2, <2>1
  <2>4. InputBlocks(g)
    BY <2>2, <2>3, InputBlockAppended
  <2> QED
    BY <2>1, <2>4
<1>5. /\ NextAt(d.h) = x + Block /\ Len(c.h) \in Nat /\ Len(d.h) = Len(c.h) + 1
      /\ \A i \in 1 .. Len(c.h) : d.h[i] = c.h[i]
      /\ d.h[Len(d.h)].at = x /\ d.h[Len(d.h)].t = t
      /\ \A i \in 1 .. Len(d.h) : i \in 1 .. Len(c.h) \/ i = Len(d.h)
  <2>1. PICK h, m1, g : h = c.h /\ m1 = FirstBlock(full) /\ g = d.h
    OBVIOUS
  <2>2. h \in Seq(HashEntry) /\ g = Compressed(h, m1, t, f)
    BY <1>1, <2>1
  <2>3. /\ NextAt(g) = NextAt(h) + Block /\ Len(h) \in Nat /\ Len(g) = Len(h) + 1
        /\ \A i \in 1 .. Len(h) : g[i] = h[i]
        /\ g[Len(g)].at = NextAt(h) /\ g[Len(g)].t = t
        /\ \A i \in 1 .. Len(g) : i \in 1 .. Len(h) \/ i = Len(g)
    BY ONLY <2>2, CompressedFields
  <2> QED
    BY <2>1, <2>3
<1> HIDE DEF x
<1>6. NextAt(d.h) + d.buflen = n + k
  <2>1. x \in Nat
    BY <1>1 DEF x
  <2>2. NextAt(d.h) = x + Block
    BY <1>5
  <2>3. /\ c.buflen \in Nat /\ k \in Nat /\ Block \in Nat /\ d.buflen = Block
        /\ x + c.buflen = n /\ c.buflen + k = 2 * Block
    BY <1>1, <1>3
  <2> HIDE DEF x
  <2> QED
    BY ONLY <2>1, <2>2, <2>3
<1>7. ASSUME NEW j \in 0 .. d.buflen - 1 PROVE d.buf[j] = NextAt(d.h) + j + 1
  <2>1. j \in DOMAIN full /\ j < Block /\ j \in Int
    BY <1>1 DEF Copied
  <2>2. d.buf[j] = full[j + Block]
    BY <2>1 DEF MovedDown
  <2>3. j + Block \in 0 .. 2 * Block - 1 /\ x \in Nat
    BY <1>1, <2>1 DEF x
  <2>4. d.buf[j] = x + (j + Block) + 1
    BY <1>2, <2>2, <2>3
  <2> QED
    BY <1>1, <1>5, <2>1, <2>3, <2>4
<1>8. t \in Words /\ Value(t) = (x + Block) % (Word * Word)
  <2>1. c.t \in Words /\ Value(c.t) = x % (Word * Word)
    BY DEF Counted, x
  <2>2. Block \in 0 .. Word
    BY <1>1, WordAssumption
  <2>3. t \in Words /\ Value(t) = (Value(c.t) + Block) % (Word * Word)
    BY <2>1, <2>2, AddWordsExact
  <2> DEFINE y == Word * Word
  <2>4. y \in Nat \ {0} /\ x \in Int /\ Block \in Int
    BY <2>1, <1>1, ValueRange DEF x
  <2> HIDE DEF y
  <2>5. ((x % y) + Block) % y = (x + Block) % y
    BY <2>4, RemainderOfSum
  <2> QED
    BY <2>1, <2>3, <2>5 DEF y
<1>9. BlockCounters(a, d.h)
  <2> SUFFICES ASSUME NEW i \in 1 .. Len(d.h)
               PROVE  Value(d.h[i].t) = (d.h[i].at + Block) % (Word * Word)
    BY DEF BlockCounters
  <2>1. CASE i \in 1 .. Len(c.h)
    BY <1>5, <2>1 DEF Holds, BlockCounters
  <2>2. CASE i = Len(d.h)
    BY <1>5, <1>8, <2>2
  <2> QED
    BY <1>5, <2>1, <2>2
<1>10. Counted(a, d, w)
  BY <1>5, <1>8 DEF Counted
<1> QED
  BY <1>1, <1>4, <1>6, <1>7, <1>9, <1>10 DEF Holds

(***************************************************************************)
(* The finals: BLAKE2b.                                                    *)
(***************************************************************************)
\* What CountersExact says of one digest.
CountersOf(a, h, n) ==
  \A i \in 1 .. Len(h) :
    /\ a = "blake2b" =>
         Value(h[i].t) = (IF h[i].f THEN n ELSE h[i].at + Block) % (Word * Word)
    /\ a \in {"sha512", "sha256"} /\ i = Len(h) =>
         Value(h[i].t) = (8 * n) % (Word * Word)

\* BLAKE2b's last block: what is left, zeros after it.
LEMMA Blake2bLastBlock ==
  ASSUME NEW a, a = "blake2b", NEW h \in Seq(HashEntry), NEW n \in Nat,
         InputBlocks(h), BlockCounters(a, h),
         NEW t \in Words, Value(t) = NextAt(h) % (Word * Word),
         NEW len \in 0 .. Block, NextAt(h) + len = n, h # <<>> => len > 0,
         NEW buf \in [0 .. 2 * Block - 1 -> Int],
         \A j \in 0 .. len - 1 : buf[j] = NextAt(h) + j + 1,
         NEW m, m = FirstBlock(Zeroed(buf, len, 2 * Block)),
         NEW u, u = Blake2bIncrement(t, len), NEW f, f = TRUE,
         NEW g, g = Compressed(h, m, u, f)
  PROVE  Spells(a, g, n) /\ CountersOf(a, g, n)
<1> DEFINE x == NextAt(h)
<1>0. a \in Algorithm
  BY DEF Algorithm
<1>1. x \in Nat /\ Block \in Nat \ {0} /\ len \in Nat /\ len <= Block /\ x + len = n
  BY NextAtType, BlockAssumption
<1>2. h = <<>> => x = 0
  BY DEF NextAt
<1>3. AllButLast(a, h, n)
  <2>1. NextAt(h) <= n
    BY <1>1
  <2> QED
    BY <2>1, <1>0, InputBlocksPadded
<1>4. ASSUME NEW j \in 0 .. Block - 1 PROVE m[j] = PaddedByte(a, n, x + j, TRUE, j)
  <2>1. j \in Nat /\ j \in DOMAIN buf /\ j < 2 * Block /\ x + j \in Nat /\ TRUE \in BOOLEAN
    BY <1>1
  <2>2. m[j] = IF len <= j THEN ZeroByte ELSE buf[j]
    BY <2>1 DEF FirstBlock, Zeroed
  <2> HIDE DEF x
  <2>3. CASE len <= j
    <3>1. x + j >= n
      BY <1>1, <2>1, <2>3
    <3>2. PICK p : p = x + j
      OBVIOUS
    <3>3. a = "blake2b" /\ a \in Algorithm /\ n \in Nat /\ p \in Nat /\ p >= n /\ j \in Nat
      BY <1>0, <2>1, <3>1, <3>2
    <3>4. PaddedByte(a, n, p, TRUE, j) = ZeroByte
      <4>1. ~(p < n) /\ a # "sha512" /\ a # "sha256" /\ a = "blake2b"
        BY ONLY <3>3
      <4> QED
        BY ONLY <4>1 DEF PaddedByte
    <3> QED
      BY <2>2, <2>3, <3>2, <3>4
  <2>4. CASE ~(len <= j)
    <3>1. x + j < n /\ j \in 0 .. len - 1
      BY <1>1, <2>1, <2>4
    <3>2. PaddedByte(a, n, x + j, TRUE, j) = x + j + 1
      <4>1. PICK p \in Nat : p = x + j /\ p < n
        BY <2>1, <3>1
      <4>2. PaddedByte(a, n, p, TRUE, j) = p + 1
        BY <4>1 DEF PaddedByte
      <4> QED
        BY <4>1, <4>2
    <3>3. buf[j] = x + j + 1
      BY <3>1 DEF x
    <3> QED
      BY <2>2, <2>4, <3>2, <3>3
  <2> QED
    BY <2>3, <2>4
<1>5. LastBlockAt(a, n, x)
  <2>1. CASE len > 0
    BY <1>1, <2>1 DEF LastBlockAt
  <2>2. CASE len = 0
    <3>1. x = 0 /\ n = 0
      BY <1>1, <1>2, <2>2
    <3> QED
      BY <3>1 DEF LastBlockAt
  <2> QED
    BY <1>1, <2>1, <2>2
<1>6. Spells(a, g, n)
  <2>1. f = (a = "blake2b" \/ (a = "poly1305" /\ n < NextAt(h) + Block))
    OBVIOUS
  <2> QED
    BY <2>1, <1>0, <1>3, <1>4, <1>5, MessageComplete
<1>7. Value(u) = n % (Word * Word)
  <2>1. len \in 0 .. Word
    BY <1>1, WordAssumption
  <2>2. Value(u) = (Value(t) + len) % (Word * Word)
    BY <2>1, AddWordsExact DEF Blake2bIncrement
  <2> DEFINE y == Word * Word
  <2>3. y \in Nat \ {0} /\ x \in Int /\ len \in Int
    BY <1>1, ValueRange
  <2> HIDE DEF y, x
  <2>4. ((x % y) + len) % y = (x + len) % y
    BY <2>3, RemainderOfSum
  <2> QED
    BY <2>2, <2>4, <1>1 DEF x, y
<1>8. /\ Len(h) \in Nat /\ Len(g) = Len(h) + 1
      /\ \A i \in 1 .. Len(h) : g[i] = h[i]
      /\ g[Len(g)].t = u /\ g[Len(g)].f = f
      /\ \A i \in 1 .. Len(g) : i \in 1 .. Len(h) \/ i = Len(g)
  <2>1. h \in Seq(HashEntry) /\ g = Compressed(h, m, u, f)
    OBVIOUS
  <2> QED
    BY ONLY <2>1, CompressedFields
<1>9. CountersOf(a, g, n)
  <2> SUFFICES ASSUME NEW i \in 1 .. Len(g)
               PROVE  Value(g[i].t) = (IF g[i].f THEN n ELSE g[i].at + Block) % (Word * Word)
    BY DEF CountersOf
  <2>1. CASE i \in 1 .. Len(h)
    <3>1. g[i] = h[i] /\ h[i].f = FALSE /\ Value(h[i].t) = (h[i].at + Block) % (Word * Word)
      BY <1>8, <2>1 DEF InputBlocks, BlockCounters
    <3> QED
      BY <3>1
  <2>2. CASE i = Len(g)
    BY <1>7, <1>8, <2>2
  <2> QED
    BY <1>8, <2>1, <2>2
<1> QED
  BY <1>6, <1>9

\* The whole of BLAKE2b's final.
LEMMA Blake2bFinalExact ==
  ASSUME NEW a, a = "blake2b", NEW c \in HashObject(a), NEW n \in Nat, Holds(a, c, n),
         NEW w \in Nat, Counted(a, c, w)
  PROVE  LET g == Blake2bFinalBlocks(c) IN Spells(a, g, n) /\ CountersOf(a, g, n)
<1>0. a \in Algorithm
  BY DEF Algorithm
<1> DEFINE x == NextAt(c.h)
           two  == c.buflen > Block
           t1   == IF two THEN Blake2bIncrement(c.t, Block) ELSE c.t
           b0   == FirstBlock(c.buf)
           h1   == IF two THEN Compressed(c.h, b0, t1, FALSE) ELSE c.h
           len  == IF two THEN c.buflen - Block ELSE c.buflen
           buf1 == IF two THEN MovedDown(c.buf, len) ELSE c.buf
<1>1. /\ c.buflen \in 0 .. 2 * Block /\ c.buflen \in Nat /\ x \in Nat /\ Block \in Nat \ {0}
      /\ c.h \in Seq(HashEntry) /\ c.buf \in [0 .. 2 * Block - 1 -> Int]
  <2>1. BufSize(a) = 2 * Block /\ MaxFill(a) = 2 * Block
    BY DEF BufSize, MaxFill
  <2> QED
    BY <1>0, <2>1, ObjectFields, NextAtType
<1>2. /\ InputBlocks(c.h) /\ BlockCounters(a, c.h) /\ x + c.buflen = n
      /\ \A j \in 0 .. c.buflen - 1 : c.buf[j] = x + j + 1
      /\ c.h # <<>> => c.buflen > 0
      /\ c.t \in Words /\ Value(c.t) = x % (Word * Word)
  BY DEF Holds, Counted
<1>3. /\ h1 \in Seq(HashEntry) /\ InputBlocks(h1) /\ BlockCounters(a, h1)
      /\ t1 \in Words /\ Value(t1) = NextAt(h1) % (Word * Word)
      /\ len \in 0 .. Block /\ NextAt(h1) + len = n /\ (h1 # <<>> => len > 0)
      /\ buf1 \in [0 .. 2 * Block - 1 -> Int]
      /\ \A j \in 0 .. len - 1 : buf1[j] = NextAt(h1) + j + 1
  <2>1. CASE ~two
    <3>1. h1 = c.h /\ t1 = c.t /\ len = c.buflen /\ buf1 = c.buf
      BY <2>1
    <3>2. len \in 0 .. Block
      BY <1>1, <2>1, <3>1
    <3> HIDE DEF t1, b0, h1, len, buf1, two
    <3> QED
      BY <1>1, <1>2, <3>1, <3>2
  <2>2. CASE two
    <3>0. /\ t1 = Blake2bIncrement(c.t, Block) /\ h1 = Compressed(c.h, b0, t1, FALSE)
          /\ len = c.buflen - Block /\ buf1 = MovedDown(c.buf, len)
      BY <2>2
    <3>1. len \in 0 .. Block /\ len > 0 /\ len \in Nat /\ c.buflen = Block + len
      BY <1>1, <2>2, <3>0
    <3>2. t1 \in Words /\ Value(t1) = (x + Block) % (Word * Word)
      <4>1. Block \in 0 .. Word
        BY <1>1, WordAssumption
      <4>2. t1 \in Words /\ Value(t1) = (Value(c.t) + Block) % (Word * Word)
        BY <1>2, <3>0, <4>1, AddWordsExact DEF Blake2bIncrement
      <4> DEFINE y == Word * Word
      <4>3. y \in Nat \ {0} /\ x \in Int /\ Block \in Int
        BY <1>1, <1>2, ValueRange
      <4> HIDE DEF y, x
      <4>4. ((x % y) + Block) % y = (x + Block) % y
        BY <4>3, RemainderOfSum
      <4> QED
        BY <1>2, <4>2, <4>4 DEF y
    <3>3. \A j \in 0 .. Block - 1 : b0[j] = x + j + 1
      <4>1. \A j \in 0 .. Block - 1 : j \in 0 .. c.buflen - 1
        BY <1>1, <3>1
      <4> QED
        BY <1>2, <4>1 DEF FirstBlock
    <3>4. b0 \in [0 .. Block - 1 -> Int]
      <4>1. 0 \in 0 .. Block /\ BufSize(a) = 2 * Block
        BY <1>1 DEF BufSize
      <4> QED
        BY <1>0, <1>1, <4>1, BlockTypes
    <3>5. t1 \in Int \X Int
      BY <3>2, WordAssumption DEF Words
    <3> HIDE DEF t1, b0, h1, len, buf1, x, two
    <3>6. PICK f : f = FALSE
      OBVIOUS
    <3>7. /\ h1 \in Seq(HashEntry)
          /\ NextAt(h1) = x + Block /\ h1 # <<>>
          /\ Len(h1) = Len(c.h) + 1 /\ Len(c.h) \in Nat
          /\ \A i \in 1 .. Len(c.h) : h1[i] = c.h[i]
          /\ h1[Len(h1)].at = x /\ h1[Len(h1)].t = t1
          /\ \A i \in 1 .. Len(h1) : i \in 1 .. Len(c.h) \/ i = Len(h1)
      <4>1. h1 = Compressed(c.h, b0, t1, f) /\ f \in BOOLEAN
        BY <3>0, <3>6
      <4>2. h1 \in Seq(HashEntry)
        BY <1>1, <3>4, <3>5, <4>1, CompressedType
      <4> QED
        BY <1>1, <4>1, <4>2, CompressedFields DEF x
    <3>8. InputBlocks(h1)
      <4>1. PICK h : h = c.h
        OBVIOUS
      <4>2. \A j \in 0 .. Block - 1 : b0[j] = NextAt(h) + j + 1
        BY <3>3, <4>1 DEF x
      <4>3. h \in Seq(HashEntry) /\ InputBlocks(h) /\ h1 = Compressed(h, b0, t1, f)
        BY <1>1, <1>2, <3>0, <3>6, <4>1
      <4> QED
        BY <4>2, <4>3, <3>6, InputBlockAppended
    <3>9. BlockCounters(a, h1)
      <4> SUFFICES ASSUME NEW i \in 1 .. Len(h1)
                   PROVE  Value(h1[i].t) = (h1[i].at + Block) % (Word * Word)
        BY DEF BlockCounters
      <4>1. CASE i \in 1 .. Len(c.h)
        BY <1>2, <3>7, <4>1 DEF BlockCounters
      <4>2. CASE i = Len(h1)
        BY <3>2, <3>7, <4>2
      <4> QED
        BY <3>7, <4>1, <4>2
    <3>10. x \in Nat /\ x + c.buflen = n
      BY <1>1, <1>2 DEF x
    <3>11. NextAt(h1) + len = n
      <4>1. NextAt(h1) = x + Block
        BY <3>7
      <4> QED
        BY <1>1, <3>1, <3>10, <4>1
    <3>12. buf1 \in [0 .. 2 * Block - 1 -> Int]
      <4>1. BufSize(a) = 2 * Block
        BY DEF BufSize
      <4> QED
        BY <1>0, <1>1, <3>0, <3>1, <4>1, BlockTypes
    <3>13. ASSUME NEW j \in 0 .. len - 1 PROVE buf1[j] = NextAt(h1) + j + 1
      <4>1. j \in DOMAIN c.buf /\ j < len /\ j \in Nat /\ j + Block \in 0 .. c.buflen - 1
        BY <1>1, <3>1
      <4>2. buf1[j] = c.buf[j + Block]
        BY <3>0, <4>1 DEF MovedDown
      <4>3. c.buf[j + Block] = x + (j + Block) + 1
        BY <1>2, <4>1 DEF x
      <4>4. NextAt(h1) = x + Block
        BY <3>7
      <4> QED
        BY <1>1, <3>10, <4>1, <4>2, <4>3, <4>4
    <3>14. Value(t1) = NextAt(h1) % (Word * Word)
      BY <3>2, <3>7
    <3> QED
      BY <3>1, <3>2, <3>7, <3>8, <3>9, <3>11, <3>12, <3>13, <3>14
  <2> QED
    BY <2>1, <2>2
<1> DEFINE m == FirstBlock(Zeroed(buf1, len, 2 * Block))
           u == Blake2bIncrement(t1, len)
           g == Compressed(h1, m, u, TRUE)
<1>4. g = Blake2bFinalBlocks(c)
  BY DEF Blake2bFinalBlocks, Blake2bCompress
<1> HIDE DEF h1, buf1, len, t1, m, u, g
<1>5. PICK f : f = TRUE
  OBVIOUS
<1>6. /\ m = FirstBlock(Zeroed(buf1, len, 2 * Block))
      /\ u = Blake2bIncrement(t1, len) /\ g = Compressed(h1, m, u, f)
  BY <1>5 DEF m, u, g
<1>7. Spells(a, g, n) /\ CountersOf(a, g, n)
  BY <1>3, <1>5, <1>6, Blake2bLastBlock
<1> QED
  BY <1>4, <1>7

(***************************************************************************)
(* The finals: SHA and Poly1305.                                           *)
(***************************************************************************)
\* What a final puts into its last blocks: the rest of the input, the padding
\* byte, zeros up to "to".
PadFill(buf, x, w, to) ==
  \A j \in 0 .. Block - 1 :
    j < to => buf[j] = IF j < w THEN x + j + 1 ELSE IF j = w THEN PadByte ELSE ZeroByte

\* Blocks with the length at their end, and with nothing before it.
LengthAtEnd(m) == \A j \in 0 .. Block - 1 : j >= Block - LenCells => m[j] = LenCell

LengthOnly(m) ==
  \A j \in 0 .. Block - 1 : m[j] = IF j >= Block - LenCells THEN LenCell ELSE ZeroByte

\* A final's padding after the bytes an object holds.
LEMMA PaddedBuffer ==
  ASSUME NEW a \in Algorithm, a # "blake2b",
         NEW c \in HashObject(a), NEW n \in Nat, Holds(a, c, n),
         NEW to \in 0 .. Block,
         NEW buf, buf = Zeroed([c.buf EXCEPT ![c.buflen] = PadByte], c.buflen + 1, to)
  PROVE  PadFill(buf, NextAt(c.h), c.buflen, to)
<1>1. /\ Block \in Nat \ {0} /\ BufSize(a) = Block
      /\ c.buf \in [0 .. Block - 1 -> Int] /\ c.buflen \in 0 .. Block - 1
  <2>1. BufSize(a) = Block /\ MaxFill(a) = Block - 1
    BY DEF BufSize, MaxFill
  <2> QED
    BY <2>1, ObjectFields
<1> DEFINE x == NextAt(c.h)
           w == c.buflen
           pad == [c.buf EXCEPT ![w] = PadByte]
<1> SUFFICES ASSUME NEW j \in 0 .. Block - 1, j < to
             PROVE  buf[j] = IF j < w THEN x + j + 1 ELSE IF j = w THEN PadByte ELSE ZeroByte
  BY DEF PadFill
<1>2. pad[j] = IF j = w THEN PadByte ELSE c.buf[j]
  BY <1>1
<1>3. j \in DOMAIN pad
  BY <1>1
<1>4. j < w => c.buf[j] = x + j + 1
  <2> SUFFICES ASSUME j < w PROVE c.buf[j] = x + j + 1
    OBVIOUS
  <2>1. j \in 0 .. w - 1
    BY <1>1
  <2> QED
    BY <2>1 DEF Holds
<1> HIDE DEF pad, x
<1>5. buf[j] = IF w + 1 <= j /\ j < to THEN ZeroByte ELSE pad[j]
  BY <1>3 DEF Zeroed, pad
<1>6. w \in Nat /\ j \in Nat
  BY <1>1
<1> HIDE DEF w
<1> QED
  BY <1>2, <1>4, <1>5, <1>6

\* A byte counted from the buffer is the byte counted from the message.
LEMMA PaddedByPosition ==
  ASSUME NEW w \in Nat, NEW j \in Nat, NEW x \in Nat,
         NEW n \in Nat, n = x + w, NEW p \in Nat, p = x + j,
         NEW u, p < n => u = p + 1, p = n => u = PadByte, p > n => u = ZeroByte,
         NEW v, v = IF j < w THEN x + j + 1 ELSE IF j = w THEN PadByte ELSE ZeroByte
  PROVE  v = u
<1>1. CASE j < w
  <2>1. p < n /\ v = p + 1
    BY <1>1
  <2> QED
    BY <2>1
<1>2. CASE j = w
  <2>1. p = n /\ v = PadByte
    BY <1>2
  <2> QED
    BY <2>1
<1>3. CASE j > w
  <2>1. p > n /\ v = ZeroByte
    BY <1>3
  <2> QED
    BY <2>1
<1> QED
  BY <1>1, <1>2, <1>3

\* The length does not fit after the padding byte.
NoRoom(c) == c.buflen + 1 > Block - LenCells

\* SHA's last block, and the one before it when the length does not fit.
LEMMA ShaFinalExact ==
  ASSUME NEW a \in {"sha512", "sha256"}, NEW c \in HashObject(a), NEW n \in Nat, Holds(a, c, n),
         NEW m1, NoRoom(c) => PadFill(m1, NextAt(c.h), c.buflen, Block),
         NEW m2,
         NoRoom(c) => LengthOnly(m2),
         ~NoRoom(c) => PadFill(m2, NextAt(c.h), c.buflen, Block - LenCells) /\ LengthAtEnd(m2),
         NEW f, f = FALSE, NEW t1,
         NEW h1, h1 \in Seq(HashEntry),
         NoRoom(c) => h1 = Compressed(c.h, m1, t1, f), ~NoRoom(c) => h1 = c.h,
         NEW t, Value(t) = (8 * n) % (Word * Word),
         NEW g, g = Compressed(h1, m2, t, f)
  PROVE  Spells(a, g, n) /\ CountersOf(a, g, n)
<1>0. a \in Algorithm /\ a # "blake2b" /\ a # "poly1305"
  BY DEF Algorithm
<1> DEFINE over == NoRoom(c)
           x == NextAt(c.h)
           w == c.buflen
           y == NextAt(h1)
<1>1. /\ Block \in Nat \ {0} /\ LenCells \in Nat \ {0} /\ LenCells < Block
      /\ w \in 0 .. Block - 1 /\ w \in Nat /\ c.h \in Seq(HashEntry)
  <2>1. MaxFill(a) = Block - 1
    BY <1>0 DEF MaxFill
  <2> QED
    BY <1>0, <2>1, ObjectFields
<1>2. x \in Nat /\ x + w = n /\ InputBlocks(c.h)
  BY <1>1, NextAtType DEF Holds
<1> HIDE DEF x, w
<1>3. AllButLast(a, c.h, n)
  <2>1. NextAt(c.h) <= n
    BY <1>1, <1>2 DEF x
  <2> QED
    BY <1>0, <1>1, <1>2, <2>1, InputBlocksPadded
<1>4. /\ AllButLast(a, h1, n)
      /\ y = IF over THEN x + Block ELSE x
  <2>1. CASE ~over
    BY <1>3, <2>1 DEF x
  <2>2. CASE over
    <3>1. PICK h : h = c.h
      OBVIOUS
    <3>2. h \in Seq(HashEntry) /\ AllButLast(a, h, n) /\ h1 = Compressed(h, m1, t1, f)
      BY <1>1, <1>3, <2>2, <3>1
    <3>3. ASSUME NEW j \in 0 .. Block - 1
          PROVE  m1[j] = PaddedByte(a, n, NextAt(h) + j, FALSE, j)
      <4>1. j < Block /\ j \in Nat
        BY <1>1
      <4>2. m1[j] = IF j < w THEN x + j + 1 ELSE IF j = w THEN PadByte ELSE ZeroByte
        BY <2>2, <4>1 DEF PadFill, x, w
      <4>3. PICK p \in Nat : p = x + j
        BY <1>2, <4>1
      <4>5. /\ p < n => PaddedByte(a, n, p, FALSE, j) = p + 1
            /\ p = n => PaddedByte(a, n, p, FALSE, j) = PadByte
            /\ p > n => PaddedByte(a, n, p, FALSE, j) = ZeroByte
        BY <1>0, <4>3 DEF PaddedByte
      <4>6. NextAt(h) + j = p
        BY <3>1, <4>3 DEF x
      <4>8. PICK u, v : u = PaddedByte(a, n, p, FALSE, j) /\ v = m1[j]
        OBVIOUS
      <4>9. /\ p < n => u = p + 1
            /\ p = n => u = PadByte
            /\ p > n => u = ZeroByte
            /\ v = IF j < w THEN x + j + 1 ELSE IF j = w THEN PadByte ELSE ZeroByte
        BY ONLY <4>2, <4>5, <4>8
      <4>10. w \in Nat /\ j \in Nat /\ x \in Nat /\ n = x + w /\ p = x + j
        BY <1>1, <1>2, <4>1, <4>3
      <4>11. v = u
        BY <4>9, <4>10, PaddedByPosition
      <4>7. m1[j] = PaddedByte(a, n, p, FALSE, j)
        BY ONLY <4>8, <4>11
      <4> QED
        BY ONLY <4>6, <4>7
    <3>4. AllButLast(a, h1, n)
      BY <1>0, <3>2, <3>3, PaddedBlockAppended
    <3>5. NextAt(h1) = NextAt(h) + Block
      BY <3>2, CompressedFields
    <3> QED
      BY <2>2, <3>1, <3>4, <3>5 DEF x
  <2> QED
    BY <2>1, <2>2
<1>5. /\ y \in Nat /\ y - LenCells <= n /\ n < y + Block - LenCells
      /\ over <=> w + 1 > Block - LenCells
  <2>1. over <=> w + 1 > Block - LenCells
    BY DEF NoRoom, w
  <2>2. y = IF over THEN x + Block ELSE x
    BY <1>4
  <2> HIDE DEF y
  <2>3. CASE over
    BY <1>1, <1>2, <2>1, <2>2, <2>3
  <2>4. CASE ~over
    BY <1>1, <1>2, <2>1, <2>2, <2>4
  <2> QED
    BY <2>1, <2>3, <2>4
<1>6. ASSUME NEW j \in 0 .. Block - 1
      PROVE  m2[j] = PaddedByte(a, n, NextAt(h1) + j, TRUE, j)
  <2>1. j < Block /\ j \in Nat
    BY <1>1
  <2>2. PICK p \in Nat : p = y + j
    BY <1>5, <2>1
  <2>3. NextAt(h1) + j = p
    BY <2>2
  <2>4. y = IF over THEN x + Block ELSE x
    BY <1>4
  <2> HIDE DEF y
  <2>5. CASE j >= Block - LenCells
    <3>1. m2[j] = LenCell
      BY <2>5 DEF LengthOnly, LengthAtEnd
    <3>2. p > n
      BY <1>1, <1>2, <1>5, <2>1, <2>2, <2>5
    <3>3. PaddedByte(a, n, p, TRUE, j) = LenCell
      BY <1>0, <2>5, <3>2 DEF PaddedByte
    <3> QED
      BY <2>3, <3>1, <3>3
  <2>6. CASE ~(j >= Block - LenCells)
    <3>1. /\ p < n => PaddedByte(a, n, p, TRUE, j) = p + 1
          /\ p = n => PaddedByte(a, n, p, TRUE, j) = PadByte
          /\ p > n => PaddedByte(a, n, p, TRUE, j) = ZeroByte
      BY <1>0, <2>2, <2>6 DEF PaddedByte
    <3>2. CASE over
      <4>1. m2[j] = ZeroByte
        BY <2>6, <3>2 DEF LengthOnly
      <4>2. p > n
        BY <1>1, <1>2, <2>1, <2>2, <2>4, <3>2
      <4>3. m2[j] = PaddedByte(a, n, p, TRUE, j)
        BY <3>1, <4>1, <4>2
      <4> QED
        BY ONLY <2>3, <4>3
    <3>3. CASE ~over
      <4>1. j < Block - LenCells
        BY <1>1, <2>1, <2>6
      <4>2. m2[j] = IF j < w THEN x + j + 1 ELSE IF j = w THEN PadByte ELSE ZeroByte
        BY <3>3, <4>1 DEF PadFill, x, w
      <4>3. p = x + j
        BY <2>2, <2>4, <3>3
        <4>6. PICK u, v : u = PaddedByte(a, n, p, TRUE, j) /\ v = m2[j]
          OBVIOUS
        <4>7. /\ p < n => u = p + 1
              /\ p = n => u = PadByte
              /\ p > n => u = ZeroByte
              /\ v = IF j < w THEN x + j + 1 ELSE IF j = w THEN PadByte ELSE ZeroByte
          BY ONLY <4>2, <3>1, <4>6
        <4>8. w \in Nat /\ j \in Nat /\ x \in Nat /\ n = x + w /\ p = x + j
          BY <1>1, <1>2, <2>1, <4>3
        <4>9. v = u
          BY <4>7, <4>8, PaddedByPosition
        <4>5. m2[j] = PaddedByte(a, n, p, TRUE, j)
          BY ONLY <4>6, <4>9
      <4> QED
        BY ONLY <2>3, <4>5
    <3> QED
      BY <3>2, <3>3
  <2> QED
    BY <2>5, <2>6
<1>7. LastBlockAt(a, n, NextAt(h1))
  BY <1>0, <1>5 DEF LastBlockAt
<1>8. f = (a = "blake2b" \/ (a = "poly1305" /\ n < NextAt(h1) + Block))
  BY <1>0
<1>9. Spells(a, g, n)
  <2>1. AllButLast(a, h1, n)
    BY <1>4
  <2> HIDE DEF y
  <2> QED
    BY <2>1, <1>0, <1>6, <1>7, <1>8, MessageComplete
<1>10. CountersOf(a, g, n)
  <2>1. h1 \in Seq(HashEntry) /\ g = Compressed(h1, m2, t, f)
    OBVIOUS
  <2>2. g[Len(g)].t = t
    BY ONLY <2>1, CompressedFields
  <2> QED
    BY <1>0, <2>2 DEF CountersOf
<1> QED
  BY <1>9, <1>10

\* Poly1305's last block, flagged only when it is padded.
LEMMA Poly1305FinalExact ==
  ASSUME NEW a, a = "poly1305", NEW c \in HashObject(a), NEW n \in Nat, Holds(a, c, n)
  PROVE  LET g == Poly1305FinalBlocks(c) IN Spells(a, g, n) /\ CountersOf(a, g, n)
<1>0. a \in Algorithm /\ a # "blake2b" /\ ~(a \in {"sha512", "sha256"})
  BY DEF Algorithm
<1> DEFINE x == NextAt(c.h)
           w == c.buflen
           g == Poly1305FinalBlocks(c)
<1>1. /\ Block \in Nat \ {0} /\ w \in 0 .. Block - 1 /\ w \in Nat /\ c.h \in Seq(HashEntry)
  <2>1. MaxFill(a) = Block - 1
    BY <1>0 DEF MaxFill
  <2> QED
    BY <1>0, <2>1, ObjectFields
<1>2. x \in Nat /\ x + w = n /\ InputBlocks(c.h)
  BY <1>1, NextAtType DEF Holds
<1>3. AllButLast(a, c.h, n)
  <2>1. NextAt(c.h) <= n
    BY <1>1, <1>2
  <2> QED
    BY <1>0, <1>1, <1>2, <2>1, InputBlocksPadded
<1>4. CountersOf(a, g, n)
  BY <1>0 DEF CountersOf
<1>5. CASE w = 0
  <2>1. g = c.h /\ x = n
    BY <1>1, <1>2, <1>5 DEF Poly1305FinalBlocks
  <2>2. c.h = <<>> => n = 0
    BY <2>1 DEF NextAt
  <2> HIDE DEF g, w
  <2>3. ASSUME NEW i \in 1 .. Len(c.h)
        PROVE  /\ c.h[i].at = IF i = 1 THEN 0 ELSE c.h[i - 1].at + Block
               /\ \A j \in 0 .. Block - 1 :
                    c.h[i].m[j] = PaddedByte(a, n, c.h[i].at + j, i = Len(c.h), j)
               /\ c.h[i].f = (/\ i = Len(c.h)
                              /\ \/ a = "blake2b"
                                 \/ a = "poly1305" /\ n < c.h[i].at + Block)
    <3>1. /\ c.h[i].at = IF i = 1 THEN 0 ELSE c.h[i - 1].at + Block
          /\ c.h[i].at + Block <= NextAt(c.h) /\ c.h[i].f = FALSE
          /\ \A j \in 0 .. Block - 1 : c.h[i].m[j] = c.h[i].at + j + 1
      BY <1>2 DEF InputBlocks
    <3>2. c.h[i].at \in Nat
      <4>1. c.h[i] \in HashEntry
        BY <1>1
      <4> QED
        BY <4>1 DEF HashEntry
    <3>3. ASSUME NEW j \in 0 .. Block - 1
          PROVE  c.h[i].m[j] = PaddedByte(a, n, c.h[i].at + j, i = Len(c.h), j)
      <4>1. PICK p \in Nat : p = c.h[i].at + j /\ p < n
        <5>1. PICK q : q = c.h[i].at
          OBVIOUS
        <5>2. q \in Nat /\ q + Block <= n /\ Block \in Nat /\ n \in Nat /\ j \in 0 .. Block - 1
          BY <1>1, <2>1, <3>1, <3>2, <5>1
        <5>3. q + j \in Nat /\ q + j < n
          BY ONLY <5>2
        <5> QED
          BY <5>1, <5>3
      <4>2. PICK last \in BOOLEAN : last = (i = Len(c.h))
        OBVIOUS
      <4>3. PaddedByte(a, n, p, last, j) = p + 1
        BY <1>0, <4>1 DEF PaddedByte
      <4>4. c.h[i].m[j] = p + 1
        BY <3>1, <4>1
      <4> QED
        BY <4>1, <4>2, <4>3, <4>4
    <3>4. ~(n < c.h[i].at + Block)
      BY <1>1, <1>2, <2>1, <3>1, <3>2
    <3> QED
      BY <1>0, <3>1, <3>3, <3>4
  <2>4. ASSUME c.h # <<>> PROVE LastBlockAt(a, n, c.h[Len(c.h)].at)
    <3>1. c.h[Len(c.h)] \in HashEntry /\ NextAt(c.h) = c.h[Len(c.h)].at + Block
      BY <1>1, <2>4 DEF NextAt
    <3>2. c.h[Len(c.h)].at \in Nat
      BY <3>1 DEF HashEntry
    <3>3. c.h[Len(c.h)].at < n /\ n <= c.h[Len(c.h)].at + Block
      BY <1>1, <2>1, <3>1, <3>2
    <3> QED
      BY <3>3 DEF LastBlockAt
  <2>5. Spells(a, c.h, n)
    BY <2>2, <2>3, <2>4 DEF Spells
  <2> QED
    BY <1>4, <2>1, <2>5 DEF g
<1>6. CASE w # 0
  <2> DEFINE b == Zeroed([c.buf EXCEPT ![w] = PadByte], w + 1, Block)
             m == FirstBlock(b)
             t == <<0, 0>>
  <2>1. g = Compressed(c.h, m, t, TRUE)
    BY <1>6 DEF Poly1305FinalBlocks, Poly1305Blocks
  <2>2. PadFill(b, x, w, Block)
    <3>1. Block \in 0 .. Block
      BY <1>1
    <3> QED
      BY <1>0, <3>1, PaddedBuffer
  <2> HIDE DEF b, t, g, x, w
  <2>3. PICK h : h = c.h
    OBVIOUS
  <2>4. ASSUME NEW j \in 0 .. Block - 1
        PROVE  m[j] = PaddedByte(a, n, NextAt(h) + j, TRUE, j)
    <3>1. j < Block /\ j \in Nat
      BY <1>1
    <3>2. m[j] = IF j < w THEN x + j + 1 ELSE IF j = w THEN PadByte ELSE ZeroByte
      BY <2>2, <3>1 DEF PadFill, FirstBlock
    <3>3. PICK p \in Nat : p = x + j
      BY <1>2, <3>1
    <3>5. /\ p < n => PaddedByte(a, n, p, TRUE, j) = p + 1
          /\ p = n => PaddedByte(a, n, p, TRUE, j) = PadByte
          /\ p > n => PaddedByte(a, n, p, TRUE, j) = ZeroByte
      BY <1>0, <3>3 DEF PaddedByte
    <3>6. NextAt(h) + j = p
      BY <2>3, <3>3 DEF x
      <3>8. PICK u, v : u = PaddedByte(a, n, p, TRUE, j) /\ v = m[j]
        OBVIOUS
      <3>9. /\ p < n => u = p + 1
            /\ p = n => u = PadByte
            /\ p > n => u = ZeroByte
            /\ v = IF j < w THEN x + j + 1 ELSE IF j = w THEN PadByte ELSE ZeroByte
        BY ONLY <3>2, <3>5, <3>8
      <3>10. w \in Nat /\ j \in Nat /\ x \in Nat /\ n = x + w /\ p = x + j
        BY <1>1, <1>2, <3>1, <3>3
      <3>11. v = u
        BY <3>9, <3>10, PaddedByPosition
      <3>7. m[j] = PaddedByte(a, n, p, TRUE, j)
        BY ONLY <3>8, <3>11
    <3> QED
      BY ONLY <3>6, <3>7
  <2>5. x < n /\ n <= x + Block /\ n < x + Block
    BY <1>1, <1>2, <1>6
  <2>6. LastBlockAt(a, n, NextAt(h))
    BY <2>3, <2>5 DEF LastBlockAt, x
  <2>7. PICK f : f = TRUE
    OBVIOUS
  <2>8. f = (a = "blake2b" \/ (a = "poly1305" /\ n < NextAt(h) + Block))
    BY <2>3, <2>5, <2>7 DEF x
  <2>9. h \in Seq(HashEntry) /\ AllButLast(a, h, n) /\ g = Compressed(h, m, t, f)
    BY <1>1, <1>3, <2>1, <2>3, <2>7
  <2>10. Spells(a, Compressed(h, m, t, f), n)
    <3> HIDE DEF m
    <3> QED
      BY <1>0, <2>4, <2>6, <2>8, <2>9, MessageComplete
  <2>11. Spells(a, g, n)
    BY <2>9, <2>10
  <2> QED
    BY <1>4, <2>11 DEF g
<1> QED
  BY <1>5, <1>6

\* A block that ends in the length.
LEMMA LengthBlock ==
  ASSUME NEW z \in [0 .. Block - 1 -> Int], NEW m, m = FirstBlock(WithLength(z)),
         NEW j \in 0 .. Block - 1
  PROVE  /\ j >= Block - LenCells => m[j] = LenCell
         /\ ~(j >= Block - LenCells) => m[j] = z[j]
<1>1. m[j] = WithLength(z)[j]
  BY DEF FirstBlock
<1>2. WithLength(z)[j] = IF j >= Block - LenCells THEN LenCell ELSE z[j]
  BY DEF WithLength
<1> QED
  BY <1>1, <1>2

\* What SHA's finals have in common.
LEMMA ShaBuffer ==
  ASSUME NEW a \in {"sha512", "sha256"}, NEW c \in HashObject(a)
  PROVE  /\ Block \in Nat \ {0} /\ LenCells \in Nat \ {0} /\ LenCells < Block
         /\ Block - LenCells \in 0 .. Block /\ Block \in 0 .. Block
         /\ c.buflen \in Nat /\ c.buflen < Block /\ c.h \in Seq(HashEntry)
         /\ a \in Algorithm /\ a # "blake2b" /\ BufSize(a) = Block
         /\ c.buf \in [0 .. Block - 1 -> Int]
         /\ [c.buf EXCEPT ![c.buflen] = PadByte] \in [0 .. Block - 1 -> Int]
<1>1. /\ BufSize(a) = Block /\ MaxFill(a) = Block - 1
      /\ a \in Algorithm /\ a # "blake2b"
  BY DEF BufSize, MaxFill, Algorithm
<1>2. /\ Block \in Nat \ {0} /\ LenCells \in Nat \ {0} /\ LenCells < Block
      /\ c.buf \in [0 .. Block - 1 -> Int] /\ c.buflen \in 0 .. Block - 1
      /\ c.h \in Seq(HashEntry)
  BY <1>1, ObjectFields
<1>3. [c.buf EXCEPT ![c.buflen] = PadByte] \in [0 .. Block - 1 -> Int]
  <2>1. Block \in Int /\ c.buflen \in Int /\ 0 \in Int
    BY <1>2
  <2> QED
    BY <1>2, <2>1, BufferTypes
<1> QED
  BY <1>1, <1>2, <1>3

\* Zeroing keeps the type.
LEMMA ZeroedType ==
  ASSUME NEW buf \in [0 .. Block - 1 -> Int], NEW x \in Int, NEW y \in Int, Block \in Int
  PROVE  Zeroed(buf, x, y) \in [0 .. Block - 1 -> Int]
BY BufferTypes

\* The whole of SHA-512's final: two blocks when the length does not fit.
LEMMA Sha512FinalExact ==
  ASSUME NEW a \in {"sha512", "sha256"}, a = "sha512", NEW c \in HashObject(a),
         NEW n \in Nat, Holds(a, c, n), Counted(a, c, n)
  PROVE  LET g == Sha512FinalBlocks(c) IN Spells(a, g, n) /\ CountersOf(a, g, n)
<1> DEFINE buf1 == [c.buf EXCEPT ![c.buflen] = PadByte]
           to   == Block - LenCells
           over == c.buflen + 1 > to
           m1   == FirstBlock(Zeroed(buf1, c.buflen + 1, Block))
           t1   == <<0, 0>>
           h1   == IF over THEN Compressed(c.h, m1, t1, FALSE) ELSE c.h
           len  == IF over THEN 0 ELSE c.buflen + 1
           z    == Zeroed(buf1, len, to)
           m2   == FirstBlock(WithLength(z))
           g    == Compressed(h1, m2, c.t, FALSE)
<1>1. /\ Block \in Nat \ {0} /\ LenCells \in Nat \ {0} /\ LenCells < Block
      /\ to \in 0 .. Block /\ Block \in 0 .. Block
      /\ c.buflen \in Nat /\ c.buflen < Block /\ c.h \in Seq(HashEntry)
      /\ a \in Algorithm /\ a # "blake2b" /\ BufSize(a) = Block
      /\ buf1 \in [0 .. Block - 1 -> Int]
  BY ShaBuffer
<1>2. g = Sha512FinalBlocks(c)
  BY DEF Sha512FinalBlocks, Sha512Transform
<1>3. /\ over = (c.buflen + 1 > Block - LenCells)
      /\ h1 = IF over THEN Compressed(c.h, m1, t1, FALSE) ELSE c.h
      /\ len = IF over THEN 0 ELSE c.buflen + 1
      /\ g = Compressed(h1, m2, c.t, FALSE)
  OBVIOUS
<1>4. PadFill(m1, NextAt(c.h), c.buflen, Block)
  <2>1. PadFill(Zeroed(buf1, c.buflen + 1, Block), NextAt(c.h), c.buflen, Block)
    BY <1>1, PaddedBuffer
  <2> QED
    BY <2>1 DEF PadFill, FirstBlock
<1>5. h1 \in Seq(HashEntry)
  <2>1. Zeroed(buf1, c.buflen + 1, Block) \in [0 .. Block - 1 -> Int]
    <3>1. c.buflen + 1 \in Int /\ Block \in Int
      BY <1>1
    <3> HIDE DEF buf1
    <3> QED
      BY <1>1, <3>1, ZeroedType
  <2>2. m1 \in [0 .. Block - 1 -> Int]
    <3>1. 0 \in 0 .. Block
      BY <1>1
    <3> QED
      BY <1>1, <2>1, <3>1, BlockTypes
  <2>3. t1 \in Int \X Int
    OBVIOUS
  <2> HIDE DEF m1, t1, over
  <2>4. Compressed(c.h, m1, t1, FALSE) \in Seq(HashEntry)
    BY <1>1, <2>2, <2>3, CompressedType
  <2> QED
    BY <1>1, <2>4
<1>6. z \in [0 .. Block - 1 -> Int]
  <2>1. len \in Int /\ to \in Int /\ Block \in Int
    BY <1>1
  <2> HIDE DEF len, to, buf1
  <2> QED
    BY <1>1, <2>1, ZeroedType
<1> HIDE DEF z
<1>7. \A j \in 0 .. Block - 1 : /\ j >= Block - LenCells => m2[j] = LenCell
                                /\ ~(j >= Block - LenCells) => m2[j] = z[j]
  BY <1>6, LengthBlock
<1>8. ASSUME over, NEW j \in 0 .. Block - 1
      PROVE  m2[j] = IF j >= Block - LenCells THEN LenCell ELSE ZeroByte
  <2>1. CASE j >= Block - LenCells
    BY <1>7, <2>1
  <2>2. CASE ~(j >= Block - LenCells)
    <3>1. 0 <= j /\ j < to /\ j \in DOMAIN buf1 /\ len = 0
      BY <1>1, <1>8, <2>2
    <3>2. z[j] = ZeroByte
      BY <3>1 DEF Zeroed, z
    <3> QED
      BY <1>7, <2>2, <3>2
  <2> QED
    BY <2>1, <2>2
<1>9. ASSUME ~over PROVE PadFill(m2, NextAt(c.h), c.buflen, Block - LenCells)
  <2>1. z = Zeroed(buf1, c.buflen + 1, Block - LenCells)
    BY <1>9 DEF z
  <2>2. PadFill(z, NextAt(c.h), c.buflen, Block - LenCells)
    BY <1>1, <2>1, PaddedBuffer
  <2>3. \A j \in 0 .. Block - 1 : j < Block - LenCells => ~(j >= Block - LenCells)
    BY <1>1
  <2> HIDE DEF m2
  <2> QED
    BY <1>7, <2>2, <2>3 DEF PadFill
<1>10. Value(c.t) = (8 * n) % (Word * Word)
  BY DEF Counted
<1> HIDE DEF buf1, over, m1, t1, h1, len, m2, g, to
<1>11. PICK f, t : f = FALSE /\ t = c.t
  OBVIOUS
<1>12. /\ h1 = IF over THEN Compressed(c.h, m1, t1, f) ELSE c.h
       /\ g = Compressed(h1, m2, t, f) /\ Value(t) = (8 * n) % (Word * Word)
  BY <1>3, <1>10, <1>11
<1>14. /\ NoRoom(c) => h1 = Compressed(c.h, m1, t1, f)
       /\ ~NoRoom(c) => h1 = c.h
       /\ NoRoom(c) => PadFill(m1, NextAt(c.h), c.buflen, Block)
       /\ NoRoom(c) => LengthOnly(m2)
       /\ ~NoRoom(c) => PadFill(m2, NextAt(c.h), c.buflen, Block - LenCells) /\ LengthAtEnd(m2)
  BY <1>3, <1>4, <1>7, <1>8, <1>9, <1>12 DEF LengthOnly, NoRoom, LengthAtEnd
<1>15. Spells(a, g, n) /\ CountersOf(a, g, n)
  BY <1>5, <1>11, <1>12, <1>14, ShaFinalExact
<1> QED
  BY <1>2, <1>15

\* The whole of SHA-256's pad().
LEMMA Sha256FinalExact ==
  ASSUME NEW a \in {"sha512", "sha256"}, a = "sha256", NEW c \in HashObject(a),
         NEW n \in Nat, Holds(a, c, n), NEW w \in Nat, Counted(a, c, w)
  PROVE  LET g == Sha256Padded(c).h IN Spells(a, g, n) /\ CountersOf(a, g, n)
<1> DEFINE to   == Block - LenCells
           over == c.buflen >= to
           pad  == [c.buf EXCEPT ![c.buflen] = PadByte]
           end  == IF over THEN Block ELSE to
           buf1 == Zeroed(pad, c.buflen + 1, end)
           m1   == FirstBlock(buf1)
           t1   == <<0, 0>>
           h1   == IF over THEN Compressed(c.h, m1, t1, FALSE) ELSE c.h
           z    == IF over THEN Zeroed(buf1, 0, to) ELSE buf1
           m2   == FirstBlock(WithLength(z))
           t    == AddBits(c.t, c.buflen)
           g    == Compressed(h1, m2, t, FALSE)
<1>1. /\ Block \in Nat \ {0} /\ LenCells \in Nat \ {0} /\ LenCells < Block
      /\ to \in 0 .. Block /\ Block \in 0 .. Block
      /\ c.buflen \in Nat /\ c.buflen < Block /\ c.h \in Seq(HashEntry)
      /\ a \in Algorithm /\ a # "blake2b" /\ BufSize(a) = Block
      /\ pad \in [0 .. Block - 1 -> Int]
  BY ShaBuffer
<1>2. g = Sha256Padded(c).h
  BY DEF Sha256Padded, Sha256Transform, HashObject
<1>3. /\ over = (c.buflen >= Block - LenCells)
      /\ h1 = IF over THEN Compressed(c.h, m1, t1, FALSE) ELSE c.h
      /\ end = IF over THEN Block ELSE to
      /\ z = IF over THEN Zeroed(buf1, 0, to) ELSE buf1
      /\ g = Compressed(h1, m2, t, FALSE)
  OBVIOUS
<1>4. end \in 0 .. Block
  BY <1>1
<1> HIDE DEF end
<1>5. PadFill(buf1, NextAt(c.h), c.buflen, end)
  BY <1>1, <1>4, PaddedBuffer
<1>6. buf1 \in [0 .. Block - 1 -> Int]
  <2>1. c.buflen + 1 \in Int /\ end \in Int /\ Block \in Int
    BY <1>1, <1>4
  <2> HIDE DEF pad
  <2> QED
    BY <1>1, <2>1, ZeroedType
<1> HIDE DEF buf1
<1>7. z \in [0 .. Block - 1 -> Int]
  <2>1. 0 \in Int /\ to \in Int /\ Block \in Int
    BY <1>1
  <2> HIDE DEF to
  <2>2. Zeroed(buf1, 0, to) \in [0 .. Block - 1 -> Int]
    BY <1>6, <2>1, ZeroedType
  <2> QED
    BY <1>6, <2>2
<1>8. h1 \in Seq(HashEntry)
  <2>2. m1 \in [0 .. Block - 1 -> Int]
    <3>1. 0 \in 0 .. Block
      BY <1>1
    <3> QED
      BY <1>1, <1>6, <3>1, BlockTypes
  <2>3. t1 \in Int \X Int
    OBVIOUS
  <2> HIDE DEF m1, t1, over
  <2>4. Compressed(c.h, m1, t1, FALSE) \in Seq(HashEntry)
    BY <1>1, <2>2, <2>3, CompressedType
  <2> QED
    BY <1>1, <2>4
<1> HIDE DEF z
<1>9. \A j \in 0 .. Block - 1 : /\ j >= Block - LenCells => m2[j] = LenCell
                                /\ ~(j >= Block - LenCells) => m2[j] = z[j]
  BY <1>7, LengthBlock
<1>10. ASSUME over, NEW j \in 0 .. Block - 1
       PROVE  m2[j] = IF j >= Block - LenCells THEN LenCell ELSE ZeroByte
  <2>1. CASE j >= Block - LenCells
    BY <1>9, <2>1
  <2>2. CASE ~(j >= Block - LenCells)
    <3>1. 0 <= j /\ j < to /\ j \in DOMAIN buf1 /\ z = Zeroed(buf1, 0, to)
      BY <1>1, <1>3, <1>6, <1>10, <2>2
    <3>2. z[j] = ZeroByte
      BY <3>1 DEF Zeroed
    <3> QED
      BY <1>9, <2>2, <3>2
  <2> QED
    BY <2>1, <2>2
<1>11. ASSUME over PROVE PadFill(m1, NextAt(c.h), c.buflen, Block)
  <2>1. end = Block
    BY <1>3, <1>11
  <2> QED
    BY <1>5, <2>1 DEF PadFill, FirstBlock
<1>12. ASSUME ~over PROVE PadFill(m2, NextAt(c.h), c.buflen, Block - LenCells)
  <2>1. z = buf1 /\ end = Block - LenCells
    BY <1>3, <1>12
  <2>2. PadFill(z, NextAt(c.h), c.buflen, Block - LenCells)
    BY <1>5, <2>1
  <2>3. \A j \in 0 .. Block - 1 : j < Block - LenCells => ~(j >= Block - LenCells)
    BY <1>1
  <2> HIDE DEF m2
  <2> QED
    BY <1>9, <2>2, <2>3 DEF PadFill
<1>13. Value(t) = (8 * n) % (Word * Word)
  <2> DEFINE x == NextAt(c.h)
             y == Word * Word
             e == 8 * x
             d == 8 * c.buflen
  <2>1. c.t \in Words /\ Value(c.t) = e % y
    BY DEF Counted
  <2>2. Value(t) = (Value(c.t) + d) % y
    BY <1>1, <2>1, AddBitsExact
  <2>3. x \in Nat /\ x + c.buflen = n /\ y \in Nat \ {0}
    BY <1>1, <2>1, NextAtType, ValueRange DEF Holds
  <2> HIDE DEF x, y
  <2>4. e \in Int /\ d \in Int /\ e + d = 8 * n
    <3>1. PICK b : b = c.buflen
      OBVIOUS
    <3>2. b \in Nat /\ x + b = n
      BY <1>1, <2>3, <3>1
    <3>3. 8 * x \in Int /\ 8 * b \in Int /\ 8 * x + 8 * b = 8 * n
      BY ONLY <2>3, <3>2
    <3> QED
      BY <3>1, <3>3
  <2> HIDE DEF e, d
  <2>5. ((e % y) + d) % y = (e + d) % y
    BY <2>3, <2>4, RemainderOfSum
  <2> QED
    BY <2>1, <2>2, <2>4, <2>5 DEF y
<1>14. over = (c.buflen + 1 > Block - LenCells)
  BY <1>1
<1> HIDE DEF over, m1, t1, h1, m2, t, g, to, pad
<1>15. PICK f : f = FALSE
  OBVIOUS
<1>16. /\ NoRoom(c) => h1 = Compressed(c.h, m1, t1, f)
       /\ ~NoRoom(c) => h1 = c.h
       /\ g = Compressed(h1, m2, t, f)
       /\ NoRoom(c) => PadFill(m1, NextAt(c.h), c.buflen, Block)
       /\ NoRoom(c) => LengthOnly(m2)
       /\ ~NoRoom(c) => PadFill(m2, NextAt(c.h), c.buflen, Block - LenCells) /\ LengthAtEnd(m2)
  BY <1>3, <1>9, <1>10, <1>11, <1>12, <1>14, <1>15 DEF LengthOnly, NoRoom, LengthAtEnd
<1>17. Spells(a, g, n) /\ CountersOf(a, g, n)
  BY <1>8, <1>13, <1>15, <1>16, ShaFinalExact
<1> QED
  BY <1>2, <1>17

(***************************************************************************)
(* The invariant.                                                          *)
(***************************************************************************)
\* A clean object holds what the calls have absorbed.
Exact == ctx.clean => Holds(alg, ctx, fed - rest) /\ Counted(alg, ctx, fed)

\* The digest last returned is right.
OutExact == out.n >= 0 /\ out.clean => Spells(alg, out.h, out.n) /\ CountersOf(alg, out.h, out.n)

\* An object that has been fed nothing.
LEMMA FreshHolds ==
  ASSUME NEW a \in Algorithm, NEW c, c.h = <<>>, c.t = <<0, 0>>, c.buflen = 0
  PROVE  Holds(a, c, 0) /\ Counted(a, c, 0)
<1>1. NextAt(c.h) = 0 /\ Len(c.h) = 0
  BY DEF NextAt
<1>2. <<0, 0>> \in Words /\ Value(<<0, 0>>) = 0 /\ Value(c.t) = 0
  BY WordAssumption DEF Words, Value
<1>3. 0 = 0 % (Word * Word) /\ 8 * 0 = 0
  BY <1>2, ValueRange
<1>4. InputBlocks(c.h) /\ BlockCounters(a, c.h)
  BY <1>1 DEF InputBlocks, BlockCounters
<1>5. \A j \in 0 .. c.buflen - 1 : c.buf[j] = NextAt(c.h) + j + 1
  OBVIOUS
<1>6. Holds(a, c, 0)
  BY <1>1, <1>4, <1>5 DEF Holds
<1>7. Counted(a, c, 0)
  BY <1>1, <1>2, <1>3 DEF Counted
<1> QED
  BY <1>6, <1>7

\* What init, init_key and memzero leave.
LEMMA InitHolds ==
  ASSUME NEW a \in Algorithm, NEW old
  PROVE  /\ Holds(a, Fresh(a, old), 0) /\ Counted(a, Fresh(a, old), 0)
         /\ Holds(a, Wiped(a), 0) /\ Counted(a, Wiped(a), 0)
         /\ a = "blake2b" => Holds(a, Keyed(a), Block) /\ Counted(a, Keyed(a), Block)
<1>1. Holds(a, Fresh(a, old), 0) /\ Counted(a, Fresh(a, old), 0)
  <2>1. PICK c : c = Fresh(a, old)
    OBVIOUS
  <2>2. c.h = <<>> /\ c.t = <<0, 0>> /\ c.buflen = 0
    BY <2>1 DEF Fresh
  <2> QED
    BY <2>1, <2>2, FreshHolds
<1>2. Holds(a, Wiped(a), 0) /\ Counted(a, Wiped(a), 0)
  <2>1. PICK c : c = Wiped(a)
    OBVIOUS
  <2>2. c.h = <<>> /\ c.t = <<0, 0>> /\ c.buflen = 0
    BY <2>1 DEF Wiped
  <2> QED
    BY <2>1, <2>2, FreshHolds
<1>3. ASSUME a = "blake2b" PROVE Holds(a, Keyed(a), Block) /\ Counted(a, Keyed(a), Block)
  <2>0. Block \in Nat \ {0} /\ BufSize(a) = 2 * Block
    BY <1>3, BlockAssumption DEF BufSize
  <2>1. PICK c, d, buf1 : /\ c = Fresh(a, Zeros(a)) /\ d = Keyed(a)
                          /\ buf1 = Copied(Zeros(a), 0, Block, 1)
    OBVIOUS
  <2>2. Zeros(a) \in [0 .. BufSize(a) - 1 -> Int]
    BY <2>0 DEF Zeros, ZeroByte
  <2>3. c \in HashObject(a) /\ d \in HashObject(a)
    BY <1>3, <2>1, <2>2, FreshTypes
  <2>4. c.h = <<>> /\ c.t = <<0, 0>> /\ c.buflen = 0 /\ c.buf = Zeros(a)
    BY <1>3, <2>1 DEF Fresh
  <2>5. d.h = c.h /\ d.t = c.t /\ d.buf = buf1 /\ d.buflen = Block
    BY <2>1, <2>4 DEF Keyed, Fresh
  <2>6. Holds(a, c, 0) /\ Counted(a, c, 0)
    BY <2>4, FreshHolds
  <2>7. /\ buf1 = Copied(c.buf, c.buflen, Block, 0 + 1)
        /\ c.buflen + Block <= BufSize(a) /\ d.buflen = c.buflen + Block
        /\ Block \in Nat /\ 0 \in Nat /\ 0 + Block = Block
    BY <2>0, <2>1, <2>4, <2>5
  <2>8. Holds(a, d, 0 + Block) /\ Counted(a, d, 0)
    BY <2>3, <2>5, <2>6, <2>7, InputKept
  <2>9. Counted(a, d, Block)
    BY <1>3, <2>8 DEF Counted
  <2> QED
    BY <2>1, <2>7, <2>8, <2>9
<1> QED
  BY <1>1, <1>2, <1>3

\* An iteration that leaves an object that holds what was absorbed.
LEMMA AbsorbExact ==
  ASSUME HashTypeOK, OutExact, NEW d, NEW k \in 0 .. rest, Absorb(d, k), d.clean = ctx.clean,
         ctx.clean => Holds(alg, d, (fed - rest) + k) /\ Counted(alg, d, fed)
  PROVE  Exact' /\ OutExact'
<1>1. alg' = alg /\ fed' = fed /\ out' = out /\ ctx' = d /\ rest' = rest - k
  BY DEF Absorb
<1>2. fed' - rest' = (fed - rest) + k
  BY <1>1 DEF HashTypeOK
<1>3. ctx'.clean => Holds(alg', ctx', fed' - rest') /\ Counted(alg', ctx', fed')
  BY <1>1, <1>2
<1>4. Exact'
  BY <1>3 DEF Exact, Holds, Counted, InputBlocks, BlockCounters, NextAt, Value, Words
<1>5. out'.n >= 0 /\ out'.clean => Spells(alg', out'.h, out'.n) /\ CountersOf(alg', out'.h, out'.n)
  BY <1>1 DEF OutExact
<1>6. OutExact'
  BY <1>5 DEF OutExact, Spells, CountersOf, LastBlockAt, PaddedByte, Value
<1> QED
  BY <1>4, <1>6

\* A final whose digest is right.
LEMMA FinishedExact ==
  ASSUME HashTypeOK, NEW h, NEW d, Finished(h, d), Idle,
         ctx.clean => Spells(alg, h, fed) /\ CountersOf(alg, h, fed),
         Holds(alg, d, 0) /\ Counted(alg, d, 0)
  PROVE  Exact' /\ OutExact'
<1>1. /\ alg' = alg /\ fed' = 0 /\ rest' = 0 /\ ctx' = d
      /\ out' = [n |-> fed, init |-> ctx.init, clean |-> ctx.clean, h |-> h]
  BY DEF Finished, Returned, Idle
<1>2. Holds(alg', ctx', fed' - rest') /\ Counted(alg', ctx', fed')
  <2>1. fed' - rest' = 0
    BY <1>1
  <2> QED
    BY <1>1, <2>1
<1>3. Exact'
  BY <1>2 DEF Exact, Holds, Counted, InputBlocks, BlockCounters, NextAt, Value, Words
<1>4. out'.n = fed /\ out'.clean = ctx.clean /\ out'.h = h
  BY <1>1
<1>5. out'.n >= 0 /\ out'.clean => Spells(alg', out'.h, out'.n) /\ CountersOf(alg', out'.h, out'.n)
  BY <1>1, <1>4
<1>6. OutExact'
  BY <1>5 DEF OutExact, Spells, CountersOf, LastBlockAt, PaddedByte, Value
<1> QED
  BY <1>3, <1>6

\* The counters of an object are those of its copy with other bytes in the buffer.
LEMMA CountedKept ==
  ASSUME NEW a, a # "blake2b", NEW c, NEW w, Counted(a, c, w), NEW d, d.t = c.t,
         a # "sha256"
  PROVE  Counted(a, d, w)
BY DEF Counted

\* SHA-256 counts a block when it is full.
LEMMA BlockCounted ==
  ASSUME NEW a, a = "sha256", NEW c, NEW w, Counted(a, c, w), NextAt(c.h) \in Nat,
         NEW d, d.t = AddBits(c.t, Block), NextAt(d.h) = NextAt(c.h) + Block
  PROVE  Counted(a, d, w)
<1> DEFINE x == NextAt(c.h)
           y == Word * Word
           e == 8 * x
           b == 8 * Block
<1>1. Block \in Nat
  BY BlockAssumption
<1>2. c.t \in Words /\ Value(c.t) = e % y
  BY DEF Counted
<1>3. d.t \in Words /\ Value(d.t) = (Value(c.t) + b) % y
  BY <1>1, <1>2, AddBitsExact
<1>4. x \in Nat /\ y \in Nat \ {0}
  BY <1>2, ValueRange
<1> HIDE DEF x, y
<1>5. e \in Int /\ b \in Int /\ e + b = 8 * (x + Block)
  BY <1>1, <1>4
<1> HIDE DEF e, b
<1>6. ((e % y) + b) % y = (e + b) % y
  BY <1>4, <1>5, RemainderOfSum
<1>7. Value(d.t) = (8 * NextAt(d.h)) % (Word * Word)
  BY <1>2, <1>3, <1>5, <1>6 DEF x, y
<1> QED
  BY <1>3, <1>7 DEF Counted

\* Every step keeps both.
LEMMA ExactStep ==
  ASSUME HashTypeOK, HashTypeOK', Exact, OutExact, [HashNext]_hashVars
  PROVE  Exact' /\ OutExact'
<1> DEFINE N == fed - rest
<1>0. /\ alg \in Algorithm /\ ctx \in HashObject(alg) /\ fed \in Nat
      /\ rest \in Nat /\ rest <= fed /\ N \in Nat /\ Next1 = N + 1
      /\ Block \in Nat \ {0} /\ BufSize(alg) \in Nat /\ MaxFill(alg) \in Nat
      /\ ctx.h \in Seq(HashEntry) /\ ctx.t \in Int \X Int /\ ctx.f = FALSE
      /\ ctx.buf \in [0 .. BufSize(alg) - 1 -> Int] /\ NextAt(ctx.h) \in Nat
      /\ ctx.buflen \in 0 .. MaxFill(alg) /\ ctx.buflen \in Nat
  <2>1. alg \in Algorithm /\ ctx \in HashObject(alg) /\ fed \in Nat
        /\ rest \in Nat /\ rest <= fed /\ N \in Nat /\ Next1 = N + 1
    BY DEF HashTypeOK, Next1
  <2> QED
    BY <2>1, ObjectFields, NextAtType
<1>a. ctx.clean => Holds(alg, ctx, N) /\ Counted(alg, ctx, fed)
  BY DEF Exact
<1>b. ctx' \in HashObject(alg')
  <2>1. HashObject(alg)' = HashObject(alg')
    BY DEF HashObject, BufSize, MaxFill
  <2> QED
    BY <2>1 DEF HashTypeOK
<1> HIDE DEF N
<1>1. CASE UNCHANGED hashVars
  <2>1. alg' = alg /\ ctx' = ctx /\ fed' = fed /\ rest' = rest /\ out' = out
    BY <1>1 DEF hashVars
  <2>2. ctx'.clean => Holds(alg', ctx', fed' - rest') /\ Counted(alg', ctx', fed')
    BY <2>1 DEF Exact
  <2>3. Exact'
    BY <2>2 DEF Exact, Holds, Counted, InputBlocks, BlockCounters, NextAt, Value, Words
  <2>4. out'.n >= 0 /\ out'.clean => Spells(alg', out'.h, out'.n) /\ CountersOf(alg', out'.h, out'.n)
    BY <2>1 DEF OutExact
  <2>5. OutExact'
    BY <2>4 DEF OutExact, Spells, CountersOf, LastBlockAt, PaddedByte, Value
  <2> QED
    BY <2>3, <2>5
<1>2. CASE Restart
  <2>1. /\ alg' = alg /\ rest' = 0 /\ out' = NoDigest
        /\ \/ ctx' = Fresh(alg, ctx.buf) /\ fed' = 0
           \/ alg = "blake2b" /\ ctx' = Keyed(alg) /\ fed' = Block
    BY <1>2 DEF Restart, Idle
  <2>2. Holds(alg, ctx', fed') /\ Counted(alg, ctx', fed')
    BY <1>0, <2>1, InitHolds
  <2>3. fed' - rest' = fed'
    BY <1>0, <2>1
  <2>4. Holds(alg', ctx', fed' - rest') /\ Counted(alg', ctx', fed')
    BY <2>1, <2>2, <2>3
  <2>5. Exact'
    BY <2>4 DEF Exact, Holds, Counted, InputBlocks, BlockCounters, NextAt, Value, Words
  <2>6. ~(out'.n >= 0)
    BY <2>1 DEF NoDigest
  <2> QED
    BY <2>5, <2>6 DEF OutExact
<1>3. ASSUME NEW n \in 0 .. MaxInput, Update(n) PROVE Exact' /\ OutExact'
  <2>1. /\ alg' = alg /\ fed' = fed + n /\ rest = 0 /\ rest' = n /\ out' = NoDigest
        /\ ctx' = IF alg = "sha512" THEN [ctx EXCEPT !.t = CountBits(ctx.t, n)] ELSE ctx
    BY <1>3 DEF Update, Idle
  <2>2. n \in Nat /\ fed' - rest' = N /\ N = fed
    BY <1>0, <2>1, WordAssumption DEF N
  <2>3. ~(out'.n >= 0)
    BY <2>1 DEF NoDigest
  <2>4. ASSUME ctx'.clean PROVE Holds(alg, ctx', N) /\ Counted(alg, ctx', fed + n)
    <3>1. CASE alg = "sha512"
      <4>1. /\ ctx'.h = ctx.h /\ ctx'.buf = ctx.buf /\ ctx'.buflen = ctx.buflen
            /\ ctx'.clean = ctx.clean /\ ctx'.t = CountBits(ctx.t, n)
        BY <1>0, <2>1, <3>1 DEF HashObject
      <4>2. Holds(alg, ctx, N) /\ Counted(alg, ctx, fed)
        BY <1>a, <2>4, <4>1
      <4>3. Holds(alg, ctx', N)
        BY <4>1, <4>2 DEF Holds
      <4>4. ctx.t \in Words /\ Value(ctx.t) = (8 * fed) % (Word * Word)
        BY <3>1, <4>2 DEF Counted
      <4>5. ctx'.t \in Words /\ Value(ctx'.t) = (Value(ctx.t) + 8 * n) % (Word * Word)
        BY <2>2, <4>1, <4>4, CountBitsExact
      <4> DEFINE y == Word * Word
                 e == 8 * fed
                 b == 8 * n
      <4>6. y \in Nat \ {0}
        BY <4>4, ValueRange
      <4> HIDE DEF y
      <4>7. e \in Int /\ b \in Int /\ e + b = 8 * (fed + n)
        BY <1>0, <2>2
      <4> HIDE DEF e, b
      <4>8. ((e % y) + b) % y = (e + b) % y
        BY <4>6, <4>7, RemainderOfSum
      <4>9. Value(ctx'.t) = (8 * (fed + n)) % (Word * Word)
        BY <4>4, <4>5, <4>7, <4>8 DEF e, b, y
      <4> QED
        BY <3>1, <4>3, <4>5, <4>9 DEF Counted
    <3>2. CASE alg # "sha512"
      <4>1. ctx' = ctx
        BY <2>1, <3>2
      <4>2. Holds(alg, ctx, N) /\ Counted(alg, ctx, fed)
        BY <1>a, <2>4, <4>1
      <4> QED
        BY <3>2, <4>1, <4>2 DEF Counted
    <3> QED
      BY <3>1, <3>2
  <2>5. ctx'.clean => Holds(alg', ctx', fed' - rest') /\ Counted(alg', ctx', fed')
    BY <2>1, <2>2, <2>4
  <2>6. Exact'
    BY <2>5 DEF Exact, Holds, Counted, InputBlocks, BlockCounters, NextAt, Value, Words
  <2> QED
    BY <2>3, <2>6 DEF OutExact
<1>4. CASE Blake2bFill
  <2> DEFINE k    == 2 * Block - ctx.buflen
             full == Copied(ctx.buf, ctx.buflen, k, Next1)
             t    == Blake2bIncrement(ctx.t, Block)
             d    == [ctx EXCEPT !.t = t,
                                 !.h = Blake2bCompress(ctx.h, FirstBlock(full), t, ctx.f),
                                 !.buf = MovedDown(full, Block),
                                 !.buflen = Block]
  <2>1. alg = "blake2b" /\ rest > k /\ Absorb(d, k)
    BY <1>4 DEF Blake2bFill
  <2>2. k \in Nat /\ ctx.buflen + k = 2 * Block /\ k \in 0 .. rest
    <3>1. PICK b : b = ctx.buflen
      OBVIOUS
    <3>2. b \in 0 .. 2 * Block /\ Block \in Nat /\ rest \in Nat /\ rest > 2 * Block - b
      BY <1>0, <2>1, <3>1 DEF MaxFill
    <3>3. 2 * Block - b \in Nat /\ b + (2 * Block - b) = 2 * Block /\ 2 * Block - b \in 0 .. rest
      BY ONLY <3>2
    <3> QED
      BY <3>1, <3>3
  <2>3. d \in HashObject(alg)
    BY <1>b, <2>1 DEF Absorb
  <2>4. /\ d.buflen = Block /\ d.t = t /\ d.buf = MovedDown(full, Block) /\ d.clean = ctx.clean
        /\ d.h = Compressed(ctx.h, FirstBlock(full), t, ctx.f)
    BY <1>0 DEF HashObject, Blake2bCompress
  <2>5. full = Copied(ctx.buf, ctx.buflen, k, N + 1) /\ t = AddWords(ctx.t, Block)
    BY <1>0 DEF Blake2bIncrement
  <2> HIDE DEF d, full, t, k
  <2>6. ASSUME ctx.clean PROVE Holds(alg, d, N + k) /\ Counted(alg, d, fed)
    BY <1>0, <1>a, <2>1, <2>2, <2>3, <2>4, <2>5, <2>6, FirstOfTwoTaken
  <2>7. ctx.clean => Holds(alg, d, (fed - rest) + k) /\ Counted(alg, d, fed)
    BY <2>6 DEF N
  <2> QED
    BY <2>1, <2>2, <2>4, <2>7, AbsorbExact
<1>5. CASE Blake2bKeep
  <2> DEFINE buf1 == Copied(ctx.buf, ctx.buflen, rest, Next1)
             d == [ctx EXCEPT !.buf = buf1, !.buflen = @ + rest]
  <2>1. alg = "blake2b" /\ rest <= 2 * Block - ctx.buflen /\ Absorb(d, rest)
    BY <1>5 DEF Blake2bKeep
  <2>2. rest \in 0 .. rest /\ ctx.buflen + rest <= BufSize(alg)
    BY <1>0, <2>1 DEF BufSize
  <2>3. d \in HashObject(alg)
    BY <1>b, <2>1 DEF Absorb
  <2>4. /\ d.h = ctx.h /\ d.t = ctx.t /\ d.buf = buf1 /\ d.buflen = ctx.buflen + rest
        /\ d.clean = ctx.clean
    BY <1>0 DEF HashObject
  <2>5. buf1 = Copied(ctx.buf, ctx.buflen, rest, N + 1)
    BY <1>0
  <2> HIDE DEF d, buf1
  <2>6. ASSUME ctx.clean PROVE Holds(alg, d, N + rest) /\ Counted(alg, d, fed)
    BY <1>0, <1>a, <2>2, <2>3, <2>4, <2>5, <2>6, InputKept
  <2>7. ctx.clean => Holds(alg, d, (fed - rest) + rest) /\ Counted(alg, d, fed)
    BY <2>6 DEF N
  <2> QED
    BY <2>1, <2>2, <2>4, <2>7, AbsorbExact
<1>6. CASE Sha512Take
  <2> DEFINE k    == IF Block - ctx.buflen > rest THEN rest ELSE Block - ctx.buflen
             buf1 == Copied(ctx.buf, ctx.buflen, k, Next1)
             t    == <<0, 0>>
             full == [ctx EXCEPT !.buf = buf1, !.buflen = 0,
                                 !.h = Compressed(ctx.h, FirstBlock(buf1), t, FALSE)]
             kept == [ctx EXCEPT !.buf = buf1, !.buflen = @ + k]
             d    == IF ctx.buflen + k = Block THEN full ELSE kept
  <2>1. alg = "sha512" /\ Absorb(d, k)
    BY <1>6 DEF Sha512Take, Sha512Transform
  <2>2. k \in Nat /\ k \in 0 .. rest /\ ctx.buflen + k <= BufSize(alg)
    <3>1. BufSize(alg) = Block /\ MaxFill(alg) = Block - 1
      BY <2>1 DEF BufSize, MaxFill
    <3>2. PICK w : w = ctx.buflen
      OBVIOUS
    <3>3. w \in 0 .. Block - 1 /\ Block \in Nat /\ rest \in Nat
      BY <1>0, <3>1, <3>2
    <3>4. k = IF Block - w > rest THEN rest ELSE Block - w
      BY <3>2
    <3> HIDE DEF k
    <3>5. k \in Nat /\ k \in 0 .. rest /\ w + k <= Block
      BY ONLY <3>3, <3>4
    <3> QED
      BY <3>1, <3>2, <3>5
  <2>3. d \in HashObject(alg)
    <3> HIDE DEF d
    <3> QED
      BY <1>b, <2>1 DEF Absorb
  <2>4. buf1 = Copied(ctx.buf, ctx.buflen, k, N + 1)
    BY <1>0
  <2> HIDE DEF k, buf1, t
  <2>5. d.clean = ctx.clean /\ d.t = ctx.t
    BY <1>0 DEF HashObject
  <2>6. ASSUME ctx.clean, ctx.buflen + k = Block
        PROVE  Holds(alg, d, N + k) /\ Counted(alg, d, fed)
    <3>1. PICK f, m : f = FALSE /\ m = FirstBlock(buf1)
      OBVIOUS
    <3>2. /\ d.buflen = 0 /\ d.h = Compressed(ctx.h, m, t, f)
      BY <1>0, <2>6, <3>1 DEF HashObject
    <3> HIDE DEF d
    <3>3. Holds(alg, d, N + k)
      <4>1. PICK e : e = ctx.buflen + k
        OBVIOUS
      <4>2. alg # "blake2b" /\ e = Block /\ Holds(alg, ctx, N)
        BY <1>a, <2>1, <2>6, <4>1
      <4> QED
        BY <1>0, <2>2, <2>3, <2>4, <3>1, <3>2, <4>1, <4>2, BlockTaken
    <3>4. Counted(alg, d, fed)
      BY <1>a, <2>1, <2>5, <2>6, CountedKept
    <3> QED
      BY <3>3, <3>4
  <2>7. ASSUME ctx.clean, ctx.buflen + k # Block
        PROVE  Holds(alg, d, N + k) /\ Counted(alg, d, fed)
    <3>1. d.h = ctx.h /\ d.buf = buf1 /\ d.buflen = ctx.buflen + k
      BY <1>0, <2>7 DEF HashObject
    <3> HIDE DEF d
    <3> QED
      BY <1>0, <1>a, <2>2, <2>3, <2>4, <2>5, <2>7, <3>1, InputKept
  <2> HIDE DEF d
  <2>8. ctx.clean => Holds(alg, d, (fed - rest) + k) /\ Counted(alg, d, fed)
    BY <2>6, <2>7 DEF N
  <2> QED
    BY <2>1, <2>2, <2>5, <2>8, AbsorbExact
<1>7. CASE Sha256Byte
  <2> DEFINE buf1 == Copied(ctx.buf, ctx.buflen, 1, Next1)
             z    == <<0, 0>>
             full == [ctx EXCEPT !.buf = buf1, !.buflen = 0, !.t = AddBits(@, Block),
                                 !.h = Compressed(ctx.h, FirstBlock(buf1), z, FALSE)]
             kept == [ctx EXCEPT !.buf = buf1, !.buflen = @ + 1]
             d    == IF ctx.buflen + 1 = Block THEN full ELSE kept
  <2>1. alg = "sha256" /\ rest > 0 /\ Absorb(d, 1)
    BY <1>7 DEF Sha256Byte, Sha256Transform
  <2>2. 1 \in Nat /\ 1 \in 0 .. rest /\ ctx.buflen + 1 <= BufSize(alg)
    BY <1>0, <2>1 DEF BufSize, MaxFill
  <2>3. d \in HashObject(alg)
    <3> HIDE DEF d
    <3> QED
      BY <1>b, <2>1 DEF Absorb
  <2>4. buf1 = Copied(ctx.buf, ctx.buflen, 1, N + 1)
    BY <1>0
  <2> HIDE DEF buf1, z
  <2>5. d.clean = ctx.clean
    BY <1>0 DEF HashObject
  <2>6. ASSUME ctx.clean, ctx.buflen + 1 = Block
        PROVE  Holds(alg, d, N + 1) /\ Counted(alg, d, fed)
    <3>1. PICK f, m : f = FALSE /\ m = FirstBlock(buf1)
      OBVIOUS
    <3>2. /\ d.buflen = 0 /\ d.h = Compressed(ctx.h, m, z, f)
          /\ d.t = AddBits(ctx.t, Block)
      BY <1>0, <2>6, <3>1 DEF HashObject
    <3> HIDE DEF d
    <3>3. Holds(alg, d, N + 1) /\ NextAt(d.h) = NextAt(ctx.h) + Block
      <4>1. PICK k, e : k \in Nat /\ k = 1 /\ e = ctx.buflen + k
        OBVIOUS
      <4>2. alg # "blake2b" /\ e = Block /\ buf1 = Copied(ctx.buf, ctx.buflen, k, N + 1)
        BY <2>1, <2>4, <2>6, <4>1
      <4>3. Holds(alg, ctx, N)
        BY <1>a, <2>6
      <4>4. Holds(alg, d, N + k)
        BY <1>0, <2>3, <3>1, <3>2, <4>1, <4>2, <4>3, BlockTaken
      <4>5. NextAt(d.h) = NextAt(ctx.h) + Block
        BY <1>0, <3>2, CompressedFields
      <4> QED
        BY <4>1, <4>4, <4>5
    <3>4. Counted(alg, d, fed)
      BY <1>0, <1>a, <2>1, <2>6, <3>2, <3>3, BlockCounted
    <3> QED
      BY <3>3, <3>4
  <2>7. ASSUME ctx.clean, ctx.buflen + 1 # Block
        PROVE  Holds(alg, d, N + 1) /\ Counted(alg, d, fed)
    <3>1. d.h = ctx.h /\ d.t = ctx.t /\ d.buf = buf1 /\ d.buflen = ctx.buflen + 1
      BY <1>0, <2>7 DEF HashObject
    <3> HIDE DEF d
    <3> QED
      BY <1>0, <1>a, <2>2, <2>3, <2>4, <2>7, <3>1, InputKept
  <2> HIDE DEF d
  <2>8. ctx.clean => Holds(alg, d, (fed - rest) + 1) /\ Counted(alg, d, fed)
    BY <2>6, <2>7 DEF N
  <2> QED
    BY <2>1, <2>2, <2>5, <2>8, AbsorbExact
<1>8. CASE Poly1305Complete
  <2> DEFINE k    == IF Block - ctx.buflen > rest THEN rest ELSE Block - ctx.buflen
             buf1 == Copied(ctx.buf, ctx.buflen, k, Next1)
             z    == <<0, 0>>
             kept == [ctx EXCEPT !.buf = buf1, !.buflen = @ + k]
             full == [ctx EXCEPT !.buf = buf1, !.buflen = 0,
                                 !.h = Compressed(ctx.h, FirstBlock(buf1), z, ctx.f)]
             d    == IF ctx.buflen + k < Block THEN kept ELSE full
  <2>1. alg = "poly1305" /\ Absorb(d, k)
    BY <1>8 DEF Poly1305Complete, Poly1305Blocks
  <2>2. /\ k \in Nat /\ k \in 0 .. rest /\ ctx.buflen + k <= BufSize(alg)
        /\ ~(ctx.buflen + k < Block) => ctx.buflen + k = Block
    <3>1. PICK b, m : b = ctx.buflen /\ m = k
      OBVIOUS
    <3>2. /\ b \in 0 .. Block - 1 /\ Block \in Nat /\ rest \in Nat /\ BufSize(alg) = Block
          /\ m = IF Block - b > rest THEN rest ELSE Block - b
      BY <1>0, <2>1, <3>1 DEF BufSize, MaxFill
    <3>3. m \in Nat /\ m \in 0 .. rest /\ b + m <= Block /\ (~(b + m < Block) => b + m = Block)
      BY ONLY <3>2
    <3> QED
      BY <3>1, <3>2, <3>3
  <2>3. d \in HashObject(alg)
    <3> HIDE DEF d
    <3> QED
      BY <1>b, <2>1 DEF Absorb
  <2>4. buf1 = Copied(ctx.buf, ctx.buflen, k, N + 1)
    BY <1>0
  <2> HIDE DEF k, buf1, z
  <2>5. d.clean = ctx.clean /\ d.t = ctx.t
    BY <1>0 DEF HashObject
  <2>6. ASSUME ctx.clean, ~(ctx.buflen + k < Block)
        PROVE  Holds(alg, d, N + k) /\ Counted(alg, d, fed)
    <3>1. PICK f, m : f = FALSE /\ m = FirstBlock(buf1)
      OBVIOUS
    <3>2. /\ d.buflen = 0 /\ d.h = Compressed(ctx.h, m, z, f)
      BY <1>0, <2>6, <3>1 DEF HashObject
    <3> HIDE DEF d
    <3>3. Holds(alg, d, N + k)
      <4>1. PICK e : e = ctx.buflen + k
        OBVIOUS
      <4>2. alg # "blake2b" /\ e = Block /\ Holds(alg, ctx, N)
        BY <1>a, <2>1, <2>2, <2>6, <4>1
      <4> QED
        BY <1>0, <2>2, <2>3, <2>4, <3>1, <3>2, <4>1, <4>2, BlockTaken
    <3>4. Counted(alg, d, fed)
      BY <1>a, <2>1, <2>5, <2>6, CountedKept
    <3> QED
      BY <3>3, <3>4
  <2>7. ASSUME ctx.clean, ctx.buflen + k < Block
        PROVE  Holds(alg, d, N + k) /\ Counted(alg, d, fed)
    <3>1. d.h = ctx.h /\ d.buf = buf1 /\ d.buflen = ctx.buflen + k
      BY <1>0, <2>7 DEF HashObject
    <3> HIDE DEF d
    <3> QED
      BY <1>0, <1>a, <2>2, <2>3, <2>4, <2>5, <2>7, <3>1, InputKept
  <2> HIDE DEF d
  <2>8. ctx.clean => Holds(alg, d, (fed - rest) + k) /\ Counted(alg, d, fed)
    BY <2>6, <2>7 DEF N
  <2> QED
    BY <2>1, <2>2, <2>5, <2>8, AbsorbExact
<1>9. CASE Poly1305Whole
  <2> DEFINE m == [j \in 0 .. Block - 1 |-> Next1 + j]
             z == <<0, 0>>
             d == [ctx EXCEPT !.h = Compressed(ctx.h, m, z, ctx.f)]
  <2>1. alg = "poly1305" /\ ctx.buflen = 0 /\ rest >= Block /\ Absorb(d, Block)
    BY <1>9 DEF Poly1305Whole, Poly1305Blocks
  <2>2. Block \in 0 .. rest
    BY <1>0, <2>1
  <2>3. d \in HashObject(alg)
    <3> HIDE DEF d
    <3> QED
      BY <1>b, <2>1 DEF Absorb
  <2>4. m = [j \in 0 .. Block - 1 |-> (N + 1) + j]
    BY <1>0
  <2> HIDE DEF m, z
  <2>5. PICK f : f = FALSE
    OBVIOUS
  <2>6. /\ d.clean = ctx.clean /\ d.t = ctx.t /\ d.buflen = 0
        /\ d.h = Compressed(ctx.h, m, z, f)
    BY <1>0, <2>1, <2>5 DEF HashObject
  <2> HIDE DEF d
  <2>7. ASSUME ctx.clean PROVE Holds(alg, d, N + Block) /\ Counted(alg, d, fed)
    <3>1. Holds(alg, d, N + Block)
      BY <1>0, <1>a, <2>1, <2>3, <2>4, <2>5, <2>6, <2>7, WholeBlockTaken
    <3>2. Counted(alg, d, fed)
      BY <1>a, <2>1, <2>6, <2>7, CountedKept
    <3> QED
      BY <3>1, <3>2
  <2>8. ctx.clean => Holds(alg, d, (fed - rest) + Block) /\ Counted(alg, d, fed)
    BY <2>7 DEF N
  <2> QED
    BY <2>1, <2>2, <2>6, <2>8, AbsorbExact
<1>10. CASE Poly1305Keep
  <2> DEFINE buf1 == Copied(ctx.buf, ctx.buflen, rest, Next1)
             d == [ctx EXCEPT !.buf = Copied(ctx.buf, 0, rest, Next1), !.buflen = rest]
  <2>1. alg = "poly1305" /\ ctx.buflen = 0 /\ rest < Block /\ Absorb(d, rest)
    BY <1>10 DEF Poly1305Keep
  <2>2. rest \in 0 .. rest /\ ctx.buflen + rest <= BufSize(alg) /\ ctx.buflen + rest = rest
    BY <1>0, <2>1 DEF BufSize
  <2>3. d \in HashObject(alg)
    BY <1>b, <2>1 DEF Absorb
  <2>4. /\ d.h = ctx.h /\ d.t = ctx.t /\ d.buf = buf1 /\ d.buflen = ctx.buflen + rest
        /\ d.clean = ctx.clean
    BY <1>0, <2>1, <2>2 DEF HashObject
  <2>5. buf1 = Copied(ctx.buf, ctx.buflen, rest, N + 1)
    BY <1>0
  <2> HIDE DEF d, buf1
  <2>6. ASSUME ctx.clean PROVE Holds(alg, d, N + rest) /\ Counted(alg, d, fed)
    BY <1>0, <1>a, <2>2, <2>3, <2>4, <2>5, <2>6, InputKept
  <2>7. ctx.clean => Holds(alg, d, (fed - rest) + rest) /\ Counted(alg, d, fed)
    BY <2>6 DEF N
  <2> QED
    BY <2>1, <2>2, <2>4, <2>7, AbsorbExact
<1>c. ASSUME Idle PROVE ctx.clean => Holds(alg, ctx, fed) /\ Counted(alg, ctx, fed)
  <2>1. N = fed
    BY <1>0, <1>c DEF Idle, N
  <2> QED
    BY <1>a, <2>1
<1>d. \A old : /\ Holds(alg, Wiped(alg), 0) /\ Counted(alg, Wiped(alg), 0)
              /\ Holds(alg, Fresh(alg, old), 0) /\ Counted(alg, Fresh(alg, old), 0)
  BY <1>0, InitHolds
<1>11. CASE Blake2bFinal
  <2>1. Idle /\ alg = "blake2b" /\ Finished(Blake2bFinalBlocks(ctx), Wiped(alg))
    BY <1>11 DEF Blake2bFinal
  <2>2. PICK h : h = Blake2bFinalBlocks(ctx)
    OBVIOUS
  <2>3. ctx.clean => Spells(alg, h, fed) /\ CountersOf(alg, h, fed)
    BY <1>0, <1>c, <2>1, <2>2, Blake2bFinalExact
  <2> QED
    BY <1>d, <2>1, <2>2, <2>3, FinishedExact
<1>12. CASE Sha512Final
  <2>1. Idle /\ alg = "sha512" /\ Finished(Sha512FinalBlocks(ctx), Wiped(alg))
    BY <1>12 DEF Sha512Final
  <2>2. PICK h : h = Sha512FinalBlocks(ctx)
    OBVIOUS
  <2>3. ctx.clean => Spells(alg, h, fed) /\ CountersOf(alg, h, fed)
    BY <1>0, <1>c, <2>1, <2>2, Sha512FinalExact
  <2> QED
    BY <1>d, <2>1, <2>2, <2>3, FinishedExact
<1>13. CASE Poly1305Finish
  <2>1. Idle /\ alg = "poly1305" /\ Finished(Poly1305FinalBlocks(ctx), Wiped(alg))
    BY <1>13 DEF Poly1305Finish
  <2>2. PICK h : h = Poly1305FinalBlocks(ctx)
    OBVIOUS
  <2>3. ctx.clean => Spells(alg, h, fed) /\ CountersOf(alg, h, fed)
    BY <1>0, <1>c, <2>1, <2>2, Poly1305FinalExact
  <2> QED
    BY <1>d, <2>1, <2>2, <2>3, FinishedExact
<1>14. CASE Sha256Summary
  <2>1. Idle /\ alg = "sha256"
        /\ Finished(Sha256Padded(ctx).h, Fresh(alg, Sha256Padded(ctx).buf))
    BY <1>14 DEF Sha256Summary
  <2>2. PICK h, b : h = Sha256Padded(ctx).h /\ b = Sha256Padded(ctx).buf
    OBVIOUS
  <2>3. ctx.clean => Spells(alg, h, fed) /\ CountersOf(alg, h, fed)
    BY <1>0, <1>c, <2>1, <2>2, Sha256FinalExact
  <2>4. PICK d : d = Fresh(alg, b) /\ Holds(alg, d, 0) /\ Counted(alg, d, 0)
    BY <1>d
  <2> QED
    BY <2>1, <2>2, <2>3, <2>4, FinishedExact
<1>15. CASE Sha256OversizedSummary
  <2>1. /\ alg' = alg /\ out' = out
        /\ ctx' = [Sha256Padded(ctx) EXCEPT !.clean = FALSE]
    BY <1>15 DEF Sha256OversizedSummary
  <2>2. ctx'.clean = FALSE
    BY <2>1 DEF Sha256Padded, HashObject
  <2>4. out'.n >= 0 /\ out'.clean => Spells(alg', out'.h, out'.n) /\ CountersOf(alg', out'.h, out'.n)
    BY <2>1 DEF OutExact
  <2>5. OutExact'
    BY <2>4 DEF OutExact, Spells, CountersOf, LastBlockAt, PaddedByte, Value
  <2> QED
    BY <2>2, <2>5 DEF Exact
<1> QED
  BY <1>1, <1>2, <1>3, <1>4, <1>5, <1>6, <1>7, <1>8, <1>9, <1>10, <1>11, <1>12, <1>13,
     <1>14, <1>15 DEF HashNext

\* The inductive invariant, and that it is one.
HashInv == HashTypeOK /\ Exact /\ OutExact

\* Every object holds the input it was fed, whatever the calls were.
THEOREM HashInvariant == HashSpec => []HashInv
<1>1. HashInit => Exact /\ OutExact
  <2> SUFFICES ASSUME HashInit PROVE Exact /\ OutExact
    OBVIOUS
  <2>1. /\ alg \in Algorithm /\ rest = 0 /\ out = NoDigest
        /\ \/ ctx = Fresh(alg, Zeros(alg)) /\ fed = 0
           \/ alg = "blake2b" /\ ctx = Keyed(alg) /\ fed = Block
    BY DEF HashInit
  <2>2. Holds(alg, ctx, fed) /\ Counted(alg, ctx, fed)
    BY <2>1, InitHolds
  <2>3. fed - rest = fed
    BY <2>1, BlockAssumption
  <2>4. ~(out.n >= 0)
    BY <2>1 DEF NoDigest
  <2> QED
    BY <2>2, <2>3, <2>4 DEF Exact, OutExact
<1>2. HashTypeOK /\ HashTypeOK' /\ Exact /\ OutExact /\ [HashNext]_hashVars
        => Exact' /\ OutExact'
  BY ExactStep
<1> QED
  BY <1>1, <1>2, HashTypeCorrect, PTL DEF HashSpec, HashInv

\* A digest is that of exactly the bytes fed since the last init or final.
THEOREM DigestsAreOfInput == HashSpec => []DigestIsOfInput
<1>1. HashInv => DigestIsOfInput
  BY DEF HashInv, OutExact, DigestIsOfInput
<1> QED
  BY <1>1, HashInvariant, PTL

\* The counters and the lengths in a digest are exact, carries included.
THEOREM CountersAreExact == HashSpec => []CountersExact
<1>1. HashInv => CountersExact
  BY DEF HashInv, OutExact, CountersExact, CountersOf
<1> QED
  BY <1>1, HashInvariant, PTL

============================================================================
