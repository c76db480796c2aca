------------------------------- MODULE Codecs -------------------------------
(***************************************************************************)
(* The two variable-length codecs of strings.hpp, Length (UTF-8 style) and *)
(* Leb128.  Bytes have Bits bits (8 in the code), from which every width   *)
(* and bound of the code follows.  A writer appends encoded values to one  *)
(* buffer, a reader decodes them off its front; the buffer may also be cut *)
(* short, or hold bytes that no encoder wrote.                             *)
(***************************************************************************)
EXTENDS Integers, Sequences

CONSTANTS
  Bits,         \* width of a byte
  Values,       \* what the writer tries to encode, refused values included
  MaxWritten,   \* values in one buffer
  MaxJunk       \* bytes in a buffer that nobody encoded

\* The values are signed integers of Bits bytes: an int64_t of 8.
ASSUME BitsAssumption ==
  /\ Bits \in Nat /\ Bits > 4 /\ MaxWritten \in Nat /\ MaxJunk \in Nat
  /\ Values \subseteq Int /\ \A v \in Values : v < 2^(Bits * Bits - 1)

VARIABLES
  codec,
  wire,      \* the bytes not yet read
  ending,    \* history: whether wire ends with a whole value, a cut one or junk
  todo,      \* history: the values whose whole encodings wire begins with
  asked,     \* history: the last value to encode, and whether it was encoded
  last       \* the last decoding and the buffer it was given

codecVars == <<codec, wire, ending, todo, asked, last>>

Byte == 0 .. 2^Bits - 1
MinOf(S) == CHOOSE x \in S : \A y \in S : x <= y

Error == [ok |-> FALSE, value |-> 0, nBytes |-> 0]
Got(v, n) == [ok |-> TRUE, value |-> v, nBytes |-> n]

(***************************************************************************)
(* Length: one byte below 2^(Bits-1); else a header of n ones, a zero and  *)
(* the high bits, and n - 1 bytes that start with 10 (Bits - 2 bits each). *)
(***************************************************************************)
TailBits == Bits - 2
Group(v, i) == (v \div 2^(TailBits * i)) % 2^TailBits

\* Mutant: the header is taken to hold one bit more than it does.
TailBytesFewer(v) ==
  MinOf({i \in 1 .. Bits - 2 : v \div 2^(TailBits * i) < 2^(Bits - i - 1)}
        \cup {Bits - 1})

\* The loop stops after the first i tail bytes that leave what the header can
\* hold; from Bits - 2 tail bytes on the number is refused.
TailBytes(v) ==
  MinOf({i \in 1 .. Bits - 2 : v \div 2^(TailBits * i) < 2^(Bits - i - 2)}
        \cup {Bits - 1})

LengthInRange(v) == v >= 0 /\ v < 2^((Bits - 1) * (Bits - 2))

LengthEncode(v) ==
  IF v < 2^(Bits - 1) THEN [ok |-> LengthInRange(v), bytes |-> <<v>>]
  ELSE LET k == TailBytes(v)
       IN  IF ~LengthInRange(v) \/ k + 1 > Bits - 2 THEN [ok |-> FALSE, bytes |-> <<>>]
           ELSE [ok |-> TRUE,
                 bytes |-> [j \in 1 .. k + 1 |->
                    IF j = 1 THEN (2^(k + 1) - 1) * 2^(Bits - k - 1) + v \div 2^(TailBits * k)
                             ELSE 2^(Bits - 1) + Group(v, k + 1 - j)]]

\* The number of leading ones, 0 when the first Bits - 1 bits are all set.
HeaderBytes(h) ==
  LET zeros == {i \in 0 .. Bits - 2 : (h \div 2^(Bits - 1 - i)) % 2 = 0}
  IN  IF zeros = {} THEN 0 ELSE MinOf(zeros)

LengthDecode(s) ==
  IF s = <<>> THEN Error
  ELSE IF s[1] < 2^(Bits - 1) THEN Got(s[1], 1)
  ELSE LET n == HeaderBytes(s[1])
           tail[i \in 1 .. n] ==
             IF i = 1 THEN s[1] % 2^(Bits - n) ELSE tail[i - 1] * 2^TailBits + (s[i] % 2^TailBits)
       IN  IF n = 0 \/ Len(s) < n \/ \E i \in 2 .. n : s[i] \div 2^TailBits # 2 THEN Error
           ELSE Got(tail[n], n)

(***************************************************************************)
(* Leb128: Bits - 1 bits per byte, low ones first, the top bit set on all  *)
(* but the last; at most Bits + 1 bytes.                                   *)
(***************************************************************************)
Payload == Bits - 1
MaxLeb == Bits + 1

LebBytes(v) == MinOf({n \in 1 .. MaxLeb + 1 : v < 2^(Payload * n)})

LebEncode(v) ==
  [ok |-> v >= 0,
   bytes |-> [j \in 1 .. LebBytes(v) |->
                ((v \div 2^(Payload * (j - 1))) % 2^Payload)
                + IF j < LebBytes(v) THEN 2^Payload ELSE 0]]

\* A byte with the top bit clear ends the number, the tenth byte is an error.
LebDecode(s) ==
  LET ends == {i \in 1 .. Len(s) : i <= MaxLeb /\ s[i] < 2^Payload}
      sum[i \in 0 .. Len(s)] ==
        IF i = 0 THEN 0 ELSE sum[i - 1] + (s[i] % 2^Payload) * 2^(Payload * (i - 1))
  IN  IF ends = {} THEN Error ELSE Got(sum[MinOf(ends)], MinOf(ends))

Encode(v) == IF codec = "length" THEN LengthEncode(v) ELSE LebEncode(v)
Decode(s) == IF codec = "length" THEN LengthDecode(s) ELSE LebDecode(s)

(***************************************************************************)
NoReading == [given |-> <<>>, got |-> Error, expected |-> <<>>, end |-> "whole"]

CodecInit ==
  /\ codec \in {"length", "leb128"}
  /\ \/ wire = <<>> /\ ending = "whole"
     \/ wire \in UNION {[1 .. n -> Byte] : n \in 1 .. MaxJunk} /\ ending = "junk"
  /\ todo = <<>>
  /\ asked = [value |-> 0, ok |-> TRUE]
  /\ last = NoReading

\* The buffer is written before it is read.
Write(v) ==
  /\ ending = "whole"
  /\ last = NoReading
  /\ Len(todo) < MaxWritten
  /\ asked' = [value |-> v, ok |-> Encode(v).ok]
  /\ IF Encode(v).ok THEN wire' = wire \o Encode(v).bytes /\ todo' = Append(todo, v)
                     ELSE UNCHANGED <<wire, todo>>
  /\ UNCHANGED <<codec, ending, last>>

\* The transport loses the last byte, and with it the end of the last value.
Cut ==
  /\ ending = "whole"
  /\ last = NoReading
  /\ todo # <<>>
  /\ wire' = SubSeq(wire, 1, Len(wire) - 1)
  /\ todo' = SubSeq(todo, 1, Len(todo) - 1)
  /\ ending' = "cut"
  /\ UNCHANGED <<codec, asked, last>>

\* The reader goes on after the bytes it was told, or gives the buffer up.
Read ==
  LET r == Decode(wire)
  IN  /\ last' = [given |-> wire, got |-> r, expected |-> todo, end |-> ending]
      /\ wire' = IF r.ok THEN SubSeq(wire, r.nBytes + 1, Len(wire)) ELSE <<>>
      /\ todo' = IF todo = <<>> THEN <<>> ELSE Tail(todo)
      /\ UNCHANGED <<codec, ending, asked>>

CodecNext == (\E v \in Values : Write(v)) \/ Cut \/ Read

CodecSpec == CodecInit /\ [][CodecNext]_codecVars

-----------------------------------------------------------------------------
(***************************************************************************)
(* Values written one after the other come back in order, each with the    *)
(* length of its own encoding, whatever follows it; a value whose last     *)
(* byte is missing is refused, as is an empty buffer; and no buffer, not   *)
(* even junk, makes a decoder claim more bytes than it was given.          *)
(* Nothing negative is encoded and, by Length, nothing beyond its range    *)
(* check.  Leb128 encodes all the rest, Length at least what fits in 31    *)
(* bits (here of the same shape); whether it encodes what lies between     *)
(* those and its range check is left out.                                  *)
(***************************************************************************)
CodecsAgree ==
  /\ last.expected # <<>> =>
       last.got = Got(Head(last.expected), Len(Encode(Head(last.expected)).bytes))
  /\ last.expected = <<>> /\ last.end # "junk" => ~last.got.ok
  /\ last.got.ok => last.got.nBytes \in 1 .. Len(last.given) /\ last.got.value >= 0
  /\ asked.ok => asked.value >= 0 /\ (codec = "length" => LengthInRange(asked.value))
  /\ asked.value >= 0 /\ (codec = "length" => asked.value < 2^(TailBits * (Bits - 3) + 1)) =>
       asked.ok

=============================================================================
