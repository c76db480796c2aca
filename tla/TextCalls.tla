----------------------------- MODULE TextCalls ------------------------------
(***************************************************************************)
(* What strings.hpp does with texts: binary data written as hexadecimal,   *)
(* as Base64 and as URL-safe Base64, and ReplaceAll with the Split and     *)
(* Join it is made of.  A byte has 4 * Unit bits (Unit is 2 in the code),  *)
(* so that a hexadecimal digit has 2 * Unit and a Base64 digit 3 * Unit.   *)
(***************************************************************************)
EXTENDS Integers, Sequences

Sets == INSTANCE FiniteSetsExt
Seqs == INSTANCE SequencesExt

CONSTANTS
  Unit,
  TextBytes,    \* the bytes data is made of
  MaxData,      \* bytes of data
  Letters,      \* the characters of texts and delimiters
  Strings,      \* delimiters and replacements
  MaxText       \* characters of a text that is split

ASSUME TextAssumption ==
  /\ Unit \in Nat \ {0} /\ MaxData \in Nat /\ MaxText \in Nat
  /\ TextBytes \subseteq 0 .. 2^(4 * Unit) - 1 /\ Strings \subseteq Seq(Letters)

VARIABLES
  form,       \* which calls: hex, base64, urlsafe, or replace
  data,       \* the Stream to encode
  text,       \* its encoding, or the text to split
  damage,     \* history: what happened to the encoding on its way
  outcome     \* the last result

textVars == <<form, data, text, damage, outcome>>

Ok(v) == [ok |-> TRUE, out |-> v]
Err == [ok |-> FALSE, out |-> <<>>]

(***************************************************************************)
(* The symbols of an encoding: its digits, the twins of the two highest    *)
(* ones (- and _ for + and /, e and f for E and F; the other letters of    *)
(* hexadecimal are like them), the padding, and everything else.           *)
(***************************************************************************)
Base(f) == IF f = "hex" THEN 2^(2 * Unit) ELSE 2^(3 * Unit)
Twins(f) == {Base(f), Base(f) + 1}
Pad(f) == Base(f) + 2
Foreign(f) == Base(f) + 3

DigitOf(f, c) == IF c \in Twins(f) THEN c - 2 ELSE c
TwinOf(f, c) == IF c + 2 \in Twins(f) THEN c + 2 ELSE c

Hexlify(in) ==
  IF in = <<>> THEN Err
  ELSE Ok([i \in 1 .. 2 * Len(in) |->
             IF i % 2 = 1 THEN in[(i + 1) \div 2] \div Base("hex") ELSE in[i \div 2] % Base("hex")])

UnHexlify(in) ==
  IF Len(in) % 2 # 0 \/ \E i \in 1 .. Len(in) : in[i] \notin 0 .. Base("hex") + 1 THEN Err
  ELSE Ok([i \in 1 .. Len(in) \div 2 |->
             DigitOf("hex", in[2 * i - 1]) * Base("hex") + DigitOf("hex", in[2 * i])])

\* Digit i of a block of three bytes, and byte i of a block of four digits.
DigitOfBlock(b, i) ==
  CASE i = 0 -> b[1] \div 2^Unit
    [] i = 1 -> (b[1] % 2^Unit) * 2^(2 * Unit) + b[2] \div 2^(2 * Unit)
    [] i = 2 -> (b[2] % 2^(2 * Unit)) * 2^Unit + b[3] \div 2^(3 * Unit)
    [] i = 3 -> b[3] % 2^(3 * Unit)
ByteOfBlock(d, i) ==
  CASE i = 0 -> d[1] * 2^Unit + d[2] \div 2^(2 * Unit)
    [] i = 1 -> (d[2] % 2^(2 * Unit)) * 2^(2 * Unit) + d[3] \div 2^Unit
    [] i = 2 -> (d[3] % 2^Unit) * 2^(3 * Unit) + d[4]

\* Block k of a sequence, completed with zeros.  The decoder completes its last
\* block with the table's entry of the zero byte; no byte it keeps depends on that.
Block(s, k, n) == [i \in 1 .. n |-> IF k * n + i <= Len(s) THEN s[k * n + i] ELSE 0]

Base64Encode(in) ==
  LET digits == Len(in) + (Len(in) + 2) \div 3     \* four for three bytes
  IN  IF in = <<>> THEN Err
      ELSE Ok([i \in 1 .. 4 * ((Len(in) + 2) \div 3) |->
                 IF i <= digits THEN DigitOfBlock(Block(in, (i - 1) \div 4, 3), (i - 1) % 4)
                                ELSE Pad("base64")])

\* Mutant: of two padding symbols only the last is noticed.
PaddingLast(in) == IF in[Len(in)] # Pad("base64") THEN 0 ELSE 1

\* The padding at the end of a text whose length is a multiple of four.
Padding(in) ==
  IF in[Len(in)] # Pad("base64") THEN 0
  ELSE IF in[Len(in) - 1] = Pad("base64") THEN 2 ELSE 1

Base64Decode(in) ==
  IF in = <<>> \/ Len(in) % 4 # 0 THEN Err
  ELSE LET digits == SubSeq(in, 1, Len(in) - Padding(in))
       IN  IF \E i \in 1 .. Len(digits) : digits[i] \notin 0 .. Base("base64") - 1 THEN Err
           ELSE Ok([j \in 1 .. (3 * Len(digits)) \div 4 |->
                      ByteOfBlock(Block(digits, (j - 1) \div 3, 4), (j - 1) % 3)])

\* The text ends where the first padding symbol is.
UrlSafeBase64Encode(in) ==
  LET e == Base64Encode(in)
      pads == {i \in 1 .. Len(e.out) : e.out[i] = Pad("base64")}
      unpadded == IF pads = {} THEN e.out ELSE SubSeq(e.out, 1, Sets!Min(pads) - 1)
  IN  IF ~e.ok THEN Err ELSE Ok([i \in 1 .. Len(unpadded) |-> TwinOf("base64", unpadded[i])])

UrlSafeBase64Decode(in) ==
  LET missing == (4 - (Len(in) % 4)) % 4
  IN  Base64Decode([i \in 1 .. Len(in) + missing |->
                      IF i > Len(in) THEN Pad("base64") ELSE DigitOf("base64", in[i])])

EncodeAs(f, in) ==
  CASE f = "hex" -> Hexlify(in) [] f = "base64" -> Base64Encode(in)
    [] f = "urlsafe" -> UrlSafeBase64Encode(in)
DecodeAs(f, in) ==
  CASE f = "hex" -> UnHexlify(in) [] f = "base64" -> Base64Decode(in)
    [] f = "urlsafe" -> UrlSafeBase64Decode(in)

(***************************************************************************)
(* Split looks for the delimiter from where the last one ended, and stops  *)
(* when nothing is left to look at.                                        *)
(***************************************************************************)
Matches(s, d, prev) == {p \in prev .. Len(s) - Len(d) + 1 : SubSeq(s, p, p + Len(d) - 1) = d}

\* Mutant: the search goes on one character behind the last delimiter's place.
SplitOverlapping(s, d) ==
  LET from[prev \in 1 .. Len(s) + 1] ==
        LET pos == IF Matches(s, d, prev) = {} THEN Len(s) + 1 ELSE Sets!Min(Matches(s, d, prev))
        IN  <<SubSeq(s, prev, pos - 1)>>
            \o IF pos + 1 <= Len(s) THEN from[pos + 1] ELSE <<>>
  IN  IF d = <<>> THEN <<s>> ELSE from[1]

Split(s, d) ==
  LET from[prev \in 1 .. Len(s) + 1] ==
        LET pos == IF Matches(s, d, prev) = {} THEN Len(s) + 1 ELSE Sets!Min(Matches(s, d, prev))
        IN  <<SubSeq(s, prev, pos - 1)>>
            \o IF pos + Len(d) <= Len(s) THEN from[pos + Len(d)] ELSE <<>>
  IN  IF d = <<>> THEN <<s>> ELSE from[1]

\* A delimiter is added behind every part, and the last one taken off again.
Join(array, d) ==
  LET buffer[n \in 0 .. Len(array)] == IF n = 0 THEN <<>> ELSE buffer[n - 1] \o (array[n] \o d)
      all == buffer[Len(array)]
  IN  IF array = <<>> THEN <<>> ELSE SubSeq(all, 1, Len(all) - Len(d))

ReplaceAll(s, from, to) == IF from = <<>> THEN s ELSE Join(Split(s, from), to)

(***************************************************************************)
TextInit ==
  /\ form \in {"hex", "base64", "urlsafe", "replace"}
  /\ data = <<>> /\ text = <<>> /\ damage = "none"
  /\ outcome = [call |-> "none"]

Produce(b) ==
  /\ form # "replace" /\ outcome.call = "none" /\ text = <<>>
  /\ Len(data) < MaxData
  /\ data' = Append(data, b)
  /\ UNCHANGED <<form, text, damage, outcome>>

EncodeText ==
  /\ form # "replace" /\ outcome.call = "none" /\ text = <<>>
  /\ text' = EncodeAs(form, data).out
  /\ outcome' = [call |-> "encode", ok |-> EncodeAs(form, data).ok]
  /\ UNCHANGED <<form, data, damage>>

\* On its way the text loses its end, or one symbol is changed to another.
Shorten ==
  /\ outcome.call = "encode" /\ text # <<>> /\ damage = "none"
  /\ text' = Seqs!Front(text)
  /\ damage' = "cut"
  /\ UNCHANGED <<form, data, outcome>>

Alter(i, c) ==
  /\ outcome.call = "encode" /\ i <= Len(text) /\ damage = "none" /\ text[i] # c
  /\ text' = [text EXCEPT ![i] = c]
  /\ damage' = CASE c = Foreign(form) -> "foreign" [] c = Pad(form) -> "pad" [] OTHER -> "digit"
  /\ UNCHANGED <<form, data, outcome>>

DecodeText ==
  /\ outcome.call = "encode" /\ outcome.ok
  /\ outcome' = [call |-> "decode", got |-> DecodeAs(form, text)]
  /\ UNCHANGED <<form, data, text, damage>>

Type(c) ==
  /\ form = "replace" /\ outcome.call = "none"
  /\ Len(text) < MaxText
  /\ text' = Append(text, c)
  /\ UNCHANGED <<form, data, damage, outcome>>

Replace(from, to) ==
  /\ form = "replace" /\ outcome.call = "none"
  /\ outcome' = [call |-> "replace", from |-> from, to |-> to, out |-> ReplaceAll(text, from, to)]
  /\ UNCHANGED <<form, data, text, damage>>

TextNext ==
  \/ \E b \in TextBytes : Produce(b)
  \/ EncodeText
  \/ Shorten
  \/ \E i \in 1 .. 2 * MaxData + 2, c \in {Base(form), Pad(form), Foreign(form)} : Alter(i, c)
  \/ DecodeText
  \/ \E c \in Letters : Type(c)
  \/ \E from, to \in Strings : Replace(from, to)

TextSpec == TextInit /\ [][TextNext]_textVars

-----------------------------------------------------------------------------
\* Data that is not empty comes back as it was.  A text that lost its end or has
\* padding where a digit was is refused or gives a proper part of the beginning
\* of the data (only the padded form of Base64 and hexadecimal notice every loss),
\* a foreign symbol is always refused, and another digit never changes the length.
EncodedSurvives ==
  outcome.call = "decode" =>
    LET got == outcome.got
    IN  CASE damage = "none" -> got.ok /\ got.out = data
          [] damage = "cut" ->
               got.ok => form = "urlsafe" /\ got.out = Seqs!Front(data)
          [] damage = "pad" -> got.ok => form # "hex" /\ got.out # data /\ Seqs!IsPrefix(got.out, data)
          [] damage = "foreign" -> ~got.ok
          [] damage = "digit" -> got.ok => form # "base64" /\ Len(got.out) = Len(data)

\* Every occurrence from the left replaced, each search starting after the last.
Replaced(s, from, to) ==
  LET rest[i \in 1 .. Len(s) + 1] ==
        IF i > Len(s) THEN <<>>
        ELSE IF i \in Matches(s, from, i) THEN to \o rest[i + Len(from)]
        ELSE <<s[i]>> \o rest[i + 1]
  IN  rest[1]

\* The documentation of ReplaceAll (strings.hpp.md:355) says that it replaces every
\* occurrence.
ReplacesEvery ==
  outcome.call = "replace" /\ outcome.from # <<>> =>
    outcome.out = Replaced(text, outcome.from, outcome.to)

\* In a text that does not end with what is replaced, ReplaceAll replaces every
\* occurrence from the left, through whatever Split and Join make of it on the way;
\* where nothing is to be replaced, the text stays.
PartsSurvive ==
  outcome.call = "replace" =>
    /\ outcome.from = <<>> => outcome.out = text
    /\ outcome.from # <<>> /\ ~Seqs!IsSuffix(outcome.from, text) =>
         outcome.out = Replaced(text, outcome.from, outcome.to)

\* Binary data survives its way through a text, and a text its way through Split
\* and Join if it does not end with the delimiter.
TextsSurvive == EncodedSurvives /\ PartsSurvive

=============================================================================
