---------------------------- MODULE SecretStream ----------------------------
(***************************************************************************)
(* The symmetric calls of naion.h over memory: the XChaCha20, XSalsa20 and *)
(* ietf ChaCha20 stream loops, secretbox / box afternm (mac || cipher),    *)
(* its detached forms, the AEAD (cipher || mac) and Ed25519's combined     *)
(* signatures (sig || message).  A caller may pass buffers that overlap.   *)
(*                                                                         *)
(* One call is made on one memory; a step is one block of a stream loop,   *)
(* one MAC, or one copy.  A memory cell is a base value with the set of    *)
(* keystream bytes xored into it, so that xor undoes itself.               *)
(***************************************************************************)
EXTENDS Integers, Sequences, FiniteSets

CONSTANTS
  Half,      \* bytes of block 0 that go into the MAC key: 32 of 64
  MacLen,    \* bytes of a MAC: 16, and of half a signature: 32
  Ctr32,     \* values of a counter word: 2^32
  MsgLens,   \* lengths of messages
  Shifts     \* output address minus input address

\* A length is a size_t, which both counter words together count far beyond.  The
\* shifts are such that the caller's memory does not reach into what malloc returned.
ASSUME StreamAssumption ==
  /\ Half \in Nat \ {0} /\ MacLen \in Nat \ {0}
  /\ Ctr32 \in Nat /\ Ctr32 >= 2
  /\ MsgLens \subseteq Nat /\ Shifts \subseteq Int
  /\ \A n \in MsgLens : n <= 2 * Half * (Ctr32 * (Ctr32 - 1))
  /\ \E far \in MsgLens :
       /\ \A n \in MsgLens : n <= far
       /\ \A s \in Shifts : -(far + 2 * MacLen) <= s /\ s <= far + 4 * MacLen

VARIABLES
  mem,    \* the memory
  call,   \* the call being made, with its arguments
  todo,   \* where the call stands
  used    \* keystream bytes xored into data so far

streamVars == <<mem, call, todo, used>>

Block64 == 2 * Half

Smaller(a, b) == IF a < b THEN a ELSE b

Cell(b, ks, of) == [b |-> b, ks |-> ks, of |-> of]
ZeroCell == Cell(0, {}, <<>>)
Plain(i) == Cell(i + 1, {}, <<>>)
Xored(cell, k) ==
  [cell EXCEPT !.ks = IF k \in @ THEN @ \ {k} ELSE @ \cup {k}]

(***************************************************************************)
(* The block functions.  Subkey derivation and the rounds are symbolic:    *)
(* byte i of a block is named by the function, subkey and counter.         *)
(***************************************************************************)
HSalsa20(k) == <<"hsalsa20", k>>
Salsa20Block(sub, ctr, i) == [rounds |-> "salsa20", sub |-> sub, ctr |-> ctr, i |-> i]
HChaCha20(k) == <<"hchacha20", k>>
ChaCha20Block(sub, ctr, i) == [rounds |-> "chacha20", sub |-> sub, ctr |-> ctr, i |-> i]

KeyByte(fam, ctr, i) ==
  IF fam = "xsalsa20" THEN Salsa20Block(HSalsa20("key and nonce"), ctr, i)
                      ELSE ChaCha20Block(HChaCha20("key and nonce"), ctr, i)

\* The first half of block 0 is Poly1305's one-time key.
MacKeyByte(fam, i) == KeyByte(fam, <<0, 0>>, i)
MacKey(fam) == [i \in 1 .. Half |-> Cell(0, {MacKeyByte(fam, i - 1)}, <<>>)]

Poly1305(fam, cells, i) == Cell(-1 - i, {}, MacKey(fam) \o cells)

\* n cells of m from address a.
Cells(m, a, n) == [i \in 1 .. n |-> m[a + i - 1]]

(***************************************************************************)
(* for (i = 0; i < take; i++) c[i] = m[i] ^ block[from + i], one byte       *)
(* after the other.                                                        *)
(***************************************************************************)
XorRun(m, src, dst, take, fam, ctr, from) ==
  LET f[n \in 0 .. take] ==
        IF n = 0 THEN m
        ELSE [f[n - 1] EXCEPT
                ![dst + n - 1] = Xored(f[n - 1][src + n - 1], KeyByte(fam, ctr, from + n - 1))]
  IN  f[take]

KeyBytes(fam, ctr, from, take) == {KeyByte(fam, ctr, i) : i \in from .. from + take - 1}

\* memcpy of what was read before.
Stored(m, dst, cells) ==
  [a \in DOMAIN m |-> IF dst <= a /\ a < dst + Len(cells) THEN cells[a - dst + 1] ELSE m[a]]

(***************************************************************************)
(* Reference layouts: where each byte of a sealed message comes from when  *)
(* the keystream is one sequence of bytes, block after block.              *)
(***************************************************************************)
Linear(fam, p) ==
  LET c == p \div Block64 IN KeyByte(fam, <<c % Ctr32, c \div Ctr32>>, p % Block64)

BoxCipher(fam, n) == [i \in 1 .. n |-> Xored(Plain(i - 1), Linear(fam, Half + i - 1))]
AeadCipher(n) == [i \in 1 .. n |-> Xored(Plain(i - 1), Linear("ietf", Block64 + i - 1))]
Macs(fam, cells) == [i \in 1 .. MacLen |-> Poly1305(fam, cells, i)]

BoxOf(fam, n) == Macs(fam, BoxCipher(fam, n)) \o BoxCipher(fam, n)
AeadOf(n) == AeadCipher(n) \o Macs("ietf", AeadCipher(n))
Message(n) == [i \in 1 .. n |-> Plain(i - 1)]

\* A signature is the two halves made of the message; the second is of the first.
SigHalf(which, cells) == [i \in 1 .. MacLen |-> Cell(-100 * which - i, {}, cells)]
SignedOf(n) == SigHalf(1, Message(n)) \o SigHalf(2, SigHalf(1, Message(n)) \o Message(n))
                 \o Message(n)

(***************************************************************************)
(* The calls.  Input starts at address 0; an opening call finds a sealed   *)
(* message there, perhaps with one cell changed.                           *)
(***************************************************************************)
Ops == {"xor", "seal", "open", "seal_detached", "open_detached",
        "aead_seal", "aead_open", "sign", "sign_open"}

Families(op) ==
  CASE op \in {"aead_seal", "aead_open"} -> {"ietf"}
    [] op \in {"sign", "sign_open"} -> {"ed25519"}
    [] OTHER -> {"xchacha20", "xsalsa20"}

InputOf(op, fam, n) ==
  CASE op \in {"open", "open_detached"} -> BoxOf(fam, n)
    [] op = "aead_open" -> AeadOf(n)
    [] op = "sign_open" -> SignedOf(n)
    [] OTHER -> Message(n)

Opening(op) == op \in {"open", "open_detached", "aead_open", "sign_open"}

\* A changed cell holds what no cell of a sealed message does.
Changed(cells, at) == [i \in DOMAIN cells |-> IF i = at THEN ZeroCell ELSE cells[i]]

Addresses ==
  LET far == CHOOSE n \in MsgLens : \A o \in MsgLens : o <= n
  IN  -(far + 3 * MacLen) .. 3 * (far + 3 * MacLen)

\* detached calls work in a combined buffer that malloc returned.
Scratch ==
  LET far == CHOOSE n \in MsgLens : \A o \in MsgLens : o <= n
  IN  2 * (far + 3 * MacLen)

\* The first phase, and where the loop that comes then reads, writes and counts.
Start(op, fam, n, shift) ==
  LET At(phase, src, dst, left, ctr) ==
        [phase |-> phase, src |-> src, dst |-> dst, left |-> left, ctr |-> ctr, first |-> <<>>]
  IN  CASE op = "xor" -> At("stream", 0, shift, n, <<Ctr32 - 1, 0>>)
        [] op = "seal" -> At("first", 0, shift, n, <<0, 0>>)
        [] op = "seal_detached" -> At("first", 0, Scratch, n, <<0, 0>>)
        [] op = "open" -> At("verify", 0, shift, n, <<0, 0>>)
        [] op = "open_detached" -> At("gather", Scratch, shift, n, <<0, 0>>)
        [] op = "aead_seal" -> At("stream", 0, shift, n, <<1, 0>>)
        [] op = "aead_open" -> At("verify", 0, shift, n, <<1, 0>>)
        [] op = "sign" -> At("sig1", 0, shift, n, <<0, 0>>)
        [] op = "sign_open" -> At("verify", 0, shift, n, <<0, 0>>)

StreamInit ==
  /\ \E op \in Ops, n \in MsgLens, shift \in Shifts : \E fam \in Families(op) :
       \E at \in {0} \cup (IF Opening(op) THEN 1 .. Len(InputOf(op, fam, n)) ELSE {}) :
         /\ call = [op |-> op, fam |-> fam, n |-> n, shift |-> shift, bad |-> at # 0,
                    input |-> Changed(InputOf(op, fam, n), at)]
         /\ todo = Start(op, fam, n, shift)
  /\ mem = Stored([a \in Addresses |-> ZeroCell], 0, call.input)
  /\ used = {}

Keep == UNCHANGED call

Phase(p) == todo' = [todo EXCEPT !.phase = p]

\* Mutant: the carry into the second word is forgotten.
CarryLost(ctr) == <<(ctr[1] + 1) % Ctr32, ctr[2]>>

(***************************************************************************)
(* One block of a stream loop.  The XChaCha20 and XSalsa20 counters are 64 *)
(* bits in two words, the ietf counter one word.                           *)
(***************************************************************************)
Carry(ctr) ==
  LET lo == (ctr[1] + 1) % Ctr32
  IN  <<lo, IF lo = 0 THEN (ctr[2] + 1) % Ctr32 ELSE ctr[2]>>

Wrap(ctr) == <<(ctr[1] + 1) % Ctr32, 0>>

LoopBlock(next) ==
  LET take == Smaller(todo.left, Block64)
  IN  /\ todo.phase = "stream" /\ todo.left > 0
      /\ mem' = XorRun(mem, todo.src, todo.dst, take, call.fam, todo.ctr, 0)
      /\ used' = used \cup KeyBytes(call.fam, todo.ctr, 0, take)
      /\ todo' = [todo EXCEPT !.src = @ + take, !.dst = @ + take, !.left = @ - take,
                              !.ctr = next]
      /\ Keep

XChaCha20Block == call.fam = "xchacha20" /\ LoopBlock(Carry(todo.ctr))
XSalsa20Block == call.fam = "xsalsa20" /\ LoopBlock(Carry(todo.ctr))
IetfBlock == call.fam = "ietf" /\ LoopBlock(Wrap(todo.ctr))

StreamEnd ==
  /\ todo.phase = "stream" /\ todo.left = 0
  /\ Phase(CASE call.op \in {"seal", "seal_detached", "aead_seal"} -> "mac"
             [] OTHER -> "done")
  /\ UNCHANGED <<mem, used>> /\ Keep

\* Mutant: the stream behind the first bytes starts at block 0 again.
EasyFirstAgain ==
  LET take  == Smaller(todo.left, Half)
      block == [i \in 1 .. take |-> Xored(mem[todo.src + i - 1],
                                          KeyByte(call.fam, <<0, 0>>, Half + i - 1))]
  IN  /\ todo.phase = "first" /\ ~Opening(call.op)
      /\ mem' = Stored(mem, todo.dst + MacLen, block)
      /\ used' = used \cup KeyBytes(call.fam, <<0, 0>>, Half, take)
      /\ todo' = [todo EXCEPT !.phase = "stream", !.src = @ + take,
                              !.dst = @ + MacLen + take, !.left = @ - take]
      /\ Keep

(***************************************************************************)
(* easy_afternm: up to Half bytes are copied behind the MAC key's bytes in *)
(* block 0 before anything is written; the rest is streamed from block 1;  *)
(* the MAC is taken over what was written and stored in front of it.       *)
(***************************************************************************)
EasyFirst ==
  LET take  == Smaller(todo.left, Half)
      block == [i \in 1 .. take |-> Xored(mem[todo.src + i - 1],
                                          KeyByte(call.fam, <<0, 0>>, Half + i - 1))]
  IN  /\ todo.phase = "first" /\ ~Opening(call.op)
      /\ mem' = Stored(mem, todo.dst + MacLen, block)
      /\ used' = used \cup KeyBytes(call.fam, <<0, 0>>, Half, take)
      /\ todo' = [todo EXCEPT !.phase = "stream", !.src = @ + take,
                              !.dst = @ + MacLen + take, !.left = @ - take, !.ctr = <<1, 0>>]
      /\ Keep

BoxAt == IF call.op = "seal_detached" THEN Scratch ELSE call.shift

EasyMac ==
  /\ todo.phase = "mac" /\ call.op \in {"seal", "seal_detached"}
  /\ mem' = Stored(mem, BoxAt, Macs(call.fam, Cells(mem, BoxAt + MacLen, call.n)))
  /\ Phase(IF call.op = "seal_detached" THEN "scatter" ELSE "done")
  /\ UNCHANGED used /\ Keep

(***************************************************************************)
(* open_easy_afternm: the first cipher bytes are copied, the MAC is        *)
(* verified, and only then is anything written.                            *)
(***************************************************************************)
OpenVerify ==
  LET cipher == Cells(mem, todo.src + MacLen, call.n)
      take   == Smaller(call.n, Half)
  IN  /\ todo.phase = "verify" /\ call.op \in {"open", "open_detached"}
      /\ todo' = IF Cells(mem, todo.src, MacLen) = Macs(call.fam, cipher)
                 THEN [todo EXCEPT !.phase = "first",
                         !.first = [i \in 1 .. take |->
                                      Xored(cipher[i], KeyByte(call.fam, <<0, 0>>, Half + i - 1))]]
                 ELSE [todo EXCEPT !.phase = "rejected"]
      /\ UNCHANGED <<mem, used>> /\ Keep

OpenFirst ==
  LET take == Len(todo.first)
  IN  /\ todo.phase = "first" /\ Opening(call.op)
      /\ mem' = Stored(mem, todo.dst, todo.first)
      /\ used' = used \cup KeyBytes(call.fam, <<0, 0>>, Half, take)
      /\ todo' = [todo EXCEPT !.phase = "stream", !.src = @ + MacLen + take,
                              !.dst = @ + take, !.left = @ - take, !.ctr = <<1, 0>>]
      /\ Keep

(***************************************************************************)
(* The detached forms go through a combined buffer of their own.           *)
(***************************************************************************)
SealScatter ==
  /\ todo.phase = "scatter"
  /\ mem' = Stored(Stored(mem, call.shift - MacLen, Cells(mem, Scratch, MacLen)),
                   call.shift, Cells(mem, Scratch + MacLen, call.n))
  /\ Phase("done")
  /\ UNCHANGED used /\ Keep

OpenGather ==
  /\ todo.phase = "gather"
  /\ mem' = Stored(mem, Scratch, Cells(mem, 0, MacLen + call.n))
  /\ Phase("verify")
  /\ UNCHANGED used /\ Keep

(***************************************************************************)
(* The AEAD: data from block 1 on, the MAC behind the cipher.              *)
(***************************************************************************)
AeadMac ==
  /\ todo.phase = "mac" /\ call.op = "aead_seal"
  /\ mem' = Stored(mem, call.shift + call.n, Macs("ietf", Cells(mem, call.shift, call.n)))
  /\ Phase("done")
  /\ UNCHANGED used /\ Keep

\* Mutant: the tag is not compared.
AeadVerifyNothing ==
  /\ todo.phase = "verify" /\ call.op = "aead_open"
  /\ Phase("stream")
  /\ UNCHANGED <<mem, used>> /\ Keep

AeadVerify ==
  /\ todo.phase = "verify" /\ call.op = "aead_open"
  /\ Phase(IF Cells(mem, call.n, MacLen) = Macs("ietf", Cells(mem, 0, call.n))
           THEN "stream" ELSE "rejected")
  /\ UNCHANGED <<mem, used>> /\ Keep

(***************************************************************************)
(* naion_sign_ed25519: the signature is written in front in two halves,    *)
(* each made from the message as it then is; then the message is moved.    *)
(* To open, the second half is made again from the first and the message,  *)
(* and only then is the message moved.                                     *)
(***************************************************************************)
SignR ==
  /\ todo.phase = "sig1"
  /\ mem' = Stored(mem, call.shift, SigHalf(1, Cells(mem, 0, call.n)))
  /\ Phase("sig2")
  /\ UNCHANGED used /\ Keep

SignS ==
  /\ todo.phase = "sig2"
  /\ mem' = Stored(mem, call.shift + MacLen,
                   SigHalf(2, Cells(mem, call.shift, MacLen) \o Cells(mem, 0, call.n)))
  /\ Phase("move")
  /\ UNCHANGED used /\ Keep

SignMove ==
  /\ todo.phase = "move"
  /\ mem' = Stored(mem, call.shift + 2 * MacLen, Cells(mem, 0, call.n))
  /\ Phase("done")
  /\ UNCHANGED used /\ Keep

SignVerify ==
  LET sig == SigHalf(2, Cells(mem, 0, MacLen) \o Cells(mem, 2 * MacLen, call.n))
  IN  /\ todo.phase = "verify" /\ call.op = "sign_open"
      /\ Phase(IF Cells(mem, MacLen, MacLen) = sig THEN "release" ELSE "rejected")
      /\ UNCHANGED <<mem, used>> /\ Keep

SignRelease ==
  /\ todo.phase = "release"
  /\ mem' = Stored(mem, call.shift, Cells(mem, 2 * MacLen, call.n))
  /\ Phase("done")
  /\ UNCHANGED used /\ Keep

\* Both families have these calls, each with its own copy of the code.
XChaCha20Easy == call.fam = "xchacha20" /\ (EasyFirst \/ EasyMac)
XSalsa20Easy == call.fam = "xsalsa20" /\ (EasyFirst \/ EasyMac)
XChaCha20OpenEasy == call.fam = "xchacha20" /\ (OpenVerify \/ OpenFirst)
XSalsa20OpenEasy == call.fam = "xsalsa20" /\ (OpenVerify \/ OpenFirst)
XChaCha20Detached == call.fam = "xchacha20" /\ SealScatter
XSalsa20Detached == call.fam = "xsalsa20" /\ SealScatter
XChaCha20OpenDetached == call.fam = "xchacha20" /\ OpenGather
XSalsa20OpenDetached == call.fam = "xsalsa20" /\ OpenGather

StreamNext ==
  \/ XChaCha20Block \/ XSalsa20Block \/ IetfBlock \/ StreamEnd
  \/ XChaCha20Easy \/ XSalsa20Easy \/ XChaCha20OpenEasy \/ XSalsa20OpenEasy
  \/ XChaCha20Detached \/ XSalsa20Detached
  \/ XChaCha20OpenDetached \/ XSalsa20OpenDetached
  \/ AeadMac \/ AeadVerify
  \/ SignR \/ SignS \/ SignMove \/ SignVerify \/ SignRelease

StreamSpec == StreamInit /\ [][StreamNext]_streamVars

(***************************************************************************)
(* Properties.                                                             *)
(***************************************************************************)
\* The output does not get in the way of input that is still to be read: it is
\* apart from it, or runs behind it.  Detached seals and short boxes never do.
Behind(ahead) == call.shift + ahead <= 0 \/ call.shift >= Len(call.input)

LayoutAllowed ==
  CASE call.op = "seal" -> Behind(MacLen) \/ call.n <= Half
    [] call.op = "open" -> Behind(-MacLen) \/ call.n <= Half
    [] call.op \in {"aead_seal", "aead_open", "xor"} -> Behind(0)
    [] call.op = "sign" -> \/ call.shift >= Len(call.input) \/ call.shift + 2 * MacLen <= 0
    [] OTHER -> TRUE

\* The ietf counter is 32 bits and nothing limits the length.
CounterAllowed == call.op \in {"aead_seal", "aead_open"} => call.n <= Block64 * (Ctr32 - 1)

Output ==
  CASE call.op = "xor" -> [i \in 1 .. call.n |->
                             Xored(Plain(i - 1), Linear(call.fam, (Ctr32 - 1) * Block64 + i - 1))]
    [] call.op \in {"seal", "seal_detached"} -> BoxOf(call.fam, call.n)
    [] call.op = "aead_seal" -> AeadOf(call.n)
    [] call.op = "sign" -> SignedOf(call.n)
    [] Opening(call.op) -> Message(call.n)

OutputAt == IF call.op = "seal_detached" THEN call.shift - MacLen ELSE call.shift

\* A call that returns has written the wire layout, or the plaintext, byte for byte,
\* also where input and output overlap: in place, and for boxes also with the output
\* up to a MAC behind or ahead.  Detached, combined and in-place forms agree.
OutputRight ==
  todo.phase = "done" /\ LayoutAllowed /\ CounterAllowed =>
    Cells(mem, OutputAt, Len(Output)) = Output

\* No byte of plaintext is released before the MAC was verified: a message with any
\* byte changed is rejected and the caller's memory is as it was, an unchanged one
\* is accepted.
NothingBeforeVerified ==
  Opening(call.op) =>
    /\ todo.phase \in {"gather", "verify", "rejected"} =>
         \A a \in Addresses : a < Scratch =>
           mem[a] = IF 0 <= a /\ a < Len(call.input) THEN call.input[a + 1] ELSE ZeroCell
    /\ todo.phase \in {"first", "stream", "release", "done"} => ~call.bad
    /\ todo.phase = "rejected" => call.bad

\* No byte of keystream covers two bytes of data, and none that covers data is a
\* byte of the MAC's key.
KeystreamOnce ==
  CounterAllowed /\ call.fam # "ed25519" =>
    /\ todo.phase = "done" => Cardinality(used) = call.n
    /\ call.op # "xor" => \A i \in 0 .. Half - 1 : MacKeyByte(call.fam, i) \notin used

=============================================================================
