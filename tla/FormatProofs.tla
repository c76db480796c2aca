---------------------------- MODULE FormatProofs -----------------------------
(***************************************************************************)
(* Proofs about the formats: AddressRange (net.hpp), PluginPackage         *)
(* (plugins.hpp), Codecs and TextCalls (strings.hpp).  All four are about  *)
(* numbers taken apart with divisions and remainders, those of strings.hpp *)
(* by powers of two; the last part is about texts split and joined.        *)
(***************************************************************************)
EXTENDS AddressRange, PluginPackage, Codecs, TextCalls, TLAPS, FiniteSets,
        FiniteSetTheorems, SequenceTheorems, WellFoundedInduction

(***************************************************************************)
(* Quotients and remainders.                                               *)
(***************************************************************************)
\* A quotient and a remainder make the number.
LEMMA DivMod ==
  ASSUME NEW a \in Int, NEW n \in Nat \ {0}
  PROVE  a = n * (a \div n) + (a % n) /\ a % n \in 0 .. n - 1 /\ a \div n \in Int
OBVIOUS

\* And they are the only ones that do.
LEMMA DivModUnique ==
  ASSUME NEW a \in Int, NEW n \in Nat \ {0}, NEW q \in Int, NEW r \in 0 .. n - 1,
         a = n * q + r
  PROVE  a \div n = q /\ a % n = r
<1> DEFINE p == a \div n
           s == a % n
<1>1. p \in Int /\ s \in 0 .. n - 1 /\ n * p + s = n * q + r
  BY DivMod
<1> HIDE DEF p, s
<1>2. n * (p - q) = r - s
  BY <1>1
<1>3. CASE p - q >= 1
  <2>1. n * (p - q) >= n
    BY <1>1, <1>3
  <2> QED
    BY <1>1, <1>2, <2>1
<1>4. CASE p - q <= -1
  <2>1. n * (p - q) <= -n
    BY <1>1, <1>4
  <2> QED
    BY <1>1, <1>2, <2>1
<1>5. p = q
  BY <1>1, <1>3, <1>4
<1> QED
  BY <1>1, <1>5 DEF p, s

(***************************************************************************)
(* Addresses.                                                              *)
(***************************************************************************)
RangeTypeOK == start \in Address /\ end \in Address /\ meant = start .. end

\* Turning an address around twice gives it back.
LEMMA TransEndianInvolution ==
  ASSUME NEW a \in Address
  PROVE  TransEndian(TransEndian(a)) = a
<1> DEFINE hi == a \div Half
           lo == a % Half
<1>1. Half \in Nat \ {0} /\ a \in Int /\ a \in 0 .. Half * Half - 1
  BY RangeAssumption DEF Address
<1>2. a = Half * hi + lo /\ lo \in 0 .. Half - 1 /\ hi \in Int
  BY <1>1, DivMod
<1> HIDE DEF hi, lo
<1>3. hi \in 0 .. Half - 1
  <2>1. CASE hi >= Half
    <3>1. Half * hi >= Half * Half
      BY <1>1, <1>2, <2>1
    <3> QED
      BY <1>1, <1>2, <3>1
  <2>2. CASE hi <= -1
    <3>1. Half * hi <= -Half
      BY <1>1, <1>2, <2>2
    <3> QED
      BY <1>1, <1>2, <3>1
  <2> QED
    BY <1>1, <1>2, <2>1, <2>2
<1> DEFINE t == lo * Half + hi
<1>4. TransEndian(a) = t
  BY DEF TransEndian, hi, lo
<1>5. t \in Int /\ t = Half * lo + hi
  BY <1>1, <1>2, <1>3
<1> HIDE DEF t
<1>6. t \div Half = lo /\ t % Half = hi
  BY <1>1, <1>2, <1>3, <1>5, DivModUnique
<1> QED
  BY <1>1, <1>2, <1>3, <1>4, <1>6 DEF TransEndian

\* The addresses that agree with one in the bits of a mask are those from the
\* network's to the broadcast address, and both of these are addresses.
LEMMA NetworkIsInterval ==
  ASSUME NEW ip \in Address, NEW mask \in 0 .. Width
  PROVE  /\ NetworkOf(ip, mask) \in Address /\ BroadcastOf(ip, mask) \in Address
         /\ {a \in Address : a \div HostCount[mask] = ip \div HostCount[mask]}
              = NetworkOf(ip, mask) .. BroadcastOf(ip, mask)
<1> DEFINE n == HostCount[mask]
           q == ip \div n
           r == ip % n
           h == HostCount[0]
           k == h \div n
<1>1. n \in Nat \ {0} /\ h = Half * Half /\ h \in Nat \ {0} /\ h % n = 0
  BY RangeAssumption
<1>2. Half * Half \in Int
  BY <1>1
<1>4. ip \in Int /\ ip >= 0 /\ ip < Half * Half
  BY <1>2 DEF Address
<1>5. ip = n * q + r /\ r \in 0 .. n - 1 /\ q \in Int
  BY <1>1, <1>4, DivMod
<1>a. NetworkOf(ip, mask) = ip - r /\ BroadcastOf(ip, mask) = ip - r + n - 1
  BY DEF NetworkOf, BroadcastOf
<1> HIDE DEF n, h, q, r
<1>b. h = n * k + (h % n) /\ k \in Int
  <2>1. h \in Int /\ n \in Nat \ {0}
    BY <1>1
  <2>2. h = n * (h \div n) + (h % n) /\ h \div n \in Int
    BY ONLY <2>1, DivMod
  <2> QED
    BY ONLY <2>2
<1> HIDE DEF k
<1>3. Half * Half = n * k /\ k \in Int
  BY <1>1, <1>b
<1>6. NetworkOf(ip, mask) = n * q /\ BroadcastOf(ip, mask) = n * q + n - 1
  BY <1>1, <1>4, <1>5, <1>a
<1>7. q >= 0
  <2>1. CASE q <= -1
    <3>1. n * q <= -n
      BY <1>1, <1>5, <2>1
    <3> QED
      BY <1>1, <1>4, <1>5, <3>1
  <2> QED
    BY <1>5, <2>1
<1>8. q <= k - 1
  <2>1. CASE q >= k
    <3>1. n * q >= n * k
      BY <1>1, <1>3, <1>5, <2>1
    <3> QED
      BY <1>1, <1>3, <1>4, <1>5, <3>1
  <2> QED
    BY <1>3, <1>5, <2>1
<1>9. n * q >= 0 /\ n * q + n <= n * k
  <2>1. n * q >= 0
    BY <1>1, <1>5, <1>7
  <2>2. n * (q + 1) <= n * k
    BY <1>1, <1>3, <1>5, <1>8
  <2>3. n * (q + 1) = n * q + n
    BY <1>1, <1>5
  <2> QED
    BY <2>1, <2>2, <2>3
<1>10. n * q \in Int
  BY <1>1, <1>5
<1>11. n * q .. n * q + n - 1 \subseteq Address
  BY <1>1, <1>2, <1>3, <1>9, <1>10 DEF Address
<1>12. n * q \in Address /\ n * q + n - 1 \in Address
  BY <1>1, <1>10, <1>11
<1>13. ASSUME NEW a \in Address
       PROVE  a \div n = q <=> a \in n * q .. n * q + n - 1
  <2>1. a \in Int
    BY <1>2 DEF Address
  <2>2. a = n * (a \div n) + (a % n) /\ a % n \in 0 .. n - 1 /\ a \div n \in Int
    BY <1>1, <2>1, DivMod
  <2>3. ASSUME a \div n = q PROVE a \in n * q .. n * q + n - 1
    BY <1>1, <1>10, <2>1, <2>2, <2>3
  <2>4. ASSUME a \in n * q .. n * q + n - 1 PROVE a \div n = q
    <3> DEFINE s == a - n * q
    <3>1. s \in 0 .. n - 1 /\ a = n * q + s
      BY <1>1, <1>10, <2>1, <2>4
    <3> HIDE DEF s
    <3> QED
      BY <1>1, <1>5, <2>1, <3>1, DivModUnique
  <2> QED
    BY <2>3, <2>4
<1>14. {a \in Address : a \div n = q} = n * q .. n * q + n - 1
  BY <1>11, <1>13
<1> QED
  BY <1>6, <1>12, <1>14 DEF n, q

\* Every setter, accepted or refused, by number or by text.
LEMMA SetAddressType ==
  ASSUME RangeTypeOK, NEW s \in Texts, SetAddressAny(s)
  PROVE  RangeTypeOK'
<1>1. Address \subseteq Int
  BY RangeAssumption DEF Address
<1>2. CASE s.form = "single" /\ s.ip \in Address /\ SetSingleIP(s.ip)
  BY <1>1, <1>2 DEF SetSingleIP, SetTo, RangeTypeOK
<1>3. CASE s.form = "range" /\ s.ip \in Address /\ s.ip2 \in Address
           /\ SetAddressRange(s.ip, s.ip2)
  BY <1>1, <1>3 DEF SetAddressRange, SetTo, RangeTypeOK
<1>4. CASE s.form = "mask" /\ s.ip \in Address /\ s.mask \in 0 .. Width + 1
           /\ SetAddressMask(s.ip, s.mask)
  <2>1. CASE ~MaskOk(s.mask)
    BY <1>4, <2>1 DEF SetAddressMask, Refuse, RangeTypeOK
  <2>2. CASE MaskOk(s.mask)
    <3>1. s.mask \in 0 .. Width
      BY <1>4, <2>2, RangeAssumption DEF MaskOk
    <3>2. /\ NetworkOf(s.ip, s.mask) \in Address /\ BroadcastOf(s.ip, s.mask) \in Address
          /\ {a \in Address : a \div HostCount[s.mask] = s.ip \div HostCount[s.mask]}
               = NetworkOf(s.ip, s.mask) .. BroadcastOf(s.ip, s.mask)
      BY <1>4, <3>1, NetworkIsInterval
    <3> QED
      BY <1>4, <2>2, <3>2 DEF SetAddressMask, SetTo, RangeTypeOK
  <2> QED
    BY <2>1, <2>2
<1>5. CASE s.form = "bad" /\ Refuse(s.code)
  BY <1>5 DEF Refuse, RangeTypeOK
<1> QED
  BY <1>2, <1>3, <1>4, <1>5 DEF Texts, SetAddressAny

\* The bounds are addresses, and what was meant is what lies between them.
THEOREM RangeTypeCorrect == RangeSpec => []RangeTypeOK
<1>1. RangeInit => RangeTypeOK
  <2> SUFFICES ASSUME RangeInit PROVE RangeTypeOK
    OBVIOUS
  <2>1. 0 \in Address
    <3>1. Half * Half > 0 /\ Half * Half \in Int
      BY RangeAssumption
    <3> QED
      BY <3>1 DEF Address
  <2> QED
    BY <2>1 DEF RangeInit, RangeTypeOK
<1>2. RangeTypeOK /\ [RangeNext]_rangeVars => RangeTypeOK'
  <2> SUFFICES ASSUME RangeTypeOK, [RangeNext]_rangeVars PROVE RangeTypeOK'
    OBVIOUS
  <2>1. CASE UNCHANGED rangeVars
    BY <2>1 DEF rangeVars, RangeTypeOK
  <2> QED
    BY <2>1, SetAddressType DEF RangeNext
<1> QED
  BY <1>1, <1>2, PTL DEF RangeSpec

\* The membership test, in the caller's byte order, answers what the last accepted
\* call of AddressRange meant, for every width, mask and order of the arguments.
THEOREM RangeMeansWhatWasSet == RangeSpec => []RangeIsWhatWasMeant
<1>1. RangeTypeOK => RangeIsWhatWasMeant
  <2> SUFFICES ASSUME RangeTypeOK PROVE RangeIsWhatWasMeant
    OBVIOUS
  <2>1. ASSUME NEW a \in Address
        PROVE  IsAddressIn(TransEndian(a)) <=> a \in meant
    <3>1. TransEndian(TransEndian(a)) = a /\ a \in Int
      BY TransEndianInvolution, RangeAssumption DEF Address
    <3>2. start \in Int /\ end \in Int /\ meant = start .. end
      BY RangeAssumption DEF RangeTypeOK, Address
    <3> QED
      BY <3>1, <3>2 DEF IsAddressIn
  <2> QED
    BY <2>1 DEF RangeTypeOK, RangeIsWhatWasMeant
<1> QED
  BY <1>1, RangeTypeCorrect, PTL

(***************************************************************************)
(* Packages.                                                               *)
(***************************************************************************)
\* Of two numbers of a word the sum, even one that wraps, is the position of the
\* trailer only when the first is below it and they really add up to it.
LEMMA WrappedSum ==
  ASSUME NEW a \in 0 .. Word - 1, NEW b \in 0 .. Word - 1, NEW t \in 0 .. SizeT - 1,
         a < t, (a + b) % SizeT = t
  PROVE  a + b = t
<1>1. SizeT \in Nat \ {0} /\ Word \in Nat /\ Word <= SizeT
  BY PackageAssumption
<1>2. a + b \in Int /\ t \in Int
  BY <1>1
<1>3. CASE a + b < SizeT
  <2>1. a + b \in 0 .. SizeT - 1 /\ a + b = SizeT * 0 + (a + b)
    BY <1>1, <1>2, <1>3
  <2> QED
    BY <1>1, <1>2, <2>1, DivModUnique
<1>4. CASE a + b >= SizeT
  <2>1. a + b - SizeT \in 0 .. SizeT - 1 /\ a + b = SizeT * 1 + (a + b - SizeT)
    BY <1>1, <1>2, <1>4
  <2>2. a + b - SizeT = t
    BY <1>1, <1>2, <2>1, DivModUnique
  <2> QED
    BY <1>1, <2>2
<1> QED
  BY <1>2, <1>1, <1>3, <1>4

\* A file is accepted or not once and for all: the file does not change, so loading
\* it again cannot take back what a runtime configuration was parsed from.
PackageInv ==
  /\ file \in Files
  /\ package.ok => TrailerAccepted /\ Verified /\ file.json
  /\ PackageSound

\* What a package that is accepted says about its file.
LEMMA LoadSound ==
  ASSUME file \in Files, TrailerAccepted
  PROVE  /\ 0 <= file.cfg_offset /\ file.cfg_offset < file.cfg_offset + file.cfg_size
         /\ file.cfg_offset + file.cfg_size + TrailerSize + SignatureSize = file.size
<1>1. /\ file.size \in 0 .. MaxFile
      /\ file.cfg_offset \in 0 .. Word - 1 /\ file.cfg_size \in 0 .. Word - 1
      /\ {Word, SizeT, TrailerSize, SignatureSize, MaxFile} \subseteq Nat \ {0}
      /\ MaxFile < SizeT
  BY PackageAssumption DEF Files
<1>2. /\ file.size > TrailerSize + SignatureSize /\ file.cfg_size # 0
      /\ file.cfg_offset < TrailerOffset
      /\ (file.cfg_offset + file.cfg_size) % SizeT = TrailerOffset
  BY DEF TrailerAccepted
<1>3. TrailerOffset \in 0 .. SizeT - 1
      /\ TrailerOffset = file.size - SignatureSize - TrailerSize
  BY <1>1, <1>2 DEF TrailerOffset, SignatureOffset
<1>4. file.cfg_offset + file.cfg_size = TrailerOffset
  BY <1>1, <1>2, <1>3, WrappedSum
<1> QED
  BY <1>1, <1>2, <1>3, <1>4

\* What LoadPackageConfig returns lies where a signed file says, between the program
\* and the trailer, in every width of size_t, and no interval is zero.
THEOREM PackagesSound == PackageSpec => []PackageSound
<1>1. PackageInit => PackageInv
  BY DEF PackageInit, PackageInv, PackageSound, NoPackage, NoRuntime
<1>2. PackageInv /\ [PackageNext]_packageVars => PackageInv'
  <2> SUFFICES ASSUME PackageInv, [PackageNext]_packageVars PROVE PackageInv'
    OBVIOUS
  <2>1. CASE UNCHANGED packageVars
    BY <2>1 DEF packageVars, PackageInv, PackageSound, Verified, TrailerAccepted,
               TrailerOffset, SignatureOffset
  <2>2. CASE LoadPackageConfig
    <3>1. file' = file /\ runtime' = runtime
      BY <2>2 DEF LoadPackageConfig
    <3>2. CASE TrailerAccepted /\ Verified /\ file.json
      <4>1. package' = [ok |-> TRUE, from |-> file.cfg_offset,
                        to |-> file.cfg_offset + file.cfg_size]
        BY <2>2, <3>2 DEF LoadPackageConfig
      <4>2. /\ 0 <= package'.from /\ package'.from < package'.to
            /\ package'.to + TrailerSize + SignatureSize = file.size
        BY <3>2, <4>1, LoadSound DEF PackageInv
      <4> QED
        BY <3>1, <3>2, <4>1, <4>2
           DEF PackageInv, PackageSound, Verified, TrailerAccepted, TrailerOffset,
               SignatureOffset
    <3>3. CASE ~(TrailerAccepted /\ Verified /\ file.json)
      <4>1. package' = NoPackage
        BY <2>2, <3>3 DEF LoadPackageConfig
      <4>2. ~package.ok /\ ~runtime.ok
        BY <3>3 DEF PackageInv, PackageSound
      <4> QED
        BY <3>1, <4>1, <4>2 DEF PackageInv, PackageSound, NoPackage
    <3> QED
      BY <3>2, <3>3
  <2>3. CASE ParseRuntimeConfig
    <3> DEFINE n == file.number % Word
    <3>1. n \in 0 .. Word - 1 /\ Word \in Nat \ {0} /\ DefaultInterval \in 1 .. Word - 1
      <4>1. file.number \in Int /\ Word \in Nat \ {0}
        BY PackageAssumption DEF PackageInv, Files
      <4> QED
        BY <4>1, DivMod, PackageAssumption
    <3>2. /\ package.ok /\ file' = file /\ package' = package
          /\ runtime' = [ok |-> TRUE, intervalSeconds |-> IF n = 0 THEN DefaultInterval ELSE n]
      BY <2>3 DEF ParseRuntimeConfig
    <3> HIDE DEF n
    <3>3. runtime'.intervalSeconds > 0
      BY <3>1, <3>2
    <3> QED
      BY <3>2, <3>3 DEF PackageInv, PackageSound, Verified, TrailerAccepted,
                        TrailerOffset, SignatureOffset
  <2> QED
    BY <2>1, <2>2, <2>3 DEF PackageNext
<1> QED
  BY <1>1, <1>2, PTL DEF PackageSpec, PackageInv

(***************************************************************************)
(* Least numbers, induction and powers of two.                             *)
(***************************************************************************)
\* A set of numbers that is not empty has a least one: what every induction below is made of.
LEMMA LeastNumber ==
  ASSUME NEW T, T \subseteq Nat, T # {}
  PROVE  \E n \in T : \A k \in T : n <= k
<1> DEFINE F == {0 .. n : n \in T}
<1>1. \A n \in Nat : IsFiniteSet(0 .. n)
  <2> SUFFICES ASSUME NEW n \in Nat PROVE IsFiniteSet(0 .. n)
    OBVIOUS
  <2>1. 0 .. n \in SUBSET Nat /\ \A s \in 0 .. n : s <= n
    OBVIOUS
  <2> QED BY <2>1, FS_BoundedSetOfNaturals
<1>2. F \subseteq FiniteSubsetsOf(Nat) /\ F # {}
  <2>1. \A n \in T : 0 .. n \subseteq Nat /\ IsFiniteSet(0 .. n)
    BY <1>1
  <2>2. F \subseteq FiniteSubsetsOf(Nat)
    BY <2>1 DEF FiniteSubsetsOf
  <2>3. F # {}
    OBVIOUS
  <2> QED BY <2>2, <2>3
<1>3. PICK x \in F : \A y \in F : ~(<<y, x>> \in StrictSubsetOrdering(Nat))
  <2> HIDE DEF F
  <2>1. IsWellFoundedOn(StrictSubsetOrdering(Nat), FiniteSubsetsOf(Nat))
    BY FS_StrictSubsetOrderingWellFounded
  <2> QED BY <1>2, <2>1, WFMin
<1>4. PICK n \in T : x = 0 .. n
  BY <1>3
<1>5. ASSUME NEW k \in T, k < n PROVE FALSE
  <2>1. 0 .. k \in F /\ k \in Nat /\ n \in Nat
    OBVIOUS
  <2>2. 0 .. k \subseteq 0 .. n /\ 0 .. k # 0 .. n /\ 0 .. k \subseteq Nat /\ 0 .. n \subseteq Nat
    <3>1. n \in 0 .. n /\ n \notin 0 .. k
      BY <1>5, <2>1
    <3> QED BY <1>5, <2>1, <3>1
  <2>3. <<0 .. k, 0 .. n>> \in StrictSubsetOrdering(Nat)
    BY <2>2 DEF StrictSubsetOrdering
  <2> QED BY <1>3, <1>4, <2>1, <2>3
<1>6. \A k \in T : n <= k
  BY <1>5
<1> QED BY <1>4, <1>6

\* A set of numbers that goes on from every number to the next is all of them.
LEMMA SetInduction ==
  ASSUME NEW T, T \subseteq Nat, 0 \in T, \A n \in T : n + 1 \in T
  PROVE  \A n \in Nat : n \in T
<1> SUFFICES ASSUME Nat \ T # {} PROVE FALSE
  OBVIOUS
<1>1. PICK n \in Nat \ T : \A k \in Nat \ T : n <= k
  <2>1. Nat \ T \subseteq Nat
    OBVIOUS
  <2> QED BY <2>1, LeastNumber
<1>2. n # 0 /\ n - 1 \in Nat /\ ~(n <= n - 1)
  BY <1>1
<1>3. n - 1 \in T /\ (n - 1) + 1 = n
  BY <1>1, <1>2
<1> QED BY <1>1, <1>3

\* A power of two is the number of subsets, and one more element doubles it.
LEMMA PowerStep ==
  ASSUME NEW n \in Nat
  PROVE  2^n \in Nat /\ 2^(n + 1) = 2^n + 2^n
<1> DEFINE S == 1 .. n
           T == 1 .. n + 1
           With == {X \cup {n + 1} : X \in SUBSET S}
<1>1. IsFiniteSet(S) /\ Cardinality(S) = n /\ IsFiniteSet(T) /\ Cardinality(T) = n + 1
  <2>1. n + 1 \in Int /\ n \in Int /\ 1 \in Int
    OBVIOUS
  <2>2. Cardinality(S) = n /\ IsFiniteSet(S)
    <3>1. Cardinality(S) = (IF 1 > n THEN 0 ELSE n - 1 + 1) /\ IsFiniteSet(S)
      BY <2>1, FS_Interval
    <3> QED BY <3>1
  <2>3. Cardinality(T) = n + 1 /\ IsFiniteSet(T)
    <3>1. Cardinality(T) = (IF 1 > n + 1 THEN 0 ELSE (n + 1) - 1 + 1) /\ IsFiniteSet(T)
      BY <2>1, FS_Interval
    <3> QED BY <3>1
  <2> QED BY <2>2, <2>3
<1>2. /\ IsFiniteSet(SUBSET S) /\ Cardinality(SUBSET S) = 2^n
      /\ IsFiniteSet(SUBSET T) /\ Cardinality(SUBSET T) = 2^(n + 1)
  <2> HIDE DEF S, T
  <2>1. IsFiniteSet(SUBSET S) /\ Cardinality(SUBSET S) = 2^Cardinality(S)
    BY <1>1, FS_SUBSET
  <2>2. IsFiniteSet(SUBSET T) /\ Cardinality(SUBSET T) = 2^Cardinality(T)
    BY <1>1, FS_SUBSET
  <2> QED BY <1>1, <2>1, <2>2
<1>3. /\ T = S \cup {n + 1} /\ n + 1 \notin S
  OBVIOUS
<1>4. SUBSET T = (SUBSET S) \cup With /\ (SUBSET S) \cap With = {}
  <2> HIDE DEF S, T
  <2>1. ASSUME NEW X \in SUBSET T PROVE X \in (SUBSET S) \cup With
    <3>1. CASE n + 1 \in X
      <4>1. X \ {n + 1} \in SUBSET S /\ X = (X \ {n + 1}) \cup {n + 1}
        BY <1>3, <2>1, <3>1
      <4> QED BY <4>1
    <3>2. CASE n + 1 \notin X
      BY <1>3, <2>1, <3>2
    <3> QED BY <3>1, <3>2
  <2>2. (SUBSET S) \cup With \subseteq SUBSET T
    BY <1>3
  <2>3. ASSUME NEW X \in SUBSET S, X \in With PROVE FALSE
    BY <1>3, <2>3
  <2> QED BY <2>1, <2>2, <2>3
<1>5. ExistsBijection(SUBSET S, With)
  <2> HIDE DEF S, T
  <2> DEFINE b == [X \in SUBSET S |-> X \cup {n + 1}]
  <2>1. b \in [SUBSET S -> With]
    OBVIOUS
  <2>2. \A X, Y \in SUBSET S : b[X] = b[Y] => X = Y
    <3> SUFFICES ASSUME NEW X \in SUBSET S, NEW Y \in SUBSET S, b[X] = b[Y] PROVE X = Y
      OBVIOUS
    <3>1. X \cup {n + 1} = Y \cup {n + 1}
      OBVIOUS
    <3> QED BY <3>1, <1>3
  <2>3. \A Z \in With : \E X \in SUBSET S : b[X] = Z
    OBVIOUS
  <2>4. b \in Bijection(SUBSET S, With)
    <3> HIDE DEF With, b
    <3> QED BY <2>1, <2>2, <2>3 DEF Bijection, Injection, Surjection, IsInjective
  <2> QED BY <2>4 DEF ExistsBijection
<1>6. IsFiniteSet(With) /\ Cardinality(With) = 2^n
  <2> HIDE DEF With, S
  <2> QED BY <1>2, <1>5, FS_Bijection
<1>7. 2^n \in Nat
  <2> HIDE DEF With, S
  <2> QED BY <1>2, FS_CardinalityType
<1>8. 2^(n + 1) = 2^n + 2^n - Cardinality((SUBSET S) \cap With)
  <2> HIDE DEF With, S, T
  <2> QED BY <1>2, <1>4, <1>6, FS_Union
<1>9. Cardinality((SUBSET S) \cap With) = 0
  BY <1>4, FS_EmptySet
<1> QED BY <1>7, <1>8, <1>9

\* The first power.
LEMMA PowerZero == 2^0 = 1
  OBVIOUS

\* Powers of two are positive.
LEMMA PowerPositive ==
  ASSUME NEW n \in Nat
  PROVE  2^n \in Nat \ {0}
<1> DEFINE T == {k \in Nat : 2^k # 0}
<1>1. 0 \in T
  BY PowerZero
<1>2. ASSUME NEW k \in T PROVE k + 1 \in T
  <2>1. k \in Nat /\ k + 1 \in Nat /\ 2^k # 0
    OBVIOUS
  <2>2. 2^k \in Nat /\ 2^(k + 1) = 2^k + 2^k
    BY <2>1, PowerStep
  <2>3. 2^(k + 1) # 0
    BY <2>1, <2>2
  <2> QED BY <2>1, <2>3
<1>3. T \subseteq Nat
  OBVIOUS
<1> HIDE DEF T
<1>4. n \in T
  BY <1>1, <1>2, <1>3, SetInduction
<1> USE DEF T
<1>5. 2^n # 0
  BY <1>4
<1> QED BY <1>5, PowerStep

\* Exponents add up.
LEMMA PowerSum ==
  ASSUME NEW a \in Nat, NEW b \in Nat
  PROVE  2^(a + b) = 2^a * 2^b
<1> DEFINE T == {k \in Nat : 2^(a + k) = 2^a * 2^k}
<1>1. 0 \in T
  <2>1. 2^a \in Nat /\ a + 0 = a
    BY PowerStep
  <2> QED BY <2>1, PowerZero
<1>2. ASSUME NEW k \in T PROVE k + 1 \in T
  <2>1. k \in Nat /\ k + 1 \in Nat /\ a + k \in Nat /\ 2^(a + k) = 2^a * 2^k
    OBVIOUS
  <2>2. 2^k \in Nat /\ 2^(k + 1) = 2^k + 2^k
    BY <2>1, PowerStep
  <2>3. 2^((a + k) + 1) = 2^(a + k) + 2^(a + k)
    BY <2>1, PowerStep
  <2>4. (a + k) + 1 = a + (k + 1)
    BY <2>1
  <2>5. 2^a \in Nat
    BY PowerStep
  <2>6. ASSUME NEW x \in Nat, NEW y \in Nat PROVE x * y + x * y = x * (y + y)
    OBVIOUS
  <2>7. 2^a * 2^k + 2^a * 2^k = 2^a * (2^k + 2^k)
    BY <2>2, <2>5, <2>6
  <2>8. 2^(a + (k + 1)) = 2^a * 2^(k + 1)
    BY <2>1, <2>2, <2>3, <2>4, <2>7
  <2> QED BY <2>1, <2>8
<1>3. T \subseteq Nat
  OBVIOUS
<1> HIDE DEF T
<1>4. b \in T
  BY <1>1, <1>2, <1>3, SetInduction
<1> QED BY <1>4 DEF T

\* A larger power is a multiple of a smaller one.
LEMMA PowerOrder ==
  ASSUME NEW a \in Nat, NEW b \in Nat, a <= b
  PROVE  2^a <= 2^b /\ (a < b => 2 * 2^a <= 2^b)
<1>1. PICK d \in Nat : b = a + d
  <2>1. b - a \in Nat /\ b = a + (b - a)
    OBVIOUS
  <2> QED BY <2>1
<1>2. 2^b = 2^a * 2^d /\ 2^a \in Nat \ {0} /\ 2^d \in Nat \ {0}
  BY <1>1, PowerSum, PowerPositive
<1>3. ASSUME NEW x \in Nat \ {0}, NEW y \in Nat \ {0} PROVE x <= x * y /\ (y >= 2 => 2 * x <= x * y)
  OBVIOUS
<1>4. a < b => 2^d >= 2
  <2> SUFFICES ASSUME a < b PROVE 2^d >= 2
    OBVIOUS
  <2>1. d - 1 \in Nat /\ (d - 1) + 1 = d
    BY <1>1
  <2>2. 2^(d - 1) \in Nat \ {0} /\ 2^((d - 1) + 1) = 2^(d - 1) + 2^(d - 1)
    BY <2>1, PowerStep, PowerPositive
  <2> QED BY <2>1, <2>2
<1> QED BY <1>2, <1>3, <1>4

\* A quotient is below a bound exactly when the number is below the product.
LEMMA DivBelow ==
  ASSUME NEW v \in Nat, NEW a \in Nat \ {0}, NEW b \in Nat
  PROVE  v \div a \in Nat /\ (v \div a < b <=> v < a * b)
<1>1. PICK q, r : q = v \div a /\ r = v % a
  OBVIOUS
<1>2. q \in Int /\ r \in 0 .. a - 1 /\ v = a * q + r
  BY <1>1, DivMod
<1>3. q \in Nat
  <2> SUFFICES ASSUME q <= -1 PROVE FALSE
    BY <1>2
  <2>1. a * q <= -a
    BY <1>2
  <2> QED BY <1>2, <2>1
<1>4. ASSUME q < b PROVE v < a * b
  <2>1. q + 1 <= b /\ a * (q + 1) <= a * b
    BY <1>3, <1>4
  <2>2. a * (q + 1) = a * q + a
    BY <1>3
  <2>3. a * q \in Nat /\ a * b \in Nat /\ r < a
    BY <1>2, <1>3
  <2> QED BY <1>2, <2>1, <2>2, <2>3
<1>5. ASSUME v < a * b PROVE q < b
  <2> SUFFICES ASSUME b <= q PROVE FALSE
    BY <1>3
  <2>1. a * b <= a * q
    BY <1>3
  <2>2. a * q \in Nat /\ a * b \in Nat /\ 0 <= r
    BY <1>2, <1>3
  <2> QED BY <1>2, <1>5, <2>1, <2>2
<1> QED BY <1>1, <1>3, <1>4, <1>5

\* Dividing in two steps, and the digit between them.
LEMMA TwoDivisions ==
  ASSUME NEW v \in Nat, NEW a \in Nat \ {0}, NEW b \in Nat \ {0}
  PROVE  /\ (v \div a) \div b = v \div (a * b)
         /\ v \div a = (v \div (a * b)) * b + ((v \div a) % b)
         /\ v % (a * b) = (v % a) + ((v \div a) % b) * a
         /\ (v \div a) % b \in 0 .. b - 1
<1>1. PICK q, r, p, s : /\ q = v \div a /\ r = v % a
                        /\ p = q \div b /\ s = q % b
  <2>1. PICK q : q = v \div a
    OBVIOUS
  <2> QED BY <2>1
<1>2. q \in Nat /\ r \in 0 .. a - 1 /\ v = a * q + r
  <2>1. v = a * (v \div a) + (v % a) /\ v % a \in 0 .. a - 1
    BY DivMod
  <2>2. 0 \in Nat /\ v \div a \in Nat
    BY DivBelow
  <2> QED BY <1>1, <2>1, <2>2
<1>3. p \in Int /\ s \in 0 .. b - 1 /\ q = b * p + s
  <2>1. q \in Int
    BY <1>2
  <2>2. q = b * (q \div b) + (q % b) /\ q % b \in 0 .. b - 1 /\ q \div b \in Int
    BY <2>1, DivMod
  <2> QED BY <1>1, <2>2
<1>4. v = (a * b) * p + (a * s + r)
  <2>1. a * (b * p + s) = (a * b) * p + a * s
    BY <1>3
  <2> QED BY <1>2, <1>3, <2>1
<1>5. a * s + r \in 0 .. (a * b) - 1 /\ a * b \in Nat \ {0}
  <2>1. s + 1 <= b /\ s \in Nat /\ r \in Nat /\ r < a
    BY <1>2, <1>3
  <2>2. a * (s + 1) <= a * b /\ a * (s + 1) = a * s + a /\ a * s \in Nat /\ a * b \in Nat
    BY <2>1
  <2> QED BY <2>1, <2>2
<1>6. v \div (a * b) = p /\ v % (a * b) = a * s + r
  <2>1. PICK m, t : m = a * b /\ t = a * s + r
    OBVIOUS
  <2>2. m \in Nat \ {0} /\ t \in 0 .. m - 1 /\ v = m * p + t /\ p \in Int /\ v \in Int
    BY <1>3, <1>4, <1>5, <2>1
  <2>3. v \div m = p /\ v % m = t
    BY ONLY <2>2, DivModUnique
  <2> QED BY <2>1, <2>3
<1>7. a * s + r = r + s * a /\ b * p + s = p * b + s
  BY <1>2, <1>3
<1> QED BY <1>1, <1>3, <1>6, <1>7

\* MinOf is the least element.
LEMMA MinOfSet ==
  ASSUME NEW S, S \subseteq Nat, NEW x \in S
  PROVE  MinOf(S) \in S /\ MinOf(S) <= x
<1>1. \E n \in S : \A k \in S : n <= k
  BY LeastNumber
<1> QED BY <1>1 DEF MinOf

\* A recurrence from b to n.
Steps(f, b, n, g, c) ==
  f = [i \in b .. n |-> IF i = b THEN g[b] ELSE f[i - 1] * c + g[i]]

\* It has a solution, whatever is added on the way.
LEMMA RecurrenceExists ==
  ASSUME NEW b \in Nat, NEW n \in Nat, b <= n, NEW g \in [b .. n -> Nat], NEW c \in Nat
  PROVE  \E f \in [b .. n -> Nat] : Steps(f, b, n, g, c)
<1> DEFINE T == {k \in Nat : b + k <= n => \E f \in [b .. b + k -> Nat] : Steps(f, b, b + k, g, c)}
<1>1. 0 \in T
  <2> DEFINE f == [i \in b .. b |-> g[b]]
  <2>1. f \in [b .. b + 0 -> Nat] /\ Steps(f, b, b + 0, g, c)
    BY DEF Steps
  <2> QED BY <2>1
<1>2. ASSUME NEW k \in T PROVE k + 1 \in T
  <2> SUFFICES ASSUME b + (k + 1) <= n
               PROVE  \E f \in [b .. b + (k + 1) -> Nat] : Steps(f, b, b + (k + 1), g, c)
    OBVIOUS
  <2>1. k \in Nat /\ b + k <= n
    OBVIOUS
  <2>2. PICK f \in [b .. b + k -> Nat] : Steps(f, b, b + k, g, c)
    BY <2>1
  <2> HIDE DEF T
  <2>3. PICK e : e = b + (k + 1)
    OBVIOUS
  <2>4. e \in Nat /\ e - 1 = b + k /\ e > b /\ b + k \in Nat
    BY <2>1, <2>3
  <2> DEFINE h == [i \in b .. e |-> IF i = e THEN f[e - 1] * c + g[e] ELSE f[i]]
  <2>5. g[e] \in Nat /\ f[e - 1] \in Nat /\ f[e - 1] * c + g[e] \in Nat
    <3>1. e \in b .. n /\ e - 1 \in b .. b + k
      BY <2>3, <2>4
    <3>2. g[e] \in Nat /\ f[e - 1] \in Nat
      BY <3>1
    <3>3. \A x, y \in Nat : x * c + y \in Nat
      OBVIOUS
    <3> QED BY ONLY <3>2, <3>3
  <2>6. \A i \in b .. e : i # e => i \in b .. b + k
    BY <2>4
  <2>7. h \in [b .. e -> Nat]
    BY <2>5, <2>6
  <2>8. \A i \in b .. b + k : f[i] = IF i = b THEN g[b] ELSE f[i - 1] * c + g[i]
    BY <2>2 DEF Steps
  <2>9. ASSUME NEW i \in b .. e
        PROVE  h[i] = IF i = b THEN g[b] ELSE h[i - 1] * c + g[i]
    <3>1. CASE i = e
      <4>1. i # b /\ i - 1 \in b .. e /\ i - 1 # e
        BY <2>4, <3>1
      <4> QED BY <3>1, <4>1
    <3>2. CASE i # e
      <4>1. i \in b .. b + k /\ i \in Nat
        BY <2>6, <3>2
      <4>2. i # b => i - 1 \in b .. e /\ i - 1 # e
        BY <2>4, <4>1
      <4> QED BY <2>8, <3>2, <4>1, <4>2
    <3> QED BY <3>1, <3>2
  <2>10. Steps(h, b, e, g, c)
    <3>1. h = [i \in b .. e |-> h[i]]
      OBVIOUS
    <3> HIDE DEF h
    <3> QED BY <2>9, <3>1 DEF Steps
  <2> QED BY <2>3, <2>7, <2>10
<1>3. T \subseteq Nat
  OBVIOUS
<1>4. n - b \in Nat /\ b + (n - b) = n
  OBVIOUS
<1> HIDE DEF T
<1>5. n - b \in T
  BY <1>1, <1>2, <1>3, <1>4, SetInduction
<1> QED BY <1>4, <1>5 DEF T

(***************************************************************************)
(* Leb128.                                                                 *)
(***************************************************************************)
\* The widths that follow from that of a byte.
LEMMA Widths ==
  /\ Bits \in Nat /\ Bits >= 5
  /\ Payload \in Nat /\ Payload = Bits - 1 /\ MaxLeb \in Nat /\ MaxLeb = Bits + 1
  /\ TailBits \in Nat /\ TailBits = Bits - 2 /\ TailBits >= 3
  /\ Payload * MaxLeb = Bits * Bits - 1
BY BitsAssumption DEF Payload, MaxLeb, TailBits

\* The two halves of a byte, by the top bit; the quarters, by the two top bits.
LEMMA ByteHalves ==
  /\ 2^Payload \in Nat \ {0} /\ 2^TailBits \in Nat \ {0}
  /\ 2^Payload = 2^TailBits + 2^TailBits
  /\ Byte = 0 .. 2^Payload + 2^Payload - 1
<1>1. Payload \in Nat /\ Payload + 1 = Bits /\ TailBits \in Nat /\ TailBits + 1 = Payload
  BY Widths
<1>2. 2^Bits = 2^Payload + 2^Payload /\ 2^Payload = 2^TailBits + 2^TailBits
  BY <1>1, PowerStep
<1> QED BY <1>1, <1>2, PowerPositive DEF Byte

\* A value of Bits bytes takes no more bytes than Leb128 allows, and fits in them.
LEMMA LebCount ==
  ASSUME NEW v \in Nat, v < 2^(Bits * Bits - 1)
  PROVE  LebBytes(v) \in 1 .. MaxLeb /\ v < 2^(Payload * LebBytes(v))
<1> DEFINE S == {n \in 1 .. MaxLeb + 1 : v < 2^(Payload * n)}
<1>1. MaxLeb \in S /\ S \subseteq Nat
  <2>1. MaxLeb \in Nat /\ MaxLeb >= 1 /\ MaxLeb \in 1 .. MaxLeb + 1
    BY Widths
  <2>2. v < 2^(Payload * MaxLeb)
    BY Widths
  <2> QED BY <2>1, <2>2
<1>2. LebBytes(v) = MinOf(S)
  BY DEF LebBytes
<1>3. \A x \in S : x \in 1 .. MaxLeb + 1 /\ v < 2^(Payload * x)
  OBVIOUS
<1> HIDE DEF S
<1>4. MinOf(S) \in S /\ MinOf(S) <= MaxLeb
  BY <1>1, MinOfSet
<1> QED BY <1>2, <1>3, <1>4, Widths

LebDigit(v, j) == (v \div 2^(Payload * (j - 1))) % 2^Payload
LebByte(v, n, j) == LebDigit(v, j) + IF j < n THEN 2^Payload ELSE 0

\* Each byte of Leb128 holds one digit, and its top bit says whether more follow; the
\* digits up to one make the remainder of the value.
LEMMA LebDigits ==
  ASSUME NEW v \in Nat, NEW n \in Nat, NEW j \in Nat \ {0}
  PROVE  /\ LebDigit(v, j) \in 0 .. 2^Payload - 1
         /\ LebByte(v, n, j) \in Byte
         /\ LebByte(v, n, j) < 2^Payload <=> j >= n
         /\ LebByte(v, n, j) % 2^Payload = LebDigit(v, j)
         /\ v % 2^(Payload * j) = (v % 2^(Payload * (j - 1))) + LebDigit(v, j) * 2^(Payload * (j - 1))
<1>1. PICK p, e : p = Payload /\ e = p * (j - 1)
  <2>1. PICK p : p = Payload
    OBVIOUS
  <2> QED BY <2>1
<1>2. p \in Nat /\ e \in Nat /\ p * j = e + p /\ j - 1 \in Nat
  <2>1. p \in Nat /\ j - 1 \in Nat
    BY <1>1, Widths
  <2>2. p * (j - 1) \in Nat
    BY <2>1
  <2>3. p * j = p * (j - 1) + p
    BY <2>1
  <2> QED BY <1>1, <2>1, <2>2, <2>3
<1>3. 2^p \in Nat \ {0} /\ 2^e \in Nat \ {0} /\ 2^(p * j) = 2^e * 2^p
  BY <1>2, PowerPositive, PowerSum
<1>4. PICK a, b, d : a = 2^e /\ b = 2^p /\ d = LebDigit(v, j)
  <2>1. PICK a, b : a = 2^e /\ b = 2^p
    OBVIOUS
  <2> QED BY <2>1
<1>5. d = (v \div a) % b
  BY <1>1, <1>4 DEF LebDigit
<1>6. a \in Nat \ {0} /\ b \in Nat \ {0}
  BY <1>3, <1>4
<1>7. d \in 0 .. b - 1 /\ v % (a * b) = (v % a) + d * a
  BY <1>5, <1>6, TwoDivisions
<1>8. d % b = d /\ (d + b) % b = d
  <2>1. d \in Int /\ d + b \in Int /\ d = b * 0 + d /\ d + b = b * 1 + d /\ 0 \in Int /\ 1 \in Int
    BY <1>6, <1>7
  <2>2. d % b = d
    BY ONLY <1>6, <1>7, <2>1, DivModUnique
  <2>3. (d + b) % b = d
    BY ONLY <1>6, <1>7, <2>1, DivModUnique
  <2> QED BY <2>2, <2>3
<1>9. LebByte(v, n, j) = IF j < n THEN d + b ELSE d
  BY <1>1, <1>4, <1>6, <1>7 DEF LebByte
<1>10. d \in 0 .. 2^Payload - 1
  BY <1>1, <1>4, <1>7
<1>11. LebByte(v, n, j) \in Byte /\ (LebByte(v, n, j) < 2^Payload <=> j >= n)
  <2>1. Byte = 0 .. b + b - 1 /\ 2^Payload = b
    BY <1>1, <1>4, ByteHalves
  <2> QED BY <1>6, <1>7, <1>9, <2>1
<1>12. LebByte(v, n, j) % 2^Payload = d
  BY <1>1, <1>4, <1>8, <1>9
<1>13. v % 2^(Payload * j) = (v % 2^(Payload * (j - 1))) + d * 2^(Payload * (j - 1))
  BY <1>1, <1>3, <1>4, <1>7
<1> QED BY <1>4, <1>10, <1>11, <1>12, <1>13

\* What the Leb128 encoder writes.
LEMMA LebBytesOf ==
  ASSUME NEW v \in Nat, v < 2^(Bits * Bits - 1)
  PROVE  LET b == LebEncode(v).bytes
         IN  /\ LebEncode(v).ok
             /\ b \in Seq(Byte) /\ Len(b) = LebBytes(v)
             /\ \A j \in 1 .. LebBytes(v) : b[j] = LebByte(v, LebBytes(v), j)
<1>1. PICK n, b : n = LebBytes(v) /\ b = LebEncode(v).bytes
  OBVIOUS
<1>2. n \in Nat
  BY <1>1, LebCount, Widths
<1>3. b = [j \in 1 .. n |-> LebByte(v, n, j)] /\ LebEncode(v).ok
  <2>1. LebEncode(v).ok
    <3>1. LebEncode(v).ok = (v >= 0)
      BY Zenon DEF LebEncode
    <3>2. v >= 0
      OBVIOUS
    <3> QED BY <3>1, <3>2
  <2>2. LebEncode(v).bytes = [j \in 1 .. LebBytes(v) |-> LebByte(v, LebBytes(v), j)]
    BY Zenon DEF LebEncode, LebByte, LebDigit
  <2> QED BY <1>1, <2>1, <2>2
<1>4. \A j \in 1 .. n : LebByte(v, n, j) \in Byte
  BY <1>2, LebDigits
<1>5. b \in Seq(Byte) /\ Len(b) = n /\ \A j \in 1 .. n : b[j] = LebByte(v, n, j)
  BY <1>2, <1>3, <1>4
<1> QED BY <1>1, <1>3, <1>5

\* What a decoder adds up.
LebSum(s, f) ==
  f = [i \in 0 .. Len(s) |->
         IF i = 0 THEN 0 ELSE f[i - 1] + (s[i] % 2^Payload) * 2^(Payload * (i - 1))]
LebEnds(s) == {i \in 1 .. Len(s) : i <= MaxLeb /\ s[i] < 2^Payload}

\* The Leb128 decoder, with its running sum named.
LEMMA LebDecodeIs ==
  ASSUME NEW s
  PROVE  LebDecode(s) = IF LebEnds(s) = {} THEN Error
                        ELSE Got((CHOOSE f : LebSum(s, f))[MinOf(LebEnds(s))], MinOf(LebEnds(s)))
BY DEF LebDecode, LebSum, LebEnds

\* The running sum of the decoder exists and never goes below zero.
LEMMA LebSumExists ==
  ASSUME NEW s \in Seq(Byte)
  PROVE  \E f : LebSum(s, f) /\ f \in [0 .. Len(s) -> Nat]
<1> DEFINE x(i) == (s[i] % 2^Payload) * 2^(Payload * (i - 1))
           g == [i \in 0 .. Len(s) |-> IF i = 0 THEN 0 ELSE x(i)]
<1>1. ASSUME NEW i \in 1 .. Len(s) PROVE x(i) \in Nat
  <2>1. i - 1 \in Nat /\ Payload \in Nat
    BY Widths
  <2>2. Payload * (i - 1) \in Nat
    BY <2>1
  <2>3. 2^(Payload * (i - 1)) \in Nat /\ 2^Payload \in Nat \ {0}
    BY <2>1, <2>2, PowerPositive
  <2>4. s[i] \in Int
    <3>1. s[i] \in Byte
      OBVIOUS
    <3> QED BY <3>1, ByteHalves
  <2>5. s[i] % 2^Payload \in 0 .. 2^Payload - 1
    BY <2>3, <2>4, DivMod
  <2>6. s[i] % 2^Payload \in Nat
    BY <2>3, <2>5
  <2>7. \A y, z \in Nat : y * z \in Nat
    OBVIOUS
  <2> QED BY <2>3, <2>6, <2>7
<1> HIDE DEF x
<1>2. g \in [0 .. Len(s) -> Nat] /\ Len(s) \in Nat /\ 0 <= Len(s)
  BY <1>1
<1>3. \A i \in 1 .. Len(s) : g[i] = x(i)
  OBVIOUS
<1>4. g[0] = 0
  OBVIOUS
<1> HIDE DEF g
<1>5. PICK f \in [0 .. Len(s) -> Nat] : Steps(f, 0, Len(s), g, 1)
  BY <1>2, RecurrenceExists
<1>6. ASSUME NEW i \in 0 .. Len(s)
      PROVE  f[i] = IF i = 0 THEN 0 ELSE f[i - 1] + x(i)
  <2>1. f[i] = IF i = 0 THEN g[0] ELSE f[i - 1] * 1 + g[i]
    BY <1>5 DEF Steps
  <2>2. i # 0 => f[i - 1] \in Nat
    <3> SUFFICES ASSUME i # 0 PROVE f[i - 1] \in Nat
      OBVIOUS
    <3>1. i - 1 \in 0 .. Len(s)
      OBVIOUS
    <3> QED BY <3>1
  <2>3. \A y \in Nat : y * 1 = y
    OBVIOUS
  <2> QED BY <1>3, <1>4, <2>1, <2>2, <2>3
<1>7. f = [i \in 0 .. Len(s) |-> f[i]]
  OBVIOUS
<1>8. LebSum(s, f)
  BY <1>6, <1>7 DEF LebSum, x
<1> QED BY <1>8

\* What a decoder claims of any buffer.
LEMMA LebJunk ==
  ASSUME NEW s \in Seq(Byte), LebDecode(s).ok
  PROVE  LebDecode(s).nBytes \in 1 .. Len(s) /\ LebDecode(s).value \in Nat
<1>1. PICK E, n, f : E = LebEnds(s) /\ n = MinOf(LebEnds(s)) /\ f = (CHOOSE h : LebSum(s, h))
  OBVIOUS
<1>2. f \in [0 .. Len(s) -> Nat]
  <2>1. LebSum(s, f)
    BY <1>1, LebSumExists
  <2>2. PICK h : LebSum(s, h) /\ h \in [0 .. Len(s) -> Nat]
    BY LebSumExists
  <2> DEFINE T == {i \in Nat : i <= Len(s) => f[i] = h[i]}
  <2>3. 0 \in T
    BY <2>1, <2>2 DEF LebSum
  <2>4. ASSUME NEW i \in T PROVE i + 1 \in T
    <3>1. i \in Nat /\ (i + 1) - 1 = i
      OBVIOUS
    <3> SUFFICES ASSUME i + 1 <= Len(s) PROVE f[i + 1] = h[i + 1]
      BY <3>1
    <3>2. f[i] = h[i] /\ i + 1 \in 0 .. Len(s) /\ i + 1 # 0
      BY <3>1
    <3> HIDE DEF T
    <3> QED BY <2>1, <2>2, <3>1, <3>2 DEF LebSum
  <2>5. T \subseteq Nat
    OBVIOUS
  <2> HIDE DEF T
  <2>6. \A i \in Nat : i \in T
    BY <2>3, <2>4, <2>5, SetInduction
  <2>7. \A i \in 0 .. Len(s) : f[i] = h[i]
    BY <2>6 DEF T
  <2>8. f = [i \in 0 .. Len(s) |-> f[i]]
    BY <2>1 DEF LebSum
  <2> QED BY <2>2, <2>7, <2>8
<1>3. LebDecode(s) = IF E = {} THEN Error ELSE Got(f[n], n)
  BY <1>1, LebDecodeIs
<1>4. E # {}
  BY <1>3 DEF Error
<1>5. n \in 1 .. Len(s)
  <2>1. E \subseteq 1 .. Len(s) /\ E \subseteq Nat
    BY <1>1 DEF LebEnds
  <2>2. n \in E
    BY <1>1, <1>4, <2>1, MinOfSet
  <2> QED BY <2>1, <2>2
<1>6. f[n] \in Nat
  BY <1>2, <1>5
<1> QED BY <1>3, <1>4, <1>5, <1>6 DEF Got

\* A buffer that begins with the first n of the bytes b.
Begins(s, b, n) == \A j \in 1 .. n : s[j] = b[j]

\* While the bytes are those of a number, the sum is what the number has below.
LEMMA LebSumOf ==
  ASSUME NEW v \in Nat, NEW n \in Nat, NEW s \in Seq(Byte), n <= Len(s),
         \A j \in 1 .. n : s[j] = LebByte(v, n, j), NEW f, LebSum(s, f)
  PROVE  f[n] = v % 2^(Payload * n)
<1> DEFINE T == {i \in Nat : i <= n => f[i] = v % 2^(Payload * i)}
<1>1. 0 \in T
  <2>1. Payload * 0 = 0 /\ 2^0 = 1 /\ v % 1 = 0
    <3>1. v % 1 \in 0 .. 1 - 1
      BY DivMod
    <3>2. Payload * 0 = 0
      BY Widths
    <3> QED BY <3>1, <3>2, PowerZero
  <2>2. f[0] = 0
    BY DEF LebSum
  <2>3. v % 2^(Payload * 0) = 0
    BY <2>1
  <2> QED BY <2>2, <2>3
<1>2. ASSUME NEW i \in T PROVE i + 1 \in T
  <2>1. i \in Nat /\ (i + 1) - 1 = i /\ i + 1 \in Nat \ {0}
    OBVIOUS
  <2> SUFFICES ASSUME i + 1 <= n PROVE f[i + 1] = v % 2^(Payload * (i + 1))
    BY <2>1
  <2>2. f[i] = v % 2^(Payload * i)
    BY <2>1
  <2> HIDE DEF T
  <2>3. PICK k : k = i + 1
    OBVIOUS
  <2>4. k \in Nat \ {0} /\ k - 1 = i /\ k \in 1 .. n /\ k \in 0 .. Len(s) /\ k # 0
    BY <2>1, <2>3
  <2>5. f[k] = f[k - 1] + (s[k] % 2^Payload) * 2^(Payload * (k - 1))
    BY <2>4 DEF LebSum
  <2>6. s[k] = LebByte(v, n, k)
    BY <2>4
  <2>7. LebByte(v, n, k) % 2^Payload = LebDigit(v, k)
    BY <2>4, LebDigits
  <2>8. v % 2^(Payload * k) = (v % 2^(Payload * (k - 1))) + LebDigit(v, k) * 2^(Payload * (k - 1))
    BY <2>4, LebDigits
  <2>9. f[k] = v % 2^(Payload * k)
    BY <2>2, <2>4, <2>5, <2>6, <2>7, <2>8
  <2> QED BY <2>3, <2>9
<1>3. T \subseteq Nat
  OBVIOUS
<1> HIDE DEF T
<1>4. n \in T
  BY <1>1, <1>2, <1>3, SetInduction
<1> QED BY <1>4 DEF T

\* An encoded number comes back, whatever follows it.
LEMMA LebRoundTrip ==
  ASSUME NEW v \in Nat, v < 2^(Bits * Bits - 1), NEW s \in Seq(Byte),
         Len(LebEncode(v).bytes) <= Len(s),
         Begins(s, LebEncode(v).bytes, Len(LebEncode(v).bytes))
  PROVE  LebDecode(s) = Got(v, Len(LebEncode(v).bytes))
<1>1. PICK n, b, f : /\ n = LebBytes(v) /\ b = LebEncode(v).bytes
                     /\ f = (CHOOSE h : LebSum(s, h))
  OBVIOUS
<1>2. n \in 1 .. MaxLeb /\ n \in Nat /\ v < 2^(Payload * n)
  BY <1>1, LebCount, Widths
<1>3. b \in Seq(Byte) /\ Len(b) = n /\ \A j \in 1 .. n : b[j] = LebByte(v, n, j)
  BY <1>1, LebBytesOf
<1>4. n <= Len(s) /\ \A j \in 1 .. n : s[j] = LebByte(v, n, j)
  BY <1>1, <1>3 DEF Begins
<1>5. LebSum(s, f)
  BY <1>1, LebSumExists
<1>6. f[n] = v % 2^(Payload * n)
  BY <1>2, <1>4, <1>5, LebSumOf
<1>7. v % 2^(Payload * n) = v
  <2>1. PICK a : a = 2^(Payload * n)
    OBVIOUS
  <2>2. a \in Nat \ {0}
    <3>1. Payload \in Nat
      BY Widths
    <3>2. Payload * n \in Nat
      BY <1>2, <3>1
    <3> QED BY <2>1, <3>2, PowerPositive
  <2>3. v \in Int /\ v \in 0 .. a - 1 /\ v = a * 0 + v /\ 0 \in Int
    BY <1>2, <2>1, <2>2
  <2>4. v % a = v
    BY ONLY <2>2, <2>3, DivModUnique
  <2> QED BY <2>1, <2>4
<1>8. n \in LebEnds(s) /\ \A i \in LebEnds(s) : n <= i
  <2>1. \A j \in 1 .. n : (s[j] < 2^Payload <=> j >= n)
    <3> SUFFICES ASSUME NEW j \in 1 .. n PROVE s[j] < 2^Payload <=> j >= n
      OBVIOUS
    <3>1. j \in Nat \ {0} /\ s[j] = LebByte(v, n, j)
      BY <1>2, <1>4
    <3>2. LebByte(v, n, j) < 2^Payload <=> j >= n
      BY <1>2, <3>1, LebDigits
    <3> QED BY <3>1, <3>2
  <2>2. n \in LebEnds(s)
    BY <1>2, <1>4, <2>1 DEF LebEnds
  <2>3. ASSUME NEW i \in LebEnds(s), i < n PROVE FALSE
    <3>1. i \in 1 .. n /\ s[i] < 2^Payload
      BY <1>2, <2>3 DEF LebEnds
    <3>2. i >= n
      BY <2>1, <3>1
    <3>3. i \in Nat /\ n \in Nat
      BY <1>2, <3>1
    <3> QED BY <2>3, <3>2, <3>3
  <2>4. \A i \in LebEnds(s) : i \in Nat
    BY DEF LebEnds
  <2> QED BY <1>2, <2>2, <2>3, <2>4
<1>9. MinOf(LebEnds(s)) = n
  <2>1. LebEnds(s) \subseteq Nat
    BY DEF LebEnds
  <2>2. MinOf(LebEnds(s)) \in LebEnds(s) /\ MinOf(LebEnds(s)) <= n
    BY <1>8, <2>1, MinOfSet
  <2>3. MinOf(LebEnds(s)) \in Nat /\ n <= MinOf(LebEnds(s))
    BY <1>8, <2>1, <2>2
  <2> QED BY <1>2, <2>2, <2>3
<1> QED BY <1>1, <1>3, <1>6, <1>7, <1>8, <1>9, LebDecodeIs

\* A number whose end is missing is refused.
LEMMA LebCut ==
  ASSUME NEW v \in Nat, v < 2^(Bits * Bits - 1), NEW s \in Seq(Byte),
         Len(s) < Len(LebEncode(v).bytes),
         Begins(s, LebEncode(v).bytes, Len(s))
  PROVE  LebDecode(s) = Error
<1>1. PICK n, b : n = LebBytes(v) /\ b = LebEncode(v).bytes
  OBVIOUS
<1>2. n \in Nat
  BY <1>1, LebCount, Widths
<1>3. Len(b) = n /\ \A j \in 1 .. n : b[j] = LebByte(v, n, j)
  BY <1>1, LebBytesOf
<1>4. \A j \in 1 .. Len(s) : j \in 1 .. n /\ j < n /\ s[j] = LebByte(v, n, j)
  BY <1>1, <1>2, <1>3 DEF Begins
<1>5. \A j \in 1 .. Len(s) : ~(s[j] < 2^Payload)
  <2> SUFFICES ASSUME NEW j \in 1 .. Len(s) PROVE ~(s[j] < 2^Payload)
    OBVIOUS
  <2>1. j \in Nat \ {0} /\ s[j] = LebByte(v, n, j) /\ ~(j >= n)
    BY <1>2, <1>4
  <2>2. LebByte(v, n, j) < 2^Payload <=> j >= n
    BY <1>2, <2>1, LebDigits
  <2> QED BY <2>1, <2>2
<1>6. LebEnds(s) = {}
  BY <1>5 DEF LebEnds
<1> QED BY <1>6, LebDecodeIs

(***************************************************************************)
(* Length.                                                                 *)
(***************************************************************************)
\* How many tail bytes a number has, when it has few enough.
LEMMA TailCount ==
  ASSUME NEW v \in Nat
  PROVE  LET k == TailBytes(v)
         IN  /\ k \in 1 .. TailBits + 1
             /\ k <= TailBits => v \div 2^(TailBits * k) < 2^(TailBits - k)
             /\ \A i \in 1 .. TailBits :
                  v \div 2^(TailBits * i) < 2^(TailBits - i) => k <= i
<1> DEFINE S == {i \in 1 .. Bits - 2 : v \div 2^(TailBits * i) < 2^(Bits - i - 2)}
                \cup {Bits - 1}
<1>1. PICK t : t = TailBits
  OBVIOUS
<1>2. t \in Nat /\ t >= 3 /\ Bits = t + 2 /\ Bits - 2 = t /\ Bits - 1 = t + 1 /\ t + 1 \in S
  BY <1>1, Widths
<1>3. \A x \in S : x \in 1 .. t + 1 /\ (x <= t => v \div 2^(TailBits * x) < 2^(TailBits - x))
  <2> SUFFICES ASSUME NEW x \in S
               PROVE  x \in 1 .. t + 1 /\ (x <= t => v \div 2^(TailBits * x) < 2^(TailBits - x))
    OBVIOUS
  <2>1. CASE x = Bits - 1
    BY <1>2, <2>1
  <2>2. CASE x # Bits - 1
    <3>1. x \in 1 .. Bits - 2 /\ v \div 2^(TailBits * x) < 2^(Bits - x - 2)
      BY <2>2
    <3>2. Bits - x - 2 = TailBits - x
      BY <1>1, <1>2, <3>1
    <3> QED BY <1>2, <3>1, <3>2
  <2> QED BY <2>1, <2>2
<1>4. \A i \in 1 .. t : v \div 2^(TailBits * i) < 2^(TailBits - i) => i \in S
  <2> SUFFICES ASSUME NEW i \in 1 .. t, v \div 2^(TailBits * i) < 2^(TailBits - i)
               PROVE  i \in S
    OBVIOUS
  <2>1. Bits - i - 2 = TailBits - i /\ i \in 1 .. Bits - 2
    BY <1>1, <1>2
  <2> QED BY <2>1
<1>5. TailBytes(v) = MinOf(S)
  BY DEF TailBytes
<1>6. S \subseteq Nat
  BY <1>2, <1>3
<1> HIDE DEF S
<1>7. MinOf(S) \in S /\ \A x \in S : MinOf(S) <= x
  BY <1>2, <1>6, MinOfSet
<1> QED BY <1>1, <1>3, <1>4, <1>5, <1>7

\* The exponents that come up, all polynomials in the width of a tail byte.
LEMMA Exponents ==
  ASSUME NEW t \in Nat, t >= 3, NEW k \in 1 .. t - 1
  PROVE  /\ t * k + (t - k) <= t * (t - 1) + 1 /\ t * k + (t - k) \in Nat /\ t * k \in Nat
         /\ t * (t - 1) + 1 \in Nat /\ t * (t - 1) + 1 <= (t + 1) * t /\ (t + 1) * t \in Nat
         /\ t + 1 <= t * (t - 1) + 1
<1>1. t * k + (t - k) = (t - 1) * k + t
  OBVIOUS
<1>2. (t - 1) * k <= (t - 1) * (t - 1)
  <2>1. \A a, x, y \in Nat : x <= y => a * x <= a * y
    OBVIOUS
  <2>2. t - 1 \in Nat /\ k \in Nat /\ k <= t - 1
    OBVIOUS
  <2> QED BY ONLY <2>1, <2>2
<1>3. (t - 1) * (t - 1) + t = t * (t - 1) + 1 /\ (t + 1) * t = t * t + t
  OBVIOUS
<1>4. t * (t - 1) = t * t - t /\ t * (t - 1) >= t /\ t * t \in Nat
  OBVIOUS
<1>5. t * k \in Nat /\ (t - 1) * k \in Nat /\ (t - 1) * (t - 1) \in Nat
  OBVIOUS
<1> QED BY <1>1, <1>2, <1>3, <1>4, <1>5

\* Exactly the numbers below 2^31, or what it is in this width, are encoded.
LengthBound == 2^(TailBits * (Bits - 3) + 1)

\* What Length encodes is the values below LengthBound, with fewer tail bytes than refused.
LEMMA LengthOk ==
  ASSUME NEW v \in Int
  PROVE  /\ LengthEncode(v).ok <=> v >= 0 /\ v < LengthBound
         /\ v >= 2^Payload /\ LengthEncode(v).ok => TailBytes(v) \in 1 .. TailBits - 1
<1>1. PICK t, k : t = TailBits /\ k = TailBytes(v)
  OBVIOUS
<1>2. /\ t \in Nat /\ t >= 3 /\ Bits - 1 = t + 1 /\ Bits - 2 = t /\ Bits - 3 = t - 1
      /\ Payload = t + 1 /\ t - 1 \in 1 .. t - 1
  BY <1>1, Widths
<1>3. LengthBound = 2^(t * (t - 1) + 1) /\ (LengthInRange(v) <=> v >= 0 /\ v < 2^((t + 1) * t))
  BY <1>1, <1>2 DEF LengthBound, LengthInRange
<1>4. 2^Payload <= LengthBound /\ LengthBound <= 2^((t + 1) * t) /\ 2^Payload \in Nat
      /\ LengthBound \in Nat /\ 2^((t + 1) * t) \in Nat
  <2>1. t + 1 \in Nat /\ t * (t - 1) + 1 \in Nat /\ (t + 1) * t \in Nat
        /\ t + 1 <= t * (t - 1) + 1 /\ t * (t - 1) + 1 <= (t + 1) * t
    BY <1>2, Exponents
  <2>2. 2^(t + 1) <= 2^(t * (t - 1) + 1) /\ 2^(t * (t - 1) + 1) <= 2^((t + 1) * t)
    BY <2>1, PowerOrder
  <2>3. 2^(t + 1) \in Nat /\ 2^(t * (t - 1) + 1) \in Nat /\ 2^((t + 1) * t) \in Nat
    BY <2>1, PowerStep
  <2> QED BY <1>2, <1>3, <2>2, <2>3
<1>5. CASE v < 2^Payload
  <2>1. LengthEncode(v).ok <=> LengthInRange(v)
    BY <1>2, <1>5, Zenon DEF LengthEncode, Payload
  <2>2. ~(v >= 2^Payload) /\ v < LengthBound /\ v < 2^((t + 1) * t)
    BY <1>4, <1>5
  <2> QED BY <1>3, <2>1, <2>2
<1>6. CASE v >= 2^Payload
  <2>0. v \in Nat /\ ~(v < 2^Payload) /\ ~(v < 2^(Bits - 1))
    BY <1>4, <1>6 DEF Payload
  <2>1. LengthEncode(v).ok <=> LengthInRange(v) /\ ~(k + 1 > Bits - 2)
    BY <1>1, <2>0, Zenon DEF LengthEncode
  <2>2. /\ k \in 1 .. t + 1
        /\ k <= t => v \div 2^(t * k) < 2^(t - k)
        /\ \A i \in 1 .. t : v \div 2^(t * i) < 2^(t - i) => k <= i
    BY <1>1, <2>0, TailCount
  <2>3. ASSUME LengthEncode(v).ok PROVE k \in 1 .. t - 1 /\ v < LengthBound
    <3>1. k \in 1 .. t - 1
      BY <1>2, <2>1, <2>2, <2>3
    <3>2. PICK a, b, c : a = t * k /\ b = t - k /\ c = t * (t - 1) + 1
      OBVIOUS
    <3>3. a \in Nat /\ b \in Nat /\ c \in Nat /\ a + b <= c /\ a + b \in Nat
      BY <1>2, <3>1, <3>2, Exponents
    <3>4. 2^(a + b) = 2^a * 2^b /\ 2^a \in Nat \ {0} /\ 2^b \in Nat \ {0} /\ 2^(a + b) <= 2^c
      BY <3>3, PowerSum, PowerPositive, PowerOrder
    <3>5. v \div 2^a < 2^b
      BY <1>2, <2>2, <3>1, <3>2
    <3>6. v < 2^a * 2^b
      BY <2>0, <3>4, <3>5, DivBelow
    <3>7. 2^c = LengthBound /\ 2^(a + b) \in Nat
      BY <1>3, <3>2, <3>3, PowerStep
    <3> QED BY <1>4, <2>0, <3>1, <3>4, <3>6, <3>7
  <2>4. ASSUME v < LengthBound PROVE LengthEncode(v).ok
    <3>1. PICK a, i : i = t - 1 /\ a = t * i
      <4>1. PICK i : i = t - 1
        OBVIOUS
      <4> QED BY <4>1
    <3>2. a \in Nat /\ i \in 1 .. t /\ t - i = 1
      BY <1>2, <3>1, Exponents
    <3>3. 2^(a + 1) = 2^a * 2^1 /\ 2^1 = 2 /\ 2^a \in Nat \ {0}
      <4>1. 1 \in Nat /\ 2^1 = 2
        OBVIOUS
      <4> QED BY <3>2, <4>1, PowerSum, PowerPositive
    <3>4. v < 2^a * 2
      BY <1>3, <2>4, <3>1, <3>3
    <3>5. v \div 2^a < 2
      BY <2>0, <3>3, <3>4, DivBelow
    <3>6. v \div 2^(t * i) < 2^(t - i)
      BY <3>1, <3>2, <3>3, <3>5
    <3>7. k <= t - 1
      BY <2>2, <3>1, <3>2, <3>6
    <3>8. ~(k + 1 > Bits - 2)
      BY <1>2, <2>2, <3>7
    <3>9. LengthInRange(v)
      <4>1. v >= 0 /\ v < 2^((t + 1) * t)
        BY <1>4, <2>0, <2>4
      <4> QED BY <1>3, <4>1
    <3> QED BY <2>1, <3>8, <3>9
  <2> QED BY <1>1, <1>2, <2>0, <2>3, <2>4
<1> QED BY <1>4, <1>5, <1>6

\* The header of k tail bytes with the number's high bits x.
Header(k, x) == (2^(k + 1) - 1) * 2^(Payload - k) + x

\* What its bits are, from a multiple of the bit's weight d and what lies below.
LEMMA HeaderBits ==
  ASSUME NEW k \in 1 .. TailBits - 1, NEW x \in 0 .. 2^(TailBits - k) - 1
  PROVE  /\ Header(k, x) \in Byte /\ Header(k, x) >= 2^Payload
         /\ \A i \in 0 .. k : (Header(k, x) \div 2^(Payload - i)) % 2 = 1
         /\ (Header(k, x) \div 2^(Payload - (k + 1))) % 2 = 0
         /\ Header(k, x) % 2^(Payload - k) = x
<1>1. PICK h, a, c, g, w : /\ h = Header(k, x) /\ a = 2^(k + 1) /\ c = 2^(Payload - k)
                           /\ g = 2^(TailBits - k) /\ w = 2^Payload
  <2>1. PICK h, a, c : h = Header(k, x) /\ a = 2^(k + 1) /\ c = 2^(Payload - k)
    OBVIOUS
  <2> QED BY <2>1
<1>2. PICK t : t = TailBits
  OBVIOUS
<1>3. t \in Nat /\ Payload = t + 1 /\ t >= 3 /\ k \in Nat /\ 1 <= k /\ k <= t - 1
  BY <1>2, Widths
<1>4. /\ t - k \in Nat /\ Payload - k \in Nat /\ Payload - k = (t - k) + 1
      /\ Payload - (k + 1) = t - k /\ k + 1 \in Nat /\ (k + 1) + (Payload - k) = Payload + 1
      /\ Payload \in Nat /\ Payload - k <= t
  BY <1>3
<1>5. a \in Nat \ {0} /\ c \in Nat \ {0} /\ g \in Nat \ {0} /\ w \in Nat \ {0}
  BY <1>1, <1>2, <1>4, PowerPositive
<1>6. c = g + g /\ a * c = w + w
  <2>1. c = g + g
    BY <1>1, <1>2, <1>4, PowerStep
  <2>2. 2^(Payload + 1) = w + w /\ 2^((k + 1) + (Payload - k)) = a * c
    BY <1>1, <1>4, PowerStep, PowerSum
  <2> QED BY <1>4, <2>1, <2>2
<1>7. h = (a - 1) * c + x /\ x \in 0 .. g - 1 /\ h = w + w - c + x
  <2>1. h = (a - 1) * c + x
    BY <1>1 DEF Header
  <2>2. PICK p, y : p = a * c /\ y = (a - 1) * c
    OBVIOUS
  <2>3. y = p - c
    BY <1>5, <2>2
  <2>4. x \in 0 .. g - 1
    BY <1>1, <1>2
  <2>5. y = w + w - c
    BY <1>5, <1>6, <2>2, <2>3
  <2> QED BY <1>5, <2>1, <2>2, <2>4, <2>5
<1>8. c <= w /\ h \in 0 .. w + w - 1 /\ h >= w
  <2>1. Payload - k <= Payload
    BY <1>3, <1>4
  <2>2. c <= w
    BY <1>1, <1>4, <2>1, PowerOrder
  <2> QED BY <1>5, <1>6, <1>7, <2>2
<1>9. h \in Byte /\ h >= 2^Payload
  BY <1>1, <1>8, ByteHalves
<1>10. ASSUME NEW i \in 0 .. k PROVE (h \div 2^(Payload - i)) % 2 = 1
  <2>1. PICK d, b : d = 2^(Payload - i) /\ b = 2^i
    OBVIOUS
  <2>2. Payload - i \in Nat /\ i \in Nat /\ Payload - k <= Payload - i /\ i + (Payload - i) = Payload
    BY <1>3, <1>4
  <2>3. d \in Nat \ {0} /\ b \in Nat \ {0} /\ w = b * d /\ c <= d
    <3>1. 2^(i + (Payload - i)) = 2^i * 2^(Payload - i)
      BY <2>2, PowerSum
    <3>2. d \in Nat \ {0} /\ b \in Nat \ {0} /\ c <= d
      BY <1>1, <1>4, <2>1, <2>2, PowerPositive, PowerOrder
    <3> QED BY <1>1, <2>1, <2>2, <3>1, <3>2
  <2>4. PICK q, r : q = 2 * b - 1 /\ r = d - c + x
    OBVIOUS
  <2>5. q \in Nat /\ r \in 0 .. d - 1 /\ h = d * q + r
    <3>1. d * q = b * d + b * d - d
      BY <2>3, <2>4
    <3>2. q \in Nat /\ r \in 0 .. d - 1
      BY <1>5, <1>6, <1>7, <2>3, <2>4
    <3> QED BY <1>5, <1>7, <2>3, <2>4, <3>1, <3>2
  <2>6. h \div d = q
    <3>1. h \in Int /\ q \in Int
      BY <1>8, <2>5
    <3> QED BY ONLY <2>3, <2>5, <3>1, DivModUnique
  <2>7. q % 2 = 1
    <3>1. q = 2 * (b - 1) + 1 /\ b - 1 \in Int /\ q \in Int /\ 2 \in Nat \ {0} /\ 1 \in 0 .. 2 - 1
      BY <2>3, <2>4
    <3> QED BY ONLY <3>1, DivModUnique
  <2> QED BY <2>1, <2>6, <2>7
<1>11. (h \div 2^(Payload - (k + 1))) % 2 = 0
  <2>1. PICK q : q = 2 * (a - 1)
    OBVIOUS
  <2>2. q \in Int /\ h = g * q + x
    <3>1. g * q = (a - 1) * (g + g)
      BY <1>5, <2>1
    <3> QED BY <1>5, <1>6, <1>7, <2>1, <3>1
  <2>3. h \div g = q
    <3>1. h \in Int
      BY <1>8
    <3> QED BY ONLY <1>5, <1>7, <2>2, <3>1, DivModUnique
  <2>4. q % 2 = 0
    <3>1. q = 2 * (a - 1) + 0 /\ a - 1 \in Int /\ q \in Int /\ 2 \in Nat \ {0} /\ 0 \in 0 .. 2 - 1
      BY <1>5, <2>1
    <3> QED BY ONLY <3>1, DivModUnique
  <2> QED BY <1>1, <1>2, <1>4, <2>3, <2>4
<1>12. h % c = x
  <2>1. h \in Int /\ a - 1 \in Int /\ h = c * (a - 1) + x /\ x \in 0 .. c - 1
    BY <1>5, <1>6, <1>7, <1>8
  <2> QED BY ONLY <1>5, <2>1, DivModUnique
<1> QED BY <1>1, <1>9, <1>10, <1>11, <1>12

\* The decoder counts in a header the bytes the encoder wrote.
LEMMA HeaderCount ==
  ASSUME NEW k \in 1 .. TailBits - 1, NEW x \in 0 .. 2^(TailBits - k) - 1
  PROVE  HeaderBytes(Header(k, x)) = k + 1
<1>1. PICK h : h = Header(k, x)
  OBVIOUS
<1> DEFINE zeros == {i \in 0 .. Bits - 2 : (h \div 2^(Bits - 1 - i)) % 2 = 0}
<1>2. /\ k \in Nat /\ Bits - 2 = TailBits /\ Bits - 1 = Payload /\ k + 1 \in 0 .. Bits - 2
  BY Widths
<1>3. k + 1 \in zeros
  <2>1. (h \div 2^(Payload - (k + 1))) % 2 = 0
    BY <1>1, HeaderBits
  <2> QED BY <1>2, <2>1
<1>4. \A i \in zeros : i \in Nat /\ k + 1 <= i
  <2> SUFFICES ASSUME NEW i \in zeros, ~(k + 1 <= i) PROVE FALSE
    OBVIOUS
  <2>1. i \in 0 .. k /\ (h \div 2^(Payload - i)) % 2 = 0
    BY <1>2
  <2>2. (h \div 2^(Payload - i)) % 2 = 1
    BY <1>1, <2>1, HeaderBits
  <2> QED BY <2>1, <2>2
<1>5. HeaderBytes(h) = IF zeros = {} THEN 0 ELSE MinOf(zeros)
  BY DEF HeaderBytes
<1> HIDE DEF zeros
<1>6. MinOf(zeros) \in zeros /\ MinOf(zeros) <= k + 1
  <2>1. zeros \subseteq Nat
    BY <1>4
  <2> QED BY <1>3, <2>1, MinOfSet
<1>7. MinOf(zeros) = k + 1
  BY <1>2, <1>4, <1>6
<1> QED BY <1>1, <1>3, <1>5, <1>7

\* A count of a header is below a byte's last bit.
LEMMA HeaderRange ==
  ASSUME NEW h
  PROVE  HeaderBytes(h) \in 0 .. TailBits
<1> DEFINE zeros == {i \in 0 .. Bits - 2 : (h \div 2^(Bits - 1 - i)) % 2 = 0}
<1>1. HeaderBytes(h) = IF zeros = {} THEN 0 ELSE MinOf(zeros)
  BY DEF HeaderBytes
<1>2. zeros \subseteq 0 .. TailBits /\ zeros \subseteq Nat /\ TailBits \in Nat
  BY Widths
<1> HIDE DEF zeros
<1>3. CASE zeros = {}
  BY <1>1, <1>2, <1>3
<1>4. CASE zeros # {}
  <2>1. MinOf(zeros) \in zeros
    BY <1>2, <1>4, MinOfSet
  <2> QED BY <1>1, <1>2, <1>4, <2>1
<1> QED BY <1>3, <1>4

\* A tail byte carries its group behind the mark 10.
LEMMA TailByte ==
  ASSUME NEW g \in 0 .. 2^TailBits - 1
  PROVE  /\ 2^Payload + g \in Byte
         /\ (2^Payload + g) \div 2^TailBits = 2
         /\ (2^Payload + g) % 2^TailBits = g
<1>1. PICK b : b = 2^TailBits
  OBVIOUS
<1>2. b \in Nat \ {0} /\ 2^Payload = b + b /\ Byte = 0 .. b + b + b + b - 1
  BY <1>1, ByteHalves
<1>3. b + b + g \in Int /\ b + b + g = b * 2 + g /\ g \in 0 .. b - 1 /\ 2 \in Int
  BY <1>1, <1>2
<1>4. (b + b + g) \div b = 2 /\ (b + b + g) % b = g
  BY ONLY <1>2, <1>3, DivModUnique
<1>5. b + b + g \in Byte
  BY <1>2, <1>3
<1> QED BY <1>1, <1>2, <1>4, <1>5

\* What an encoder writes.
LEMMA LengthBytesOf ==
  ASSUME NEW v \in Int, LengthEncode(v).ok, v >= 2^Payload
  PROVE  LET k == TailBytes(v)
             b == LengthEncode(v).bytes
         IN  /\ k \in 1 .. TailBits - 1
             /\ v \div 2^(TailBits * k) \in 0 .. 2^(TailBits - k) - 1
             /\ b \in Seq(Byte) /\ Len(b) = k + 1
             /\ b[1] = Header(k, v \div 2^(TailBits * k))
             /\ \A j \in 2 .. k + 1 : b[j] = 2^Payload + Group(v, k + 1 - j)
<1>1. PICK k, b, x, n : /\ k = TailBytes(v) /\ b = LengthEncode(v).bytes
                        /\ x = v \div 2^(TailBits * k) /\ n = k + 1
  <2>1. PICK k, b : k = TailBytes(v) /\ b = LengthEncode(v).bytes
    OBVIOUS
  <2> QED BY <2>1
<1>2. /\ TailBits \in Nat /\ TailBits >= 3 /\ k \in 1 .. TailBits - 1 /\ k \in Nat /\ n \in Nat
      /\ Bits - 1 = Payload /\ Bits - k - 1 = Payload - k /\ 1 \in 1 .. n /\ k <= TailBits
  <2>1. k \in 1 .. TailBits - 1
    BY <1>1, LengthOk
  <2> QED BY <1>1, <2>1, Widths
<1>3. v \in Nat /\ ~(v < 2^(Bits - 1))
  <2>1. 2^Payload \in Nat
    BY ByteHalves
  <2> QED BY <1>2, <2>1
<1>4. x \in 0 .. 2^(TailBits - k) - 1
  <2>1. x < 2^(TailBits - k)
    BY <1>1, <1>2, <1>3, TailCount
  <2>2. TailBits * k \in Nat /\ TailBits - k \in Nat
    BY <1>2
  <2>3. 2^(TailBits * k) \in Nat \ {0} /\ 2^(TailBits - k) \in Nat
    BY <2>2, PowerPositive
  <2>4. x \in Nat
    <3>1. 0 \in Nat
      OBVIOUS
    <3> QED BY <1>1, <1>3, <2>3, <3>1, DivBelow
  <2> QED BY <2>1, <2>3, <2>4
<1>5. b = [j \in 1 .. n |-> IF j = 1 THEN Header(k, x) ELSE 2^Payload + Group(v, n - j)]
  <2>1. b = [j \in 1 .. k + 1 |->
               IF j = 1 THEN (2^(k + 1) - 1) * 2^(Bits - k - 1) + v \div 2^(TailBits * k)
                        ELSE 2^(Bits - 1) + Group(v, k + 1 - j)]
    <3>1. LengthEncode(v) =
            IF ~LengthInRange(v) \/ k + 1 > Bits - 2 THEN [ok |-> FALSE, bytes |-> <<>>]
            ELSE [ok |-> TRUE, bytes |-> [j \in 1 .. k + 1 |->
               IF j = 1 THEN (2^(k + 1) - 1) * 2^(Bits - k - 1) + v \div 2^(TailBits * k)
                        ELSE 2^(Bits - 1) + Group(v, k + 1 - j)]]
      BY <1>1, <1>3, Zenon DEF LengthEncode
    <3>2. ~(~LengthInRange(v) \/ k + 1 > Bits - 2)
      <4>1. ASSUME ~LengthInRange(v) \/ k + 1 > Bits - 2 PROVE FALSE
        <5>1. LengthEncode(v) = [ok |-> FALSE, bytes |-> <<>>]
          BY <3>1, <4>1, Zenon
        <5> QED BY <5>1
      <4> QED BY <4>1
    <3>3. LengthEncode(v) =
            [ok |-> TRUE, bytes |-> [j \in 1 .. k + 1 |->
               IF j = 1 THEN (2^(k + 1) - 1) * 2^(Bits - k - 1) + v \div 2^(TailBits * k)
                        ELSE 2^(Bits - 1) + Group(v, k + 1 - j)]]
      BY <3>1, <3>2, Zenon
    <3> QED BY ONLY <1>1, <3>3
  <2> QED BY <1>1, <1>2, <2>1 DEF Header
<1>6. ASSUME NEW j \in 1 .. n, j # 1
      PROVE  2^Payload + Group(v, n - j) \in Byte
  <2>1. n - j \in Nat
    BY <1>2, <1>6
  <2>2. TailBits * (n - j) \in Nat
    BY <1>2, <2>1
  <2>3. 2^(TailBits * (n - j)) \in Nat \ {0} /\ 2^TailBits \in Nat \ {0}
    BY <1>2, <2>2, PowerPositive
  <2>4. Group(v, n - j) \in 0 .. 2^TailBits - 1
    BY <1>3, <2>3, TwoDivisions DEF Group
  <2> QED BY <2>4, TailByte
<1>7. Header(k, x) \in Byte
  BY <1>2, <1>4, HeaderBits
<1>8. b \in Seq(Byte) /\ Len(b) = n
  <2>1. \A j \in 1 .. n : (IF j = 1 THEN Header(k, x) ELSE 2^Payload + Group(v, n - j)) \in Byte
    BY <1>6, <1>7
  <2> QED BY <1>2, <1>5, <2>1
<1>9. b[1] = Header(k, x) /\ \A j \in 2 .. n : b[j] = 2^Payload + Group(v, n - j)
  BY <1>2, <1>5
<1> QED BY <1>1, <1>2, <1>4, <1>8, <1>9

\* What a decoder puts together from n bytes.
Joined(s, n, f) ==
  f = [i \in 1 .. n |->
         IF i = 1 THEN s[1] % 2^(Bits - n) ELSE f[i - 1] * 2^TailBits + (s[i] % 2^TailBits)]

Spoilt(s, n) == n = 0 \/ Len(s) < n \/ \E i \in 2 .. n : s[i] \div 2^TailBits # 2

\* The Length decoder of more than one byte, with the value so far named.
LEMMA LengthDecodeIs ==
  ASSUME NEW s, s # <<>>, ~(s[1] < 2^Payload), NEW n, n = HeaderBytes(s[1])
  PROVE  LengthDecode(s) = IF Spoilt(s, n) THEN Error ELSE Got((CHOOSE f : Joined(s, n, f))[n], n)
<1>1. ~(s[1] < 2^(Bits - 1))
  BY DEF Payload
<1>2. LengthDecode(s) =
        IF Spoilt(s, HeaderBytes(s[1])) THEN Error
        ELSE Got((CHOOSE f : Joined(s, HeaderBytes(s[1]), f))[HeaderBytes(s[1])], HeaderBytes(s[1]))
  BY <1>1, Zenon DEF LengthDecode, Spoilt, Joined
<1> QED BY <1>2, Zenon

\* The value so far of the decoder exists and never goes below zero.
LEMMA JoinedExists ==
  ASSUME NEW s \in Seq(Byte), NEW n \in 1 .. TailBits, n <= Len(s)
  PROVE  \E f \in [1 .. n -> Nat] : Joined(s, n, f)
<1> DEFINE g == [i \in 1 .. n |-> IF i = 1 THEN s[1] % 2^(Bits - n) ELSE s[i] % 2^TailBits]
<1>1. Bits - n \in Nat /\ TailBits \in Nat /\ n \in Nat /\ 1 <= n /\ Bits \in Nat
  BY Widths
<1>2. 2^(Bits - n) \in Nat \ {0} /\ 2^TailBits \in Nat \ {0}
  BY <1>1, PowerPositive
<1>3. \A i \in 1 .. n : s[i] \in Int
  <2>1. \A i \in 1 .. n : s[i] \in Byte
    BY <1>1
  <2>2. \A y \in Byte : y \in Int
    BY ByteHalves
  <2> QED BY <2>1, <2>2
<1>4. \A i \in 1 .. n : s[i] % 2^(Bits - n) \in Nat /\ s[i] % 2^TailBits \in Nat
  <2> SUFFICES ASSUME NEW i \in 1 .. n
               PROVE  s[i] % 2^(Bits - n) \in Nat /\ s[i] % 2^TailBits \in Nat
    OBVIOUS
  <2>1. s[i] % 2^(Bits - n) \in 0 .. 2^(Bits - n) - 1 /\ s[i] % 2^TailBits \in 0 .. 2^TailBits - 1
    BY <1>2, <1>3, DivMod
  <2> QED BY <1>2, <2>1
<1>5. g \in [1 .. n -> Nat]
  BY <1>1, <1>4
<1>6. g[1] = s[1] % 2^(Bits - n) /\ \A i \in 1 .. n : i # 1 => g[i] = s[i] % 2^TailBits
  BY <1>1
<1> HIDE DEF g
<1>7. PICK f \in [1 .. n -> Nat] : Steps(f, 1, n, g, 2^TailBits)
  BY <1>1, <1>2, <1>5, RecurrenceExists
<1>8. \A i \in 1 .. n : f[i] = IF i = 1 THEN s[1] % 2^(Bits - n)
                               ELSE f[i - 1] * 2^TailBits + (s[i] % 2^TailBits)
  <2>1. \A i \in 1 .. n : f[i] = IF i = 1 THEN g[1] ELSE f[i - 1] * 2^TailBits + g[i]
    BY <1>7 DEF Steps
  <2> QED BY <1>6, <2>1
<1>9. f = [i \in 1 .. n |-> f[i]]
  OBVIOUS
<1>10. Joined(s, n, f)
  BY <1>8, <1>9 DEF Joined
<1> QED BY <1>10

\* Tail byte by tail byte, the number comes back from its high bits.
LEMMA JoinedOf ==
  ASSUME NEW v \in Nat, NEW k \in 1 .. TailBits - 1, NEW s, NEW f, Joined(s, k + 1, f),
         s[1] % 2^(Payload - k) = v \div 2^(TailBits * k),
         \A j \in 2 .. k + 1 : s[j] = 2^Payload + Group(v, k + 1 - j)
  PROVE  f[k + 1] = v
<1>1. TailBits \in Nat /\ k \in Nat /\ Bits - (k + 1) = Payload - k /\ k + 1 \in Nat /\ 1 <= k
  BY Widths
<1> DEFINE T == {i \in Nat : i <= k => f[i + 1] = v \div 2^(TailBits * (k - i))}
<1>2. 0 \in T
  <2>1. 1 \in 1 .. k + 1
    BY <1>1
  <2>2. f[1] = s[1] % 2^(Bits - (k + 1))
    BY <2>1 DEF Joined
  <2>3. 0 + 1 = 1 /\ k - 0 = k
    BY <1>1
  <2> QED BY <1>1, <2>2, <2>3
<1>3. ASSUME NEW i \in T PROVE i + 1 \in T
  <2>1. i \in Nat /\ i + 1 \in Nat
    OBVIOUS
  <2> SUFFICES ASSUME i + 1 <= k
               PROVE  f[(i + 1) + 1] = v \div 2^(TailBits * (k - (i + 1)))
    BY <2>1
  <2>2. f[i + 1] = v \div 2^(TailBits * (k - i))
    BY <2>1
  <2> HIDE DEF T
  <2>3. PICK m, j, t : m = k - (i + 1) /\ j = (i + 1) + 1 /\ t = TailBits
    <3>1. PICK m, j : m = k - (i + 1) /\ j = (i + 1) + 1
      OBVIOUS
    <3> QED BY <3>1
  <2>4. /\ m \in Nat /\ k - i = m + 1 /\ j \in 2 .. k + 1 /\ j \in 1 .. k + 1 /\ j # 1
        /\ j - 1 = i + 1 /\ k + 1 - j = m /\ t \in Nat
    BY <1>1, <2>1, <2>3
  <2>5. f[j] = f[j - 1] * 2^t + (s[j] % 2^t)
    BY <2>3, <2>4 DEF Joined
  <2>6. s[j] = 2^Payload + Group(v, m)
    BY <2>4
  <2>7. PICK a, b, g : a = 2^(t * m) /\ b = 2^t /\ g = Group(v, m)
    OBVIOUS
  <2>8. t * m \in Nat /\ t * (m + 1) = t * m + t
    BY <2>4
  <2>9. a \in Nat \ {0} /\ b \in Nat \ {0} /\ 2^(t * (m + 1)) = a * b
    BY <2>4, <2>7, <2>8, PowerPositive, PowerSum
  <2>10. g = (v \div a) % b
    BY <2>3, <2>7 DEF Group
  <2>11. v \div a = (v \div (a * b)) * b + g /\ g \in 0 .. b - 1
    BY <2>9, <2>10, TwoDivisions
  <2>12. s[j] % b = g
    BY <2>3, <2>6, <2>7, <2>11, TailByte
  <2>13. f[j - 1] = v \div (a * b)
    BY <2>2, <2>3, <2>4, <2>9
  <2>14. f[j] = v \div a
    BY <2>5, <2>7, <2>11, <2>12, <2>13
  <2> QED BY <2>3, <2>7, <2>14
<1>4. T \subseteq Nat
  OBVIOUS
<1> HIDE DEF T
<1>5. k \in T
  BY <1>1, <1>2, <1>3, <1>4, SetInduction
<1>6. f[k + 1] = v \div 2^(TailBits * (k - k))
  BY <1>1, <1>5 DEF T
<1>7. 2^(TailBits * (k - k)) = 1
  <2>1. TailBits * (k - k) = 0
    BY <1>1
  <2> QED BY <2>1, PowerZero
<1>8. v \div 1 = v
  <2>1. v \in Int /\ v = 1 * v + 0 /\ 0 \in 0 .. 1 - 1 /\ 1 \in Nat \ {0}
    OBVIOUS
  <2> QED BY ONLY <2>1, DivModUnique
<1> QED BY <1>6, <1>7, <1>8

\* Numbers of one byte.
LEMMA LengthShort ==
  ASSUME NEW v \in Int, v < 2^Payload, LengthEncode(v).ok
  PROVE  LengthEncode(v).bytes = <<v>> /\ v \in Byte /\ v \in Nat
<1>1. v < 2^(Bits - 1)
  BY DEF Payload
<1>2. LengthEncode(v).bytes = <<v>>
  <2>1. LengthEncode(v) = [ok |-> LengthInRange(v), bytes |-> <<v>>]
    BY <1>1, Zenon DEF LengthEncode
  <2> QED BY <2>1
<1>3. v \in Nat
  BY LengthOk
<1> QED BY <1>2, <1>3, ByteHalves

\* What Length encodes is bytes, at least one.
LEMMA LengthBytesType ==
  ASSUME NEW v \in Int, LengthEncode(v).ok
  PROVE  LengthEncode(v).bytes \in Seq(Byte) /\ Len(LengthEncode(v).bytes) \in Nat \ {0}
<1>1. CASE v < 2^Payload
  <2>1. LengthEncode(v).bytes = <<v>> /\ v \in Byte
    BY <1>1, LengthShort
  <2>2. <<v>> \in Seq(Byte) /\ Len(<<v>>) = 1
    BY <2>1
  <2> QED BY <2>1, <2>2
<1>2. CASE ~(v < 2^Payload)
  <2>1. v >= 2^Payload
    BY <1>2, ByteHalves
  <2>2. PICK k, b : k = TailBytes(v) /\ b = LengthEncode(v).bytes
    OBVIOUS
  <2>3. k \in 1 .. TailBits - 1 /\ b \in Seq(Byte) /\ Len(b) = k + 1
    BY <2>1, <2>2, LengthBytesOf
  <2>4. k + 1 \in Nat \ {0}
    BY <2>3, Widths
  <2> QED BY <2>2, <2>3, <2>4
<1> QED BY <1>1, <1>2

\* A buffer that begins with an encoding of Length is decoded to the value and the length
\* of its encoding, whatever follows.
LEMMA LengthRoundTrip ==
  ASSUME NEW v \in Int, LengthEncode(v).ok, NEW s \in Seq(Byte),
         Len(LengthEncode(v).bytes) <= Len(s),
         Begins(s, LengthEncode(v).bytes, Len(LengthEncode(v).bytes))
  PROVE  LengthDecode(s) = Got(v, Len(LengthEncode(v).bytes))
<1>1. CASE v < 2^Payload
  <2>1. LengthEncode(v).bytes = <<v>>
    BY <1>1, LengthShort
  <2>2. Len(<<v>>) = 1 /\ <<v>>[1] = v
    OBVIOUS
  <2>3. s # <<>> /\ s[1] = v
    BY <2>1, <2>2 DEF Begins
  <2>4. s[1] < 2^(Bits - 1)
    BY <1>1, <2>3 DEF Payload
  <2>5. LengthDecode(s) = Got(s[1], 1)
    BY <2>3, <2>4, Zenon DEF LengthDecode
  <2> QED BY <2>1, <2>2, <2>3, <2>5
<1>2. CASE ~(v < 2^Payload)
  <2>1. v >= 2^Payload /\ v \in Nat
    BY <1>2, ByteHalves
  <2>2. PICK k, b, x, n : /\ k = TailBytes(v) /\ b = LengthEncode(v).bytes
                          /\ x = v \div 2^(TailBits * k) /\ n = k + 1
    <3>1. PICK k, b : k = TailBytes(v) /\ b = LengthEncode(v).bytes
      OBVIOUS
    <3>2. PICK x, n : x = v \div 2^(TailBits * k) /\ n = k + 1
      OBVIOUS
    <3> QED BY ONLY <3>1, <3>2
  <2>3. /\ k \in 1 .. TailBits - 1 /\ x \in 0 .. 2^(TailBits - k) - 1
        /\ Len(b) = n /\ b[1] = Header(k, x)
        /\ \A j \in 2 .. n : b[j] = 2^Payload + Group(v, n - j)
    BY <2>1, <2>2, LengthBytesOf
  <2>4. /\ k \in Nat /\ n \in Nat /\ 1 \in 1 .. n /\ n # 0 /\ n <= Len(s)
        /\ TailBits \in Nat /\ n \in 1 .. TailBits
    <3>1. n <= Len(s)
      BY <2>2, <2>3
    <3>2. TailBits \in Nat
      BY Widths
    <3>3. k \in 1 .. TailBits - 1 /\ n = k + 1
      BY <2>2, <2>3
    <3> QED BY ONLY <3>1, <3>2, <3>3
  <2>5. s # <<>> /\ s[1] = Header(k, x) /\ \A j \in 2 .. n : s[j] = 2^Payload + Group(v, n - j)
    <3>1. \A j \in 1 .. n : s[j] = b[j]
      BY <2>2, <2>3 DEF Begins
    <3>2. s # <<>> /\ s[1] = Header(k, x)
      BY <2>3, <2>4, <3>1
    <3>3. ASSUME NEW j \in 2 .. n PROVE s[j] = 2^Payload + Group(v, n - j)
      <4>1. j \in 1 .. n
        BY <2>4
      <4> QED BY <2>3, <3>1, <4>1
    <3> QED BY <3>2, <3>3
  <2>6. s[1] >= 2^Payload /\ s[1] % 2^(Payload - k) = x /\ HeaderBytes(s[1]) = n
    BY <2>2, <2>3, <2>5, HeaderBits, HeaderCount
  <2>7. ~(s[1] < 2^Payload)
    <3>1. s[1] \in Int /\ 2^Payload \in Int
      BY <2>3, <2>5, HeaderBits, ByteHalves
    <3> QED BY <2>6, <3>1
  <2>8. ~Spoilt(s, n)
    <3> SUFFICES ASSUME NEW j \in 2 .. n PROVE s[j] \div 2^TailBits = 2
      BY <2>4 DEF Spoilt
    <3>1. n - j \in Nat
      BY <2>4
    <3>2. TailBits * (n - j) \in Nat
      BY <2>4, <3>1
    <3>3. 2^(TailBits * (n - j)) \in Nat \ {0} /\ 2^TailBits \in Nat \ {0}
      BY <2>4, <3>2, PowerPositive
    <3>4. Group(v, n - j) \in 0 .. 2^TailBits - 1
      BY <2>1, <3>3, TwoDivisions DEF Group
    <3> QED BY <2>5, <3>4, TailByte
  <2>9. PICK f : f = (CHOOSE h : Joined(s, n, h))
    OBVIOUS
  <2>10. Joined(s, n, f)
    BY <2>4, <2>9, JoinedExists
  <2>11. f[k + 1] = v
    <3>1. Joined(s, k + 1, f) /\ s[1] % 2^(Payload - k) = v \div 2^(TailBits * k)
      BY <2>2, <2>6, <2>10
    <3>2. \A j \in 2 .. k + 1 : s[j] = 2^Payload + Group(v, k + 1 - j)
      <4> SUFFICES ASSUME NEW j \in 2 .. k + 1 PROVE s[j] = 2^Payload + Group(v, k + 1 - j)
        OBVIOUS
      <4>1. n = k + 1 /\ j \in 2 .. n
        BY <2>2
      <4>2. s[j] = 2^Payload + Group(v, n - j)
        BY <2>5, <4>1
      <4>3. n - j = k + 1 - j
        BY <2>4, <4>1
      <4> QED BY <4>2, <4>3
    <3> QED BY ONLY <2>1, <2>3, <3>1, <3>2, JoinedOf
  <2>12. LengthDecode(s) = Got(f[n], n)
    BY <2>5, <2>6, <2>7, <2>8, <2>9, LengthDecodeIs
  <2> QED BY <2>2, <2>3, <2>11, <2>12
<1> QED BY <1>1, <1>2

\* An encoding of Length that is cut short is refused, as is an empty buffer.
LEMMA LengthCut ==
  ASSUME NEW v \in Int, LengthEncode(v).ok, NEW s \in Seq(Byte),
         Len(s) < Len(LengthEncode(v).bytes),
         Begins(s, LengthEncode(v).bytes, Len(s))
  PROVE  LengthDecode(s) = Error
<1>1. CASE s = <<>>
  BY <1>1, Zenon DEF LengthDecode
<1>2. CASE s # <<>>
  <2>1. v >= 2^Payload
    <3> SUFFICES ASSUME v < 2^Payload PROVE FALSE
      BY ByteHalves
    <3>1. LengthEncode(v).bytes = <<v>>
      BY LengthShort
    <3>2. Len(LengthEncode(v).bytes) = 1
      BY <3>1
    <3> QED BY <1>2, <3>2
  <2>2. PICK k, b, x, n : /\ k = TailBytes(v) /\ b = LengthEncode(v).bytes
                          /\ x = v \div 2^(TailBits * k) /\ n = k + 1
    <3>1. PICK k, b : k = TailBytes(v) /\ b = LengthEncode(v).bytes
      OBVIOUS
    <3>2. PICK x, n : x = v \div 2^(TailBits * k) /\ n = k + 1
      OBVIOUS
    <3> QED BY ONLY <3>1, <3>2
  <2>3. /\ k \in 1 .. TailBits - 1 /\ x \in 0 .. 2^(TailBits - k) - 1
        /\ Len(b) = n /\ b[1] = Header(k, x)
    BY <2>1, <2>2, LengthBytesOf
  <2>4. s[1] = Header(k, x)
    <3>1. 1 \in 1 .. Len(s)
      BY <1>2
    <3> QED BY <2>2, <2>3, <3>1 DEF Begins
  <2>5. s[1] >= 2^Payload /\ HeaderBytes(s[1]) = n
    BY <2>2, <2>3, <2>4, HeaderBits, HeaderCount
  <2>6. ~(s[1] < 2^Payload)
    <3>1. s[1] \in Int /\ 2^Payload \in Int
      BY <2>3, <2>4, HeaderBits, ByteHalves
    <3> QED BY <2>5, <3>1
  <2>7. Spoilt(s, n)
    BY <2>2, <2>3 DEF Spoilt
  <2> QED BY <1>2, <2>5, <2>6, <2>7, LengthDecodeIs
<1> QED BY <1>1, <1>2

\* What the Length decoder claims of any buffer.
LEMMA LengthJunk ==
  ASSUME NEW s \in Seq(Byte), LengthDecode(s).ok
  PROVE  LengthDecode(s).nBytes \in 1 .. Len(s) /\ LengthDecode(s).value \in Nat
<1>1. s # <<>>
  <2> SUFFICES ASSUME s = <<>> PROVE FALSE
    OBVIOUS
  <2>1. LengthDecode(s) = Error
    BY Zenon DEF LengthDecode
  <2> QED BY <2>1 DEF Error
<1>2. s[1] \in Nat /\ Len(s) \in Nat \ {0}
  <2>1. s[1] \in Byte /\ Len(s) \in Nat \ {0}
    BY <1>1
  <2> QED BY <2>1, ByteHalves
<1>3. CASE s[1] < 2^Payload
  <2>1. s[1] < 2^(Bits - 1)
    BY <1>3 DEF Payload
  <2>2. LengthDecode(s) = Got(s[1], 1)
    BY <1>1, <2>1, Zenon DEF LengthDecode
  <2> QED BY <1>2, <2>2 DEF Got
<1>4. CASE ~(s[1] < 2^Payload)
  <2>1. PICK n, f : n = HeaderBytes(s[1]) /\ f = (CHOOSE h : Joined(s, n, h))
    <3>1. PICK n : n = HeaderBytes(s[1])
      OBVIOUS
    <3> QED BY <3>1
  <2>2. LengthDecode(s) = IF Spoilt(s, n) THEN Error ELSE Got(f[n], n)
    BY <1>1, <1>4, <2>1, LengthDecodeIs
  <2>3. ~Spoilt(s, n)
    BY <2>2 DEF Error
  <2>4. n \in 0 .. TailBits /\ TailBits \in Nat
    BY <2>1, HeaderRange, Widths
  <2>5. n \in 1 .. TailBits /\ n <= Len(s) /\ n \in 1 .. Len(s) /\ n \in 1 .. n
    BY <1>2, <2>3, <2>4 DEF Spoilt
  <2>6. PICK h \in [1 .. n -> Nat] : Joined(s, n, h)
    BY <2>5, JoinedExists
  <2>7. Joined(s, n, f)
    BY <2>1, <2>6
  <2> DEFINE T == {i \in Nat : i + 1 <= n => f[i + 1] = h[i + 1]}
  <2>8. 0 \in T
    <3>1. 1 \in 1 .. n /\ 0 + 1 = 1
      BY <2>5
    <3>2. f[1] = h[1]
      BY <2>6, <2>7, <3>1 DEF Joined
    <3> QED BY <3>1, <3>2
  <2>9. ASSUME NEW i \in T PROVE i + 1 \in T
    <3>1. i \in Nat /\ i + 1 \in Nat
      OBVIOUS
    <3> SUFFICES ASSUME (i + 1) + 1 <= n PROVE f[(i + 1) + 1] = h[(i + 1) + 1]
      BY <3>1
    <3>2. f[i + 1] = h[i + 1]
      BY <2>5, <3>1
    <3> HIDE DEF T
    <3>3. PICK j : j = (i + 1) + 1
      OBVIOUS
    <3>4. j \in 1 .. n /\ j # 1 /\ j - 1 = i + 1
      BY <2>5, <3>1, <3>3
    <3>5. f[j] = f[j - 1] * 2^TailBits + (s[j] % 2^TailBits)
      BY <2>7, <3>4 DEF Joined
    <3>6. h[j] = h[j - 1] * 2^TailBits + (s[j] % 2^TailBits)
      BY <2>6, <3>4 DEF Joined
    <3> QED BY <3>2, <3>3, <3>4, <3>5, <3>6
  <2>10. T \subseteq Nat
    OBVIOUS
  <2> HIDE DEF T
  <2>11. n - 1 \in T
    <3>1. n - 1 \in Nat
      BY <2>5
    <3> QED BY <2>8, <2>9, <2>10, <3>1, SetInduction
  <2>12. f[n] = h[n]
    BY <2>5, <2>11 DEF T
  <2>13. f[n] \in Nat
    BY <2>5, <2>6, <2>12
  <2> QED BY <2>2, <2>3, <2>5, <2>13 DEF Got
<1> QED BY <1>3, <1>4

(***************************************************************************)
(* Either codec.                                                           *)
(***************************************************************************)
EncodeBy(c, v) == IF c = "length" THEN LengthEncode(v) ELSE LebEncode(v)
DecodeBy(c, s) == IF c = "length" THEN LengthDecode(s) ELSE LebDecode(s)
BytesOf(c, v)  == EncodeBy(c, v).bytes

\* Numbers that can be in a buffer.
Fits(c, v) == v \in Int /\ v < 2^(Bits * Bits - 1) /\ EncodeBy(c, v).ok

\* Which values each codec encodes.
LEMMA EncodedWhen ==
  ASSUME NEW c, NEW v \in Int, v < 2^(Bits * Bits - 1)
  PROVE  EncodeBy(c, v).ok <=> v >= 0 /\ (c = "length" => v < LengthBound)
<1>1. CASE c = "length"
  BY <1>1, LengthOk DEF EncodeBy
<1>2. CASE c # "length"
  <2>1. LebEncode(v).ok = (v >= 0)
    BY Zenon DEF LebEncode
  <2> QED BY <1>2, <2>1 DEF EncodeBy
<1> QED BY <1>1, <1>2

\* What is encoded is bytes, at least one.
LEMMA FittingBytes ==
  ASSUME NEW c, NEW v, Fits(c, v)
  PROVE  BytesOf(c, v) \in Seq(Byte) /\ Len(BytesOf(c, v)) \in Nat \ {0}
<1>1. CASE c = "length"
  BY <1>1, LengthBytesType DEF Fits, BytesOf, EncodeBy
<1>2. CASE c # "length"
  <2>1. v \in Nat /\ v < 2^(Bits * Bits - 1)
    BY EncodedWhen DEF Fits
  <2>2. LebEncode(v).bytes \in Seq(Byte) /\ Len(LebEncode(v).bytes) = LebBytes(v)
    BY <2>1, LebBytesOf
  <2>3. LebBytes(v) \in Nat \ {0}
    BY <2>1, LebCount, Widths
  <2> QED BY <1>2, <2>2, <2>3 DEF BytesOf, EncodeBy
<1> QED BY <1>1, <1>2

\* Both codecs decode what they encoded, whatever follows it.
LEMMA DecodeWhole ==
  ASSUME NEW c, NEW v, Fits(c, v), NEW s \in Seq(Byte),
         Len(BytesOf(c, v)) <= Len(s), Begins(s, BytesOf(c, v), Len(BytesOf(c, v)))
  PROVE  DecodeBy(c, s) = Got(v, Len(BytesOf(c, v)))
<1>1. CASE c = "length"
  BY <1>1, LengthRoundTrip DEF Fits, BytesOf, EncodeBy, DecodeBy
<1>2. CASE c # "length"
  <2>1. v \in Nat /\ v < 2^(Bits * Bits - 1)
    BY EncodedWhen DEF Fits
  <2> QED BY <1>2, <2>1, LebRoundTrip DEF BytesOf, EncodeBy, DecodeBy
<1> QED BY <1>1, <1>2

\* Both codecs refuse an encoding that is cut short.
LEMMA DecodePart ==
  ASSUME NEW c, NEW v, Fits(c, v), NEW s \in Seq(Byte),
         Len(s) < Len(BytesOf(c, v)), Begins(s, BytesOf(c, v), Len(s))
  PROVE  DecodeBy(c, s) = Error
<1>1. CASE c = "length"
  BY <1>1, LengthCut DEF Fits, BytesOf, EncodeBy, DecodeBy
<1>2. CASE c # "length"
  <2>1. v \in Nat /\ v < 2^(Bits * Bits - 1)
    BY EncodedWhen DEF Fits
  <2> QED BY <1>2, <2>1, LebCut DEF BytesOf, EncodeBy, DecodeBy
<1> QED BY <1>1, <1>2

\* Neither codec claims more bytes than there are, or a negative value.
LEMMA DecodeAny ==
  ASSUME NEW c, NEW s \in Seq(Byte), DecodeBy(c, s).ok
  PROVE  DecodeBy(c, s).nBytes \in 1 .. Len(s) /\ DecodeBy(c, s).value \in Nat
<1>1. CASE c = "length"
  BY <1>1, LengthJunk DEF DecodeBy
<1>2. CASE c # "length"
  BY <1>2, LebJunk DEF DecodeBy
<1> QED BY <1>1, <1>2

(***************************************************************************)
(* The buffer.                                                             *)
(***************************************************************************)
\* Value i of the buffer w lies between the positions at[i - 1] and at[i].
ValueAt(c, w, t, at, i) ==
  /\ Fits(c, t[i]) /\ at[i] = at[i - 1] + Len(BytesOf(c, t[i]))
  /\ \A j \in 1 .. Len(BytesOf(c, t[i])) : w[at[i - 1] + j] = BytesOf(c, t[i])[j]

\* The buffer w holds the values t, and then the first l bytes of v.
Layout(c, w, t, at, v, l) ==
  /\ at \in [0 .. Len(t) -> Nat] /\ at[0] = 0
  /\ \A i, k \in 0 .. Len(t) : i <= k => at[i] <= at[k]
  /\ \A i \in 1 .. Len(t) : ValueAt(c, w, t, at, i)
  /\ Fits(c, v) /\ l \in Nat /\ l < Len(BytesOf(c, v))
  /\ Len(w) = at[Len(t)] + l
  /\ \A j \in 1 .. l : w[at[Len(t)] + j] = BytesOf(c, v)[j]

\* There is something both codecs encode.
LEMMA ZeroFits ==
  ASSUME NEW c
  PROVE  Fits(c, 0)
<1>1. LengthBound \in Nat \ {0} /\ 2^(Bits * Bits - 1) \in Nat \ {0}
  <2>1. TailBits * (Bits - 3) + 1 \in Nat /\ Bits * Bits - 1 \in Nat
    <3>1. TailBits \in Nat /\ Bits - 3 \in Nat /\ Payload * MaxLeb \in Nat
      BY Widths
    <3> QED BY <3>1, Widths
  <2> QED BY <2>1, PowerPositive DEF LengthBound
<1> QED BY <1>1, EncodedWhen DEF Fits

\* An empty buffer.
LEMMA LayoutEmpty ==
  ASSUME NEW c, NEW v, Fits(c, v)
  PROVE  \E at : Layout(c, <<>>, <<>>, at, v, 0)
<1> DEFINE at == [i \in 0 .. 0 |-> 0]
<1>1. Len(<<>>) = 0 /\ at \in [0 .. 0 -> Nat] /\ at[0] = 0
  OBVIOUS
<1> HIDE DEF at
<1>2. Len(BytesOf(c, v)) \in Nat \ {0}
  BY FittingBytes
<1>3. Layout(c, <<>>, <<>>, at, v, 0)
  BY <1>1, <1>2 DEF Layout
<1> QED BY <1>3

\* One more value.
LEMMA LayoutWrite ==
  ASSUME NEW c, NEW w \in Seq(Byte), NEW t \in Seq(Int), NEW at, NEW v, Layout(c, w, t, at, v, 0),
         NEW x, Fits(c, x), NEW b, b = BytesOf(c, x)
  PROVE  \E a : Layout(c, w \o b, Append(t, x), a, v, 0)
<1>1. PICK n, m, e : n = Len(t) /\ m = Len(w) /\ e = Len(b)
  OBVIOUS
<1>2. n \in Nat /\ m \in Nat /\ e \in Nat \ {0} /\ b \in Seq(Byte)
  BY <1>1, FittingBytes
<1> DEFINE a == [i \in 0 .. n + 1 |-> IF i = n + 1 THEN m + e ELSE at[i]]
           u == w \o b
           s == Append(t, x)
<1>3. /\ at \in [0 .. n -> Nat] /\ at[0] = 0 /\ m = at[n]
      /\ \A i, k \in 0 .. n : i <= k => at[i] <= at[k]
      /\ \A i \in 1 .. n : ValueAt(c, w, t, at, i)
      /\ Fits(c, v) /\ 0 < Len(BytesOf(c, v))
  <2>1. /\ at \in [0 .. n -> Nat] /\ at[0] = 0 /\ m = at[n] + 0
        /\ \A i, k \in 0 .. n : i <= k => at[i] <= at[k]
        /\ \A i \in 1 .. n : ValueAt(c, w, t, at, i)
        /\ Fits(c, v) /\ 0 < Len(BytesOf(c, v))
    BY <1>1 DEF Layout
  <2>2. n \in 0 .. n
    BY <1>2
  <2>3. at[n] \in Nat
    BY <2>1, <2>2
  <2> QED BY <2>1, <2>3
<1>4. /\ Len(u) = m + e /\ Len(s) = n + 1 /\ s[n + 1] = x
      /\ \A i \in 1 .. n : s[i] = t[i]
      /\ \A j \in 1 .. m : u[j] = w[j]
      /\ \A j \in 1 .. e : u[m + j] = b[j]
  BY <1>1, <1>2
<1>5. a \in [0 .. n + 1 -> Nat] /\ a[0] = 0 /\ a[n + 1] = m + e /\ \A i \in 0 .. n : a[i] = at[i]
  BY <1>2, <1>3
<1> HIDE DEF a, u, s
<1>6. \A i, k \in 0 .. n + 1 : i <= k => a[i] <= a[k]
  <2> SUFFICES ASSUME NEW i \in 0 .. n + 1, NEW k \in 0 .. n + 1, i <= k PROVE a[i] <= a[k]
    OBVIOUS
  <2>1. CASE k = n + 1
    <3>1. CASE i = n + 1
      BY <1>2, <1>5, <2>1, <3>1
    <3>2. CASE i # n + 1
      <4>1. i \in 0 .. n /\ n \in 0 .. n
        BY <1>2, <3>2
      <4>2. at[i] <= at[n] /\ at[i] \in Nat
        BY <1>2, <1>3, <4>1
      <4> QED BY <1>2, <1>3, <1>5, <2>1, <4>1, <4>2
    <3> QED BY <3>1, <3>2
  <2>2. CASE k # n + 1
    <3>1. i \in 0 .. n /\ k \in 0 .. n
      BY <1>2, <2>2
    <3> QED BY <1>3, <1>5, <3>1
  <2> QED BY <2>1, <2>2
<1>7. ASSUME NEW i \in 1 .. n + 1 PROVE ValueAt(c, u, s, a, i)
  <2>1. CASE i = n + 1
    <3>1. i - 1 = n /\ n \in 0 .. n
      BY <1>2, <2>1
    <3>2. a[i - 1] = m /\ a[i] = m + e /\ s[i] = x
      BY <1>3, <1>4, <1>5, <2>1, <3>1
    <3>3. \A j \in 1 .. e : u[m + j] = b[j]
      BY <1>4
    <3> QED BY <1>1, <3>2, <3>3 DEF ValueAt
  <2>2. CASE i # n + 1
    <3>1. i \in 1 .. n /\ i \in 0 .. n /\ i - 1 \in 0 .. n /\ n \in 0 .. n /\ i <= n
      BY <1>2, <2>2
    <3>2. ValueAt(c, w, t, at, i) /\ a[i] = at[i] /\ a[i - 1] = at[i - 1] /\ s[i] = t[i]
      BY <1>3, <1>4, <1>5, <3>1
    <3>3. PICK p, q, y : p = at[i - 1] /\ q = at[i] /\ y = BytesOf(c, t[i])
      OBVIOUS
    <3>4. p \in Nat /\ q \in Nat /\ q <= m
      BY <1>3, <3>1, <3>3
    <3>5. Fits(c, t[i]) /\ q = p + Len(y) /\ \A j \in 1 .. Len(y) : w[p + j] = y[j]
      BY <3>2, <3>3 DEF ValueAt
    <3>6. Len(y) \in Nat
      BY <3>3, <3>5, FittingBytes
    <3>7. \A j \in 1 .. Len(y) : u[p + j] = y[j]
      <4> SUFFICES ASSUME NEW j \in 1 .. Len(y) PROVE u[p + j] = y[j]
        OBVIOUS
      <4>1. p + j \in 1 .. m
        BY <1>2, <3>4, <3>5, <3>6
      <4> QED BY <1>4, <3>5, <4>1
    <3> QED BY <3>2, <3>3, <3>5, <3>7 DEF ValueAt
  <2> QED BY <2>1, <2>2
<1>8. Len(u) = a[Len(s)] + 0
  BY <1>2, <1>4, <1>5
<1>9. Layout(c, u, s, a, v, 0)
  BY <1>3, <1>4, <1>5, <1>6, <1>7, <1>8 DEF Layout
<1> QED BY <1>9 DEF u, s

\* The last value loses its last byte.
LEMMA LayoutCut ==
  ASSUME NEW c, NEW w \in Seq(Byte), NEW t \in Seq(Int), NEW at, NEW v, Layout(c, w, t, at, v, 0),
         t # <<>>
  PROVE  \E l : Layout(c, SubSeq(w, 1, Len(w) - 1), SubSeq(t, 1, Len(t) - 1),
                       [i \in 0 .. Len(t) - 1 |-> at[i]], t[Len(t)], l)
<1>1. PICK n, m, x, b : n = Len(t) - 1 /\ m = Len(w) - 1 /\ x = t[Len(t)] /\ b = BytesOf(c, x)
  <2>1. PICK n, m, x : n = Len(t) - 1 /\ m = Len(w) - 1 /\ x = t[Len(t)]
    OBVIOUS
  <2> QED BY <2>1
<1>2. n \in Nat /\ Len(t) = n + 1 /\ Len(w) \in Nat /\ n + 1 \in 1 .. n + 1 /\ n + 1 \in 0 .. n + 1
  BY <1>1
<1> DEFINE a == [i \in 0 .. n |-> at[i]]
           u == SubSeq(w, 1, m)
           s == SubSeq(t, 1, n)
<1>3. /\ at \in [0 .. n + 1 -> Nat] /\ at[0] = 0 /\ Len(w) = at[n + 1] + 0
      /\ \A i, k \in 0 .. n + 1 : i <= k => at[i] <= at[k]
      /\ \A i \in 1 .. n + 1 : ValueAt(c, w, t, at, i)
  BY <1>2 DEF Layout
<1>4. PICK p, e : p = at[n] /\ e = Len(b)
  OBVIOUS
<1>5. /\ Fits(c, x) /\ at[n + 1] = p + e /\ p \in Nat /\ e \in Nat \ {0} /\ m = p + (e - 1)
      /\ \A j \in 1 .. e : w[p + j] = b[j]
  <2>1. ValueAt(c, w, t, at, n + 1) /\ (n + 1) - 1 = n /\ n \in 0 .. n + 1
    BY <1>2, <1>3
  <2>2. Fits(c, x) /\ at[n + 1] = p + e /\ \A j \in 1 .. e : w[p + j] = b[j]
    BY <1>1, <1>2, <1>4, <2>1 DEF ValueAt
  <2>3. p \in Nat /\ e \in Nat \ {0}
    BY <1>1, <1>3, <1>4, <2>1, <2>2, FittingBytes
  <2> QED BY <1>1, <1>3, <2>2, <2>3
<1>6. m \in Nat /\ m <= Len(w)
  BY <1>1, <1>3, <1>5
<1>7. /\ Len(u) = m /\ Len(s) = n
      /\ \A j \in 1 .. m : u[j] = w[j]
      /\ \A i \in 1 .. n : s[i] = t[i]
  BY <1>2, <1>6
<1>8. a \in [0 .. n -> Nat] /\ a[0] = 0 /\ \A i \in 0 .. n : a[i] = at[i]
  BY <1>2, <1>3
<1> HIDE DEF a, u, s
<1>9. \A i, k \in 0 .. n : i <= k => a[i] <= a[k]
  BY <1>2, <1>3, <1>8
<1>10. ASSUME NEW i \in 1 .. n PROVE ValueAt(c, u, s, a, i)
  <2>1. i \in 0 .. n /\ i - 1 \in 0 .. n /\ n \in 0 .. n /\ i \in 1 .. n + 1 /\ i <= n /\ n \in 0 .. n + 1
        /\ i \in 0 .. n + 1 /\ i - 1 \in 0 .. n + 1
    BY <1>2
  <2>2. ValueAt(c, w, t, at, i) /\ a[i] = at[i] /\ a[i - 1] = at[i - 1] /\ s[i] = t[i]
    BY <1>3, <1>7, <1>8, <2>1
  <2>3. PICK f, q, y : f = at[i - 1] /\ q = at[i] /\ y = BytesOf(c, t[i])
    OBVIOUS
  <2>4. f \in Nat /\ q \in Nat /\ q <= p
    BY <1>3, <1>4, <2>1, <2>3
  <2>5. Fits(c, t[i]) /\ q = f + Len(y) /\ \A j \in 1 .. Len(y) : w[f + j] = y[j]
    BY <2>2, <2>3 DEF ValueAt
  <2>6. Len(y) \in Nat
    BY <2>3, <2>5, FittingBytes
  <2>7. \A j \in 1 .. Len(y) : u[f + j] = y[j]
    <3> SUFFICES ASSUME NEW j \in 1 .. Len(y) PROVE u[f + j] = y[j]
      OBVIOUS
    <3>1. f + j \in 1 .. m
      BY <1>5, <2>4, <2>5, <2>6
    <3> QED BY <1>7, <2>5, <3>1
  <2> QED BY <2>2, <2>3, <2>5, <2>7 DEF ValueAt
<1>11. \A j \in 1 .. e - 1 : u[a[n] + j] = b[j]
  <2> SUFFICES ASSUME NEW j \in 1 .. e - 1 PROVE u[a[n] + j] = b[j]
    OBVIOUS
  <2>1. a[n] = p /\ p + j \in 1 .. m /\ j \in 1 .. e
    <3>1. n \in 0 .. n
      BY <1>2
    <3>2. a[n] = p
      BY <1>4, <1>8, <3>1
    <3>3. p \in Nat /\ e \in Nat \ {0} /\ m = p + (e - 1) /\ j \in 1 .. e - 1
      BY <1>5
    <3>4. p + j \in 1 .. m /\ j \in 1 .. e
      BY ONLY <3>3
    <3> QED BY <3>2, <3>4
  <2> QED BY <1>5, <1>7, <2>1
<1>12. Len(u) = a[Len(s)] + (e - 1) /\ e - 1 \in Nat /\ e - 1 < Len(b)
  <2>1. n \in 0 .. n
    BY <1>2
  <2> QED BY <1>4, <1>5, <1>7, <1>8, <2>1
<1>13. Layout(c, u, s, a, x, e - 1)
  BY <1>1, <1>5, <1>7, <1>8, <1>9, <1>10, <1>11, <1>12 DEF Layout
<1> QED BY <1>1, <1>13 DEF u, s, a

\* The first value is decoded, and what follows it stays.
LEMMA LayoutRead ==
  ASSUME NEW c, NEW w \in Seq(Byte), NEW t \in Seq(Int), NEW at, NEW v, NEW l,
         Layout(c, w, t, at, v, l), t # <<>>,
         NEW e, e = Len(BytesOf(c, t[1]))
  PROVE  /\ DecodeBy(c, w) = Got(t[1], e)
         /\ \E a : Layout(c, SubSeq(w, e + 1, Len(w)), Tail(t), a, v, l)
<1>1. PICK n, b : n = Len(t) - 1 /\ b = BytesOf(c, t[1])
  OBVIOUS
<1>2. n \in Nat /\ Len(t) = n + 1 /\ Len(w) \in Nat /\ 1 \in 1 .. n + 1 /\ 1 - 1 = 0
      /\ 1 \in 0 .. n + 1 /\ n + 1 \in 0 .. n + 1 /\ 0 \in 0 .. n + 1
  BY <1>1
<1>3. /\ at \in [0 .. n + 1 -> Nat] /\ at[0] = 0 /\ Len(w) = at[n + 1] + l
      /\ \A i, k \in 0 .. n + 1 : i <= k => at[i] <= at[k]
      /\ \A i \in 1 .. n + 1 : ValueAt(c, w, t, at, i)
      /\ Fits(c, v) /\ l \in Nat /\ l < Len(BytesOf(c, v))
      /\ \A j \in 1 .. l : w[at[n + 1] + j] = BytesOf(c, v)[j]
  BY <1>2 DEF Layout
<1>4. /\ Fits(c, t[1]) /\ at[1] = e /\ e \in Nat \ {0} /\ \A j \in 1 .. e : w[j] = b[j]
      /\ \A i \in 1 .. n + 1 : e <= at[i]
      /\ e <= Len(w)
  <2>1. ValueAt(c, w, t, at, 1)
    BY <1>2, <1>3
  <2>2. Fits(c, t[1]) /\ at[1] = 0 + e /\ \A j \in 1 .. e : w[0 + j] = b[j]
    BY <1>1, <1>2, <1>3, <2>1 DEF ValueAt
  <2>3. e \in Nat \ {0}
    BY <2>2, FittingBytes
  <2>4. \A j \in 1 .. e : 0 + j = j
    OBVIOUS
  <2>5. \A i \in 1 .. n + 1 : e <= at[i]
    <3> SUFFICES ASSUME NEW i \in 1 .. n + 1 PROVE e <= at[i]
      OBVIOUS
    <3>1. i \in 0 .. n + 1 /\ 1 <= i
      BY <1>2
    <3>2. at[1] <= at[i]
      BY <1>2, <1>3, <3>1
    <3> QED BY <2>2, <2>3, <3>2
  <2>6. e <= at[n + 1] /\ at[n + 1] \in Nat
    BY <1>2, <1>3, <2>5
  <2>7. e <= Len(w)
    BY <1>3, <2>3, <2>6
  <2>8. at[1] = e
    BY <2>2, <2>3
  <2>9. \A j \in 1 .. e : w[j] = b[j]
    <3> SUFFICES ASSUME NEW j \in 1 .. e PROVE w[j] = b[j]
      OBVIOUS
    <3>1. 0 + j = j /\ w[0 + j] = b[j]
      BY <2>2, <2>4
    <3> QED BY <3>1
  <2> QED BY <2>2, <2>3, <2>5, <2>7, <2>8, <2>9
<1>5. DecodeBy(c, w) = Got(t[1], e)
  <2>1. Begins(w, b, e)
    BY <1>4 DEF Begins
  <2> QED BY <1>1, <1>4, <2>1, DecodeWhole
<1> DEFINE a == [i \in 0 .. n |-> at[i + 1] - e]
           u == SubSeq(w, e + 1, Len(w))
           s == Tail(t)
<1>6. /\ Len(u) = Len(w) - e /\ Len(s) = n
      /\ \A j \in 1 .. Len(w) - e : u[j] = w[e + j]
      /\ \A i \in 1 .. n : s[i] = t[i + 1]
  <2>1. e + 1 \in 1 .. Len(w) + 1 /\ Len(w) <= Len(w)
    BY <1>2, <1>4
  <2>2. Len(u) = Len(w) - e
    BY <1>2, <1>4, <2>1
  <2>3. \A j \in 1 .. Len(w) - e : u[j] = w[e + j]
    BY <1>2, <1>4, <2>1, <2>2
  <2> QED BY <1>2, <2>2, <2>3
<1>7. a \in [0 .. n -> Nat] /\ a[0] = 0 /\ \A i \in 0 .. n : a[i] = at[i + 1] - e
  <2>1. \A i \in 0 .. n : at[i + 1] - e \in Nat
    <3> SUFFICES ASSUME NEW i \in 0 .. n PROVE at[i + 1] - e \in Nat
      OBVIOUS
    <3>1. i + 1 \in 1 .. n + 1 /\ i + 1 \in 0 .. n + 1
      BY <1>2
    <3>2. at[i + 1] \in Nat /\ e <= at[i + 1]
      BY <1>3, <1>4, <3>1
    <3> QED BY <1>4, <3>2
  <2>2. 0 \in 0 .. n /\ at[0 + 1] - e = 0
    BY <1>2, <1>4
  <2> QED BY <2>1, <2>2
<1> HIDE DEF a, u, s
<1>8. \A i, k \in 0 .. n : i <= k => a[i] <= a[k]
  <2> SUFFICES ASSUME NEW i \in 0 .. n, NEW k \in 0 .. n, i <= k PROVE a[i] <= a[k]
    OBVIOUS
  <2>1. i + 1 \in 0 .. n + 1 /\ k + 1 \in 0 .. n + 1 /\ i + 1 <= k + 1
    BY <1>2
  <2>2. at[i + 1] <= at[k + 1] /\ at[i + 1] \in Nat /\ at[k + 1] \in Nat
    BY <1>3, <2>1
  <2> QED BY <1>4, <1>7, <2>2
<1>9. ASSUME NEW i \in 1 .. n PROVE ValueAt(c, u, s, a, i)
  <2>1. /\ i \in 0 .. n /\ i - 1 \in 0 .. n /\ i + 1 \in 1 .. n + 1 /\ (i + 1) - 1 = i
        /\ (i - 1) + 1 = i /\ i \in 0 .. n + 1 /\ i + 1 \in 0 .. n + 1 /\ i \in 1 .. n + 1
        /\ i + 1 <= n + 1
    BY <1>2
  <2>2. ValueAt(c, w, t, at, i + 1) /\ a[i] = at[i + 1] - e /\ a[i - 1] = at[i] - e /\ s[i] = t[i + 1]
    BY <1>3, <1>6, <1>7, <2>1
  <2>3. PICK f, q, y, g : /\ f = at[i] /\ q = at[i + 1] /\ y = BytesOf(c, t[i + 1])
                          /\ g = at[n + 1]
    <3>1. PICK f, q, y : f = at[i] /\ q = at[i + 1] /\ y = BytesOf(c, t[i + 1])
      OBVIOUS
    <3> QED BY <3>1
  <2>4. f \in Nat /\ q \in Nat /\ e <= f /\ q <= g /\ g \in Nat
    BY <1>2, <1>3, <1>4, <2>1, <2>3
  <2>5. Fits(c, t[i + 1]) /\ q = f + Len(y) /\ \A j \in 1 .. Len(y) : w[f + j] = y[j]
    BY <2>1, <2>2, <2>3 DEF ValueAt
  <2>6. Len(y) \in Nat
    BY <2>3, <2>5, FittingBytes
  <2>7. \A j \in 1 .. Len(y) : u[(f - e) + j] = y[j]
    <3> SUFFICES ASSUME NEW j \in 1 .. Len(y) PROVE u[(f - e) + j] = y[j]
      OBVIOUS
    <3>1. PICK k : k = (f - e) + j
      OBVIOUS
    <3>2. k \in 1 .. Len(w) - e /\ e + k = f + j
      <4>1. PICK m : m = Len(w)
        OBVIOUS
      <4>2. Len(w) = g + l /\ l \in Nat /\ e \in Nat
        BY <1>3, <1>4, <2>3
      <4>3. m = g + l /\ q = f + Len(y) /\ j \in 1 .. Len(y)
        BY <2>5, <4>1, <4>2
      <4>4. k \in 1 .. m - e /\ e + k = f + j
        BY ONLY <4>2, <4>3, <2>4, <2>6, <3>1
      <4> QED BY <4>1, <4>4
    <3>3. u[k] = w[e + k]
      BY <1>6, <3>2
    <3> QED BY <2>5, <3>1, <3>2, <3>3
  <2>8. a[i] = a[i - 1] + Len(y) /\ a[i - 1] = f - e
    BY <1>4, <2>2, <2>3, <2>4, <2>5, <2>6
  <2> QED BY <2>2, <2>3, <2>5, <2>7, <2>8 DEF ValueAt
<1>10. Len(u) = a[Len(s)] + l /\ \A j \in 1 .. l : u[a[Len(s)] + j] = BytesOf(c, v)[j]
  <2>1. PICK g : g = at[n + 1]
    OBVIOUS
  <2>2. g \in Nat /\ e <= g /\ a[Len(s)] = g - e /\ Len(w) = g + l
    <3>1. n \in 0 .. n /\ n + 1 \in 1 .. n + 1
      BY <1>2
    <3> QED BY <1>2, <1>3, <1>4, <1>6, <1>7, <2>1, <3>1
  <2>3. ASSUME NEW j \in 1 .. l PROVE u[(g - e) + j] = BytesOf(c, v)[j]
    <3>1. PICK k : k = (g - e) + j
      OBVIOUS
    <3>2. k \in 1 .. Len(w) - e /\ e + k = g + j
      BY <1>3, <1>4, <2>2, <3>1
    <3>3. u[k] = w[e + k]
      BY <1>6, <3>2
    <3>4. w[g + j] = BytesOf(c, v)[j]
      BY <1>3, <2>1
    <3> QED BY <3>1, <3>2, <3>3, <3>4
  <2>4. Len(u) = (g - e) + l
    <3>1. PICK h : h = Len(w)
      OBVIOUS
    <3>2. h = g + l /\ g \in Nat /\ e \in Nat /\ l \in Nat
      BY <1>3, <1>4, <2>2, <3>1
    <3>3. h - e = (g - e) + l
      BY ONLY <3>2
    <3> QED BY <1>6, <3>1, <3>3
  <2> QED BY <2>2, <2>3, <2>4
<1>11. Layout(c, u, s, a, v, l)
  BY <1>3, <1>6, <1>7, <1>8, <1>9, <1>10 DEF Layout
<1> QED BY <1>5, <1>11 DEF u, s

\* A buffer with no whole value left is refused.
LEMMA LayoutEnd ==
  ASSUME NEW c, NEW w \in Seq(Byte), NEW at, NEW v, NEW l, Layout(c, w, <<>>, at, v, l)
  PROVE  DecodeBy(c, w) = Error
<1>1. /\ at[0] = 0 /\ Fits(c, v) /\ l \in Nat /\ l < Len(BytesOf(c, v)) /\ Len(w) = 0 + l
      /\ \A j \in 1 .. l : w[0 + j] = BytesOf(c, v)[j]
  <2>1. Len(<<>>) = 0
    OBVIOUS
  <2> QED BY <2>1 DEF Layout
<1>2. Len(w) = l /\ Begins(w, BytesOf(c, v), Len(w))
  BY <1>1 DEF Begins
<1> QED BY <1>1, <1>2, DecodePart

(***************************************************************************)
(* The invariant of the codecs.                                            *)
(***************************************************************************)
\* The buffer holds whole values and perhaps the beginning of one more, or was never
\* encoded.
BufferOK ==
  /\ ending = "junk" => todo = <<>>
  /\ ending # "junk" =>
       \E at, v, l : Layout(codec, wire, todo, at, v, l) /\ (ending = "whole" => l = 0)

\* What holds of the last decoding and of the last value to encode.
DecodedRight(c, r) ==
  /\ r.expected # <<>> => r.got = Got(Head(r.expected), Len(BytesOf(c, Head(r.expected))))
  /\ r.expected = <<>> /\ r.end # "junk" => ~r.got.ok
  /\ r.got.ok => r.got.nBytes \in 1 .. Len(r.given) /\ r.got.value >= 0
EncodedRight(c, a) ==
  /\ a.value \in Int
  /\ a.ok <=> /\ a.value >= 0
              /\ c = "length" => a.value < LengthBound
Agreed == DecodedRight(codec, last) /\ EncodedRight(codec, asked)

CodecInv ==
  /\ wire \in Seq(Byte) /\ todo \in Seq(Int) /\ ending \in {"whole", "cut", "junk"}
  /\ BufferOK /\ Agreed

\* The encoder of the specification, with the codec as a parameter.
LEMMA EncodeIs == \A v : Encode(v) = EncodeBy(codec, v)
BY Zenon DEF Encode, EncodeBy

\* The decoder of the specification, with the codec as a parameter.
LEMMA DecodeIs == \A s : Decode(s) = DecodeBy(codec, s)
BY Zenon DEF Decode, DecodeBy

\* Agreed in its two parts.
LEMMA AgreedIs ==
  Agreed <=> (DecodedRight(codec, last) /\ EncodedRight(codec, asked))
BY DEF Agreed

\* The invariant holds of an empty buffer and of one nobody encoded.
LEMMA CodecInitInv ==
  ASSUME CodecInit
  PROVE  CodecInv
<1>1. DecodedRight(codec, last)
  <2>1. last = NoReading
    BY DEF CodecInit
  <2> QED BY <2>1 DEF NoReading, DecodedRight, Error
<1>2. EncodedRight(codec, asked)
  <2>1. asked = [value |-> 0, ok |-> TRUE]
    BY DEF CodecInit
  <2>2. 0 < LengthBound
    <3>1. TailBits * (Bits - 3) + 1 \in Nat
      <4>1. TailBits \in Nat /\ Bits - 3 \in Nat
        BY Widths
      <4> QED BY <4>1
    <3>2. LengthBound \in Nat \ {0}
      BY <3>1, PowerPositive DEF LengthBound
    <3> QED BY <3>2
  <2> QED BY <2>1, <2>2 DEF EncodedRight
<1>3. Agreed
  BY <1>1, <1>2, AgreedIs
<1>4. CASE wire = <<>> /\ ending = "whole"
  <2>1. todo = <<>>
    BY DEF CodecInit
  <2>2. PICK at : Layout(codec, <<>>, <<>>, at, 0, 0)
    BY ZeroFits, LayoutEmpty
  <2>3. BufferOK
    BY <1>4, <2>1, <2>2 DEF BufferOK
  <2>4. <<>> \in Seq(Byte) /\ <<>> \in Seq(Int)
    OBVIOUS
  <2> QED BY <1>3, <1>4, <2>1, <2>3, <2>4 DEF CodecInv
<1>5. CASE ending = "junk" /\ wire \in UNION {[1 .. n -> Byte] : n \in 1 .. MaxJunk}
  <2>1. PICK n \in 1 .. MaxJunk : wire \in [1 .. n -> Byte]
    BY <1>5
  <2>2. n \in Nat
    BY BitsAssumption
  <2>3. wire \in Seq(Byte)
    BY <2>1, <2>2
  <2>4. todo = <<>> /\ <<>> \in Seq(Int)
    BY DEF CodecInit
  <2> QED BY <1>3, <1>5, <2>3, <2>4 DEF CodecInv, BufferOK
<1> QED BY <1>4, <1>5 DEF CodecInit

\* Writing a value keeps the invariant, be it encoded or refused.
LEMMA WriteKeeps ==
  ASSUME CodecInv, NEW x \in Values, Write(x)
  PROVE  CodecInv'
<1>1. /\ ending = "whole" /\ codec' = codec /\ ending' = ending /\ last' = last
      /\ asked' = [value |-> x, ok |-> EncodeBy(codec, x).ok]
      /\ x \in Int /\ x < 2^(Bits * Bits - 1)
  BY EncodeIs, BitsAssumption DEF Write
<1>2. DecodedRight(codec, last) /\ EncodedRight(codec, asked)
  BY AgreedIs DEF CodecInv
<1>3. EncodedRight(codec, asked')
  BY <1>1, EncodedWhen DEF EncodedRight
<1>4. (Agreed <=> (DecodedRight(codec, last) /\ EncodedRight(codec, asked)))'
  BY AgreedIs, PTL
<1>5. Agreed'
  BY <1>1, <1>2, <1>3, <1>4
<1>6. PICK at, v : Layout(codec, wire, todo, at, v, 0)
  BY <1>1 DEF CodecInv, BufferOK
<1>7. CASE EncodeBy(codec, x).ok
  <2>1. PICK b : b = BytesOf(codec, x)
    OBVIOUS
  <2>2. wire' = wire \o b /\ todo' = Append(todo, x)
    BY <1>7, <2>1, EncodeIs DEF Write, BytesOf
  <2>3. Fits(codec, x)
    BY <1>1, <1>7 DEF Fits
  <2>4. PICK a : Layout(codec, wire \o b, Append(todo, x), a, v, 0)
    BY <1>6, <2>1, <2>3, LayoutWrite DEF CodecInv
  <2>5. wire' \in Seq(Byte) /\ todo' \in Seq(Int)
    BY <1>1, <2>1, <2>2, <2>3, FittingBytes DEF CodecInv
  <2> QED BY <1>1, <1>5, <2>2, <2>4, <2>5 DEF CodecInv, BufferOK
<1>8. CASE ~EncodeBy(codec, x).ok
  <2>1. wire' = wire /\ todo' = todo
    BY <1>8, EncodeIs DEF Write
  <2> QED BY <1>1, <1>5, <2>1 DEF CodecInv, BufferOK
<1> QED BY <1>7, <1>8

\* Losing the last byte keeps the invariant: the last value is now the cut one.
LEMMA CutKeeps ==
  ASSUME CodecInv, Cut
  PROVE  CodecInv'
<1>1. /\ ending = "whole" /\ codec' = codec /\ ending' = "cut" /\ last' = last /\ asked' = asked
      /\ todo # <<>> /\ wire' = SubSeq(wire, 1, Len(wire) - 1)
      /\ todo' = SubSeq(todo, 1, Len(todo) - 1)
  BY DEF Cut
<1>2. DecodedRight(codec, last) /\ EncodedRight(codec, asked)
  BY AgreedIs DEF CodecInv
<1>3. (Agreed <=> (DecodedRight(codec, last) /\ EncodedRight(codec, asked)))'
  BY AgreedIs, PTL
<1>4. Agreed'
  BY <1>1, <1>2, <1>3
<1>5. PICK at, v : Layout(codec, wire, todo, at, v, 0)
  BY <1>1 DEF CodecInv, BufferOK
<1>6. wire \in Seq(Byte) /\ todo \in Seq(Int)
  BY DEF CodecInv
<1>7. PICK l : Layout(codec, wire', todo', [i \in 0 .. Len(todo) - 1 |-> at[i]], todo[Len(todo)], l)
  BY <1>1, <1>5, <1>6, LayoutCut
<1>8. wire' \in Seq(Byte) /\ todo' \in Seq(Int)
  <2>1. Len(wire) \in Nat /\ Len(todo) \in Nat
    BY <1>6
  <2>2. Len(wire) - 1 <= Len(wire) /\ Len(todo) - 1 <= Len(todo)
    BY <2>1
  <2> QED BY <1>1, <1>6, <2>1, <2>2
<1> QED BY <1>1, <1>4, <1>7, <1>8 DEF CodecInv, BufferOK

\* Reading keeps the invariant: the values that follow move to the front.
LEMMA ReadKeeps ==
  ASSUME CodecInv, Read
  PROVE  CodecInv'
<1>1. PICK r : r = DecodeBy(codec, wire)
  OBVIOUS
<1>2. /\ last' = [given |-> wire, got |-> r, expected |-> todo, end |-> ending]
      /\ wire' = (IF r.ok THEN SubSeq(wire, r.nBytes + 1, Len(wire)) ELSE <<>>)
      /\ todo' = (IF todo = <<>> THEN <<>> ELSE Tail(todo))
      /\ codec' = codec /\ ending' = ending /\ asked' = asked
  BY <1>1, DecodeIs DEF Read
<1>3. /\ wire \in Seq(Byte) /\ todo \in Seq(Int) /\ ending \in {"whole", "cut", "junk"}
      /\ BufferOK /\ EncodedRight(codec, asked)
  BY AgreedIs DEF CodecInv
<1>4. (Agreed <=> (DecodedRight(codec, last) /\ EncodedRight(codec, asked)))'
  BY AgreedIs, PTL
<1>5. r.ok => r.nBytes \in 1 .. Len(wire) /\ r.value \in Nat
  BY <1>1, <1>3, DecodeAny
<1>6. todo' \in Seq(Int)
  BY <1>2, <1>3
<1>7. wire' \in Seq(Byte)
  <2>1. CASE r.ok
    <3>1. r.nBytes + 1 \in 1 .. Len(wire) + 1
      BY <1>3, <1>5, <2>1
    <3> QED BY <1>2, <1>3, <2>1, <3>1
  <2>2. CASE ~r.ok
    BY <1>2, <2>2
  <2> QED BY <2>1, <2>2
<1>8. CASE ending = "junk"
  <2>1. todo = <<>>
    BY <1>3, <1>8 DEF BufferOK
  <2>2. DecodedRight(codec, last')
    BY <1>2, <1>5, <1>8, <2>1 DEF DecodedRight
  <2> QED BY <1>2, <1>3, <1>4, <1>6, <1>7, <1>8, <2>1, <2>2 DEF CodecInv, BufferOK
<1>9. CASE ending # "junk"
  <2>1. PICK at, v, l : Layout(codec, wire, todo, at, v, l) /\ (ending = "whole" => l = 0)
    BY <1>3, <1>9 DEF BufferOK
  <2>2. CASE todo = <<>>
    <3>1. r = Error
      BY <1>1, <1>3, <2>1, <2>2, LayoutEnd
    <3>2. wire' = <<>> /\ todo' = <<>>
      BY <1>2, <2>2, <3>1 DEF Error
    <3>3. DecodedRight(codec, last')
      BY <1>2, <2>2, <3>1 DEF DecodedRight, Error
    <3>4. PICK a : Layout(codec, <<>>, <<>>, a, v, 0)
      BY <2>1, LayoutEmpty DEF Layout
    <3> QED BY <1>2, <1>3, <1>4, <1>6, <1>7, <1>9, <3>2, <3>3, <3>4 DEF CodecInv, BufferOK
  <2>3. CASE todo # <<>>
    <3>1. PICK e, x : e = Len(BytesOf(codec, todo[1])) /\ x = todo[1]
      OBVIOUS
    <3>2. r = Got(x, e) /\ \E a : Layout(codec, SubSeq(wire, e + 1, Len(wire)), Tail(todo), a, v, l)
      BY <1>1, <1>3, <2>1, <2>3, <3>1, LayoutRead
    <3>3. r.ok /\ r.nBytes = e
      BY <3>2 DEF Got
    <3>4. wire' = SubSeq(wire, e + 1, Len(wire)) /\ todo' = Tail(todo)
      BY <1>2, <2>3, <3>3
    <3>5. Head(todo) = x
      BY <1>3, <2>3, <3>1
    <3>6. r.nBytes \in 1 .. Len(wire) /\ r.value >= 0
      BY <1>5, <3>3
    <3>7. DecodedRight(codec, last')
      BY <1>2, <2>3, <3>1, <3>2, <3>5, <3>6 DEF DecodedRight
    <3> QED BY <1>2, <1>3, <1>4, <1>6, <1>7, <1>9, <2>1, <3>2, <3>4, <3>7 DEF CodecInv, BufferOK
  <2> QED BY <2>2, <2>3
<1> QED BY <1>8, <1>9

\* The buffer is always the encodings of the values still to be read, one after the other,
\* and then at most the beginning of one more (strings.hpp, Length and Leb128).
THEOREM CodecInvariant == CodecSpec => []CodecInv
<1>1. CodecInv /\ [CodecNext]_codecVars => CodecInv'
  <2> SUFFICES ASSUME CodecInv, [CodecNext]_codecVars PROVE CodecInv'
    OBVIOUS
  <2>1. CASE UNCHANGED codecVars
    <3>1. codec' = codec /\ wire' = wire /\ ending' = ending /\ todo' = todo /\ asked' = asked
          /\ last' = last
      BY <2>1 DEF codecVars
    <3>2. (Agreed <=> (DecodedRight(codec, last) /\ EncodedRight(codec, asked)))'
      BY AgreedIs, PTL
    <3>3. Agreed'
      BY <3>1, <3>2, AgreedIs DEF CodecInv
    <3> QED BY <3>1, <3>3 DEF CodecInv, BufferOK
  <2> QED BY <2>1, WriteKeeps, CutKeeps, ReadKeeps DEF CodecNext
<1> QED BY <1>1, CodecInitInv, PTL DEF CodecSpec

\* What was agreed is the property: Length refuses more than its range check does.
LEMMA AgreedEnough ==
  ASSUME Agreed
  PROVE  CodecsAgree
<1>1. DecodedRight(codec, last) /\ EncodedRight(codec, asked)
  BY AgreedIs
<1>2. asked.ok /\ codec = "length" => LengthInRange(asked.value)
  <2>1. PICK v \in Int : v = asked.value
    BY <1>1 DEF EncodedRight
  <2>2. ASSUME asked.ok, codec = "length" PROVE LengthEncode(v).ok
    BY <1>1, <2>1, <2>2, LengthOk DEF EncodedRight
  <2>3. LengthEncode(v).ok => LengthInRange(v)
    BY Zenon DEF LengthEncode
  <2> QED BY <2>1, <2>2, <2>3
<1>3. /\ asked.ok => asked.value >= 0
      /\ asked.value >= 0 /\ (codec = "length" => asked.value < LengthBound) => asked.ok
  BY <1>1, Zenon DEF EncodedRight
<1>4. DecodedRight(codec, last)
  BY <1>1
<1> QED BY <1>2, <1>3, <1>4, EncodeIs, Zenon DEF CodecsAgree, DecodedRight, LengthBound, BytesOf

\* CodecsAgree for every width of a byte above four and every set of signed values of Bits
\* bytes: what was written is read back in order, and nothing else is taken for a value.
THEOREM CodecsRoundTrip == CodecSpec => []CodecsAgree
<1>1. CodecInv => CodecsAgree
  BY AgreedEnough DEF CodecInv
<1> QED BY <1>1, CodecInvariant, PTL

(***************************************************************************)
(* Bits: bytes of 4 * Unit, digits of 2 * Unit and 3 * Unit.               *)
(***************************************************************************)
\* The powers of two by which bytes are taken apart.
LEMMA UnitPowers ==
  /\ 2^Unit \in Nat \ {0} /\ 2^Unit >= 2 /\ 2^(2 * Unit) \in Nat \ {0} /\ 2^(3 * Unit) \in Nat \ {0}
  /\ 2^(2 * Unit) = 2^Unit * 2^Unit
  /\ 2^(3 * Unit) = 2^Unit * 2^(2 * Unit)
  /\ 2^(4 * Unit) = 2^Unit * 2^(3 * Unit)
  /\ 2^(4 * Unit) = 2^(2 * Unit) * 2^(2 * Unit)
<1>1. PICK n, m : n = Unit /\ m = Unit - 1
  OBVIOUS
<1>2. n \in Nat /\ m \in Nat /\ m + 1 = n /\ 2 * n \in Nat /\ 3 * n \in Nat
      /\ n + n = 2 * n /\ n + 2 * n = 3 * n /\ n + 3 * n = 4 * n /\ 2 * n + 2 * n = 4 * n
  BY <1>1, TextAssumption
<1>3. 2^n \in Nat \ {0} /\ 2^(2 * n) \in Nat \ {0} /\ 2^(3 * n) \in Nat \ {0} /\ 2^m \in Nat \ {0}
  BY <1>2, PowerPositive
<1>4. 2^(n + n) = 2^n * 2^n
  BY <1>2, PowerSum
<1>5. 2^(n + 2 * n) = 2^n * 2^(2 * n)
  BY <1>2, PowerSum
<1>6. 2^(n + 3 * n) = 2^n * 2^(3 * n)
  BY <1>2, PowerSum
<1>7. 2^(2 * n + 2 * n) = 2^(2 * n) * 2^(2 * n)
  BY <1>2, PowerSum
<1>8. 2^n >= 2
  <2>1. 2^(m + 1) = 2^m + 2^m
    BY <1>2, PowerStep
  <2> QED BY <1>2, <1>3, <2>1
<1> QED BY <1>1, <1>2, <1>3, <1>4, <1>5, <1>6, <1>7, <1>8

\* A number put together from a high and a low part is taken apart into them.
LEMMA Glued ==
  ASSUME NEW n \in Nat \ {0}, NEW q \in Nat, NEW r \in 0 .. n - 1
  PROVE  /\ (q * n + r) \div n = q /\ (q * n + r) % n = r
         /\ q * n + r \in Nat
         /\ \A m \in Nat : q < m => q * n + r < m * n
<1>1. PICK x : x = q * n
  OBVIOUS
<1>2. x \in Nat /\ x = n * q /\ x + r \in Int /\ q \in Int /\ r \in Int
  BY <1>1
<1>3. (x + r) \div n = q /\ (x + r) % n = r
  BY ONLY <1>2, n \in Nat \ {0}, r \in 0 .. n - 1, DivModUnique
<1>4. ASSUME NEW m \in Nat, q < m PROVE x + r < m * n
  <2>1. PICK k : k = m - (q + 1)
    OBVIOUS
  <2>2. k \in Nat /\ m = q + 1 + k
    BY <1>4, <2>1
  <2>3. m * n = n * q + n + k * n /\ k * n \in Nat
    BY <2>2
  <2> QED BY <1>2, <2>3
<1> QED BY <1>1, <1>2, <1>3, <1>4

TextByte == 0 .. 2^(4 * Unit) - 1
Digit == 0 .. Base("base64") - 1

\* A quotient of a byte is below the cofactor, a remainder below the divisor.
LEMMA Parts ==
  ASSUME NEW x \in Nat, NEW n \in Nat \ {0}, NEW m \in Nat \ {0}, x < m * n
  PROVE  x \div n \in 0 .. m - 1 /\ x % n \in 0 .. n - 1 /\ (x \div n) * n + (x % n) = x
<1>1. PICK q, r : q = x \div n /\ r = x % n
  OBVIOUS
<1>2. x = n * q + r /\ r \in 0 .. n - 1 /\ q \in Int
  BY <1>1, DivMod
<1>3. x \div n \in Nat /\ (x \div n < m <=> x < m * n)
  BY DivBelow
<1>4. q \in Nat /\ q < m /\ q * n + r = x
  BY <1>1, <1>2, <1>3
<1> QED BY <1>1, <1>2, <1>4

\* The parts a byte is cut into, and the digits they are put into.
LEMMA ByteParts ==
  ASSUME NEW x \in TextByte
  PROVE  /\ x \div 2^Unit \in 0 .. 2^(3 * Unit) - 1 /\ x % 2^Unit \in 0 .. 2^Unit - 1
         /\ (x \div 2^Unit) * 2^Unit + (x % 2^Unit) = x
         /\ x \div 2^(2 * Unit) \in 0 .. 2^(2 * Unit) - 1
         /\ x % 2^(2 * Unit) \in 0 .. 2^(2 * Unit) - 1
         /\ (x \div 2^(2 * Unit)) * 2^(2 * Unit) + (x % 2^(2 * Unit)) = x
         /\ x \div 2^(3 * Unit) \in 0 .. 2^Unit - 1 /\ x % 2^(3 * Unit) \in 0 .. 2^(3 * Unit) - 1
         /\ (x \div 2^(3 * Unit)) * 2^(3 * Unit) + (x % 2^(3 * Unit)) = x
<1>1. PICK a, b, c : a = 2^Unit /\ b = 2^(2 * Unit) /\ c = 2^(3 * Unit)
  OBVIOUS
<1>2. /\ a \in Nat \ {0} /\ b \in Nat \ {0} /\ c \in Nat \ {0}
      /\ 2^(4 * Unit) = a * c /\ 2^(4 * Unit) = b * b
  BY <1>1, UnitPowers
<1>3. a * c = c * a /\ a * c \in Nat
  BY <1>2
<1>4. x \in Nat /\ x < a * c /\ x < b * b /\ x < c * a
  BY <1>2, <1>3 DEF TextByte
<1>5. x \div a \in 0 .. c - 1 /\ x % a \in 0 .. a - 1 /\ (x \div a) * a + (x % a) = x
  BY ONLY <1>2, <1>4, Parts
<1>6. x \div b \in 0 .. b - 1 /\ x % b \in 0 .. b - 1 /\ (x \div b) * b + (x % b) = x
  BY ONLY <1>2, <1>4, Parts
<1>7. x \div c \in 0 .. a - 1 /\ x % c \in 0 .. c - 1 /\ (x \div c) * c + (x % c) = x
  BY ONLY <1>2, <1>4, Parts
<1> QED BY <1>1, <1>5, <1>6, <1>7

\* A block of three bytes is written with digits.
LEMMA DigitsOfBlock ==
  ASSUME NEW b \in [1 .. 3 -> TextByte], NEW i \in 0 .. 3
  PROVE  DigitOfBlock(b, i) \in Digit
<1>1. PICK u, v, w : u = 2^Unit /\ v = 2^(2 * Unit) /\ w = 2^(3 * Unit)
  OBVIOUS
<1>2. /\ u \in Nat \ {0} /\ v \in Nat \ {0} /\ w \in Nat \ {0}
      /\ w = u * v /\ w = v * u /\ Digit = 0 .. w - 1
  <2>1. Base("base64") = w
    BY <1>1 DEF Base
  <2>2. u \in Nat \ {0} /\ v \in Nat \ {0} /\ w = u * v
    BY <1>1, UnitPowers
  <2>3. u * v = v * u
    BY <2>2
  <2> QED BY <1>1, <2>1, <2>2, <2>3, UnitPowers DEF Digit
<1>3. CASE i = 0
  <2>1. b[1] \in TextByte
    OBVIOUS
  <2>2. b[1] \div u \in 0 .. w - 1
    BY <1>1, <2>1, ByteParts
  <2> QED BY <1>1, <1>2, <1>3, <2>2 DEF DigitOfBlock
<1>4. CASE i = 1
  <2>1. b[1] \in TextByte /\ b[2] \in TextByte
    OBVIOUS
  <2>2. PICK q, r : q = b[1] % u /\ r = b[2] \div v
    OBVIOUS
  <2>3. q \in 0 .. u - 1
    BY <1>1, <2>1, <2>2, ByteParts
  <2>4. r \in 0 .. v - 1
    BY <1>1, <2>1, <2>2, ByteParts
  <2>5. q \in Nat /\ q < u
    BY <1>2, <2>3
  <2>6. q * v + r \in Nat /\ q * v + r < u * v
    BY <1>2, <2>4, <2>5, Glued
  <2>7. DigitOfBlock(b, i) = q * v + r
    BY <1>1, <1>4, <2>2 DEF DigitOfBlock
  <2> QED BY <1>2, <2>6, <2>7
<1>5. CASE i = 2
  <2>1. b[2] \in TextByte /\ b[3] \in TextByte
    OBVIOUS
  <2>2. PICK q, r : q = b[2] % v /\ r = b[3] \div w
    OBVIOUS
  <2>3. q \in 0 .. v - 1
    BY <1>1, <2>1, <2>2, ByteParts
  <2>4. r \in 0 .. u - 1
    BY <1>1, <2>1, <2>2, ByteParts
  <2>5. q \in Nat /\ q < v
    BY <1>2, <2>3
  <2>6. q * u + r \in Nat /\ q * u + r < v * u
    BY <1>2, <2>4, <2>5, Glued
  <2>7. DigitOfBlock(b, i) = q * u + r
    BY <1>1, <1>5, <2>2 DEF DigitOfBlock
  <2> QED BY <1>2, <2>6, <2>7
<1>6. CASE i = 3
  <2>1. b[3] \in TextByte
    OBVIOUS
  <2>2. b[3] % w \in 0 .. w - 1
    BY <1>1, <2>1, ByteParts
  <2> QED BY <1>1, <1>2, <1>6, <2>2 DEF DigitOfBlock
<1> QED BY <1>3, <1>4, <1>5, <1>6

\* A byte is put together again from the two digits it went into.
LEMMA ByteBack ==
  ASSUME NEW b \in [1 .. 3 -> TextByte], NEW p \in 0 .. 2, NEW d,
         d[p + 1] = DigitOfBlock(b, p), d[p + 2] = DigitOfBlock(b, p + 1)
  PROVE  ByteOfBlock(d, p) = b[p + 1]
<1>1. PICK u, v, w : u = 2^Unit /\ v = 2^(2 * Unit) /\ w = 2^(3 * Unit)
  OBVIOUS
<1>2. u \in Nat \ {0} /\ v \in Nat \ {0} /\ w \in Nat \ {0}
  BY <1>1, UnitPowers
<1>3. PICK x, y, z : x = b[1] /\ y = b[2] /\ z = b[3]
  OBVIOUS
<1>4. x \in TextByte /\ y \in TextByte /\ z \in TextByte
  BY <1>3
<1>5. x % u \in 0 .. u - 1 /\ (x \div u) * u + (x % u) = x /\ x \div u \in Nat
  BY <1>1, <1>2, <1>4, ByteParts
<1>6. /\ y % v \in 0 .. v - 1 /\ (y \div v) * v + (y % v) = y
      /\ y \div v \in 0 .. v - 1 /\ y \div v \in Nat
  BY <1>1, <1>2, <1>4, ByteParts
<1>7. /\ z % w \in 0 .. w - 1 /\ (z \div w) * w + (z % w) = z
      /\ z \div w \in 0 .. u - 1 /\ z \div w \in Nat
  BY <1>1, <1>2, <1>4, ByteParts
<1>8. /\ DigitOfBlock(b, 0) = x \div u /\ DigitOfBlock(b, 1) = (x % u) * v + y \div v
      /\ DigitOfBlock(b, 2) = (y % v) * u + z \div w /\ DigitOfBlock(b, 3) = z % w
  BY <1>1, <1>3 DEF DigitOfBlock
<1>9. CASE p = 0
  <2>1. d[1] = x \div u /\ d[2] = (x % u) * v + y \div v
    BY <1>8, <1>9
  <2>2. PICK q, r : q = x % u /\ r = y \div v
    OBVIOUS
  <2>3. q \in Nat /\ r \in 0 .. v - 1
    BY <1>2, <1>5, <1>6, <2>2
  <2>4. (q * v + r) \div v = q
    BY <1>2, <2>3, Glued
  <2>5. ByteOfBlock(d, p) = d[1] * u + d[2] \div v
    BY <1>1, <1>9 DEF ByteOfBlock
  <2> QED BY <1>3, <1>5, <1>9, <2>1, <2>2, <2>4, <2>5
<1>10. CASE p = 1
  <2>1. d[2] = (x % u) * v + y \div v /\ d[3] = (y % v) * u + z \div w
    BY <1>8, <1>10
  <2>2. PICK q, r, s, t : q = x % u /\ r = y \div v /\ s = y % v /\ t = z \div w
    <3>1. PICK q, r : q = x % u /\ r = y \div v
      OBVIOUS
    <3>2. PICK s, t : s = y % v /\ t = z \div w
      OBVIOUS
    <3> QED BY <3>1, <3>2
  <2>3. q \in Nat /\ r \in 0 .. v - 1 /\ s \in Nat /\ t \in 0 .. u - 1
    BY <1>2, <1>5, <1>6, <1>7, <2>2
  <2>4. (q * v + r) % v = r
    BY <1>2, <2>3, Glued
  <2>5. (s * u + t) \div u = s
    BY <1>2, <2>3, Glued
  <2>6. ByteOfBlock(d, p) = (d[2] % v) * v + d[3] \div u
    BY <1>1, <1>10 DEF ByteOfBlock
  <2> QED BY <1>3, <1>6, <1>10, <2>1, <2>2, <2>4, <2>5, <2>6
<1>11. CASE p = 2
  <2>1. d[3] = (y % v) * u + z \div w /\ d[4] = z % w
    BY <1>8, <1>11
  <2>2. PICK s, t : s = y % v /\ t = z \div w
    OBVIOUS
  <2>3. s \in Nat /\ t \in 0 .. u - 1
    BY <1>2, <1>6, <1>7, <2>2
  <2>4. (s * u + t) % u = t
    BY <1>2, <2>3, Glued
  <2>5. ByteOfBlock(d, p) = (d[3] % u) * w + d[4]
    BY <1>1, <1>11 DEF ByteOfBlock
  <2> QED BY <1>3, <1>7, <1>11, <2>1, <2>2, <2>4, <2>5
<1> QED BY <1>9, <1>10, <1>11
\* A function on 1 .. n is a sequence of n elements.
LEMMA FunctionSeq ==
  ASSUME NEW S, NEW n \in Nat, NEW f \in [1 .. n -> S]
  PROVE  f \in Seq(S) /\ Len(f) = n
OBVIOUS

\* What a result is.
LEMMA OkIsOk ==
  ASSUME NEW v, NEW e, e = Ok(v)
  PROVE  e.ok <=> TRUE
<1>1. [ok |-> TRUE, out |-> v].ok
  OBVIOUS
<1>2. Ok(v).ok
  BY <1>1, Zenon DEF Ok
<1>3. e.ok
  BY <1>2, Zenon
<1> QED BY <1>3, Zenon

(***************************************************************************)
(* Base64: what the encoder writes.                                        *)
(***************************************************************************)
Groups(in) == (Len(in) + 2) \div 3
Digits(in) == Len(in) + Groups(in)

\* The number of digits: the last group has two, three or all four.
LEMMA DigitsCount ==
  ASSUME NEW n \in Nat \ {0}, NEW k, NEW m, k = (n + 2) \div 3, m = n + k
  PROVE  /\ k \in Nat \ {0} /\ m \in (4 * k) - 2 .. 4 * k
         /\ (3 * m) \div 4 = n
         /\ n \in (3 * k) - 2 .. 3 * k
<1>1. PICK r : r = (n + 2) % 3
  OBVIOUS
<1>2. n + 2 = 3 * k + r /\ r \in 0 .. 2 /\ k \in Int
  BY <1>1, DivMod
<1>3. k \in Nat \ {0} /\ m = 4 * k + r - 2 /\ m \in Nat
  BY <1>2
<1>4. 3 * m = 4 * n + (2 - r) /\ 2 - r \in 0 .. 3 /\ 3 * m \in Int /\ n \in Int
  BY <1>2, <1>3
<1>5. (3 * m) \div 4 = n
  BY ONLY <1>4, 4 \in Nat \ {0}, DivModUnique
<1> QED BY <1>2, <1>3, <1>5

\* A block of the data.
LEMMA BlockOfData ==
  ASSUME NEW in \in Seq(TextByte), NEW k \in Nat
  PROVE  /\ Block(in, k, 3) \in [1 .. 3 -> TextByte]
         /\ \A i \in 1 .. 3 : k * 3 + i <= Len(in) => Block(in, k, 3)[i] = in[k * 3 + i]
<1>1. 0 \in TextByte
  <2>1. 2^(4 * Unit) \in Nat \ {0}
    <3>1. 4 * Unit \in Nat
      BY TextAssumption
    <3> QED BY <3>1, PowerPositive
  <2> QED BY <2>1 DEF TextByte
<1>2. ASSUME NEW i \in 1 .. 3, k * 3 + i <= Len(in) PROVE in[k * 3 + i] \in TextByte
  <2>1. k * 3 + i \in 1 .. Len(in)
    BY <1>2
  <2> QED BY <2>1
<1> QED BY <1>1, <1>2 DEF Block

\* The encoding: whole groups of four, the digits first and then the padding.
LEMMA Base64Shape ==
  ASSUME NEW in \in Seq(TextByte), in # <<>>, NEW e, e = Base64Encode(in)
  PROVE  /\ e.ok <=> TRUE
         /\ e.out \in Seq(Digit \cup {Pad("base64")}) /\ Len(e.out) = 4 * Groups(in)
         /\ \A i \in 1 .. 4 * Groups(in) :
              /\ i <= Digits(in) => /\ e.out[i] \in Digit
                                    /\ e.out[i] = DigitOfBlock(Block(in, (i - 1) \div 4, 3), (i - 1) % 4)
              /\ i > Digits(in) => e.out[i] = Pad("base64")
<1> DEFINE f == [i \in 1 .. 4 * Groups(in) |->
                 IF i <= Digits(in) THEN DigitOfBlock(Block(in, (i - 1) \div 4, 3), (i - 1) % 4)
                                ELSE Pad("base64")]
<1>1. e = Ok(f)
  BY Zenon DEF Base64Encode, Groups, Digits
<1>2. e.out = f
  <2> HIDE DEF f
  <2> QED BY <1>1 DEF Ok
<1> HIDE DEF f
<1>10. e.ok <=> TRUE
  BY <1>1, OkIsOk
<1> USE DEF f
<1>3. Len(in) \in Nat \ {0}
  OBVIOUS
<1>4. Groups(in) \in Nat \ {0} /\ Digits(in) \in Nat
  BY <1>3, DigitsCount DEF Groups, Digits
<1>5. ASSUME NEW i \in 1 .. 4 * Groups(in)
      PROVE  DigitOfBlock(Block(in, (i - 1) \div 4, 3), (i - 1) % 4) \in Digit
  <2>1. PICK q, r : q = (i - 1) \div 4 /\ r = (i - 1) % 4
    OBVIOUS
  <2>2. i - 1 \in Nat
    BY <1>4
  <2>3. i - 1 = 4 * q + r /\ r \in 0 .. 3 /\ q \in Int
    <3>1. PICK x : x = i - 1
      OBVIOUS
    <3>2. x \in Int /\ q = x \div 4 /\ r = x % 4
      BY <2>1, <2>2, <3>1
    <3>3. x = 4 * q + r /\ r \in 0 .. 4 - 1 /\ q \in Int
      BY ONLY <3>2, 4 \in Nat \ {0}, DivMod
    <3> QED BY <3>1, <3>3
  <2>4. q \in Nat
    BY <2>2, <2>3
  <2>5. Block(in, q, 3) \in [1 .. 3 -> TextByte]
    BY <2>4, BlockOfData
  <2> QED BY <2>1, <2>3, <2>5, DigitsOfBlock
<1>6. f \in [1 .. 4 * Groups(in) -> Digit \cup {Pad("base64")}]
  BY <1>5
<1>7. 4 * Groups(in) \in Nat
  BY <1>4
<1>8. f \in Seq(Digit \cup {Pad("base64")}) /\ Len(f) = 4 * Groups(in)
  <2> HIDE DEF f
  <2>1. PICK m : m = 4 * Groups(in)
    OBVIOUS
  <2>2. f \in [1 .. m -> Digit \cup {Pad("base64")}] /\ m \in Nat
    BY <1>6, <1>7, <2>1
  <2>3. f \in Seq(Digit \cup {Pad("base64")}) /\ Len(f) = m
    BY ONLY <2>2, FunctionSeq
  <2> QED BY <2>1, <2>3
<1>9. ASSUME NEW i \in 1 .. 4 * Groups(in)
      PROVE  /\ i <= Digits(in) => /\ f[i] \in Digit
                                   /\ f[i] = DigitOfBlock(Block(in, (i - 1) \div 4, 3), (i - 1) % 4)
             /\ i > Digits(in) => f[i] = Pad("base64")
  BY <1>4, <1>5
<1> HIDE DEF f
<1> QED BY <1>2, <1>8, <1>9, <1>10
\* The first m elements of a sequence.
LEMMA FirstElements ==
  ASSUME NEW S, NEW t \in Seq(S), NEW m \in 0 .. Len(t)
  PROVE  /\ SubSeq(t, 1, m) \in Seq(S) /\ Len(SubSeq(t, 1, m)) = m
         /\ \A j \in 1 .. m : SubSeq(t, 1, m)[j] = t[j]
<1>1. Len(t) \in Nat /\ 1 \in Int /\ m \in Int /\ m \in Nat
  OBVIOUS
<1>2. \A j \in 1 .. m : t[j] \in S
  BY <1>1
<1>3. /\ SubSeq(t, 1, m) \in Seq(S) /\ Len(SubSeq(t, 1, m)) = IF 1 <= m THEN m - 1 + 1 ELSE 0
      /\ \A j \in 1 .. m - 1 + 1 : SubSeq(t, 1, m)[j] = t[1 + j - 1]
  BY ONLY <1>1, <1>2, SubSeqProperties
<1> QED BY <1>1, <1>3

\* A call that fails does not succeed (the record Err of the encoders and decoders).
LEMMA ErrIsNotOk ==
  ASSUME NEW e, e = Err
  PROVE  e.ok <=> FALSE
<1>1. ~[ok |-> FALSE, out |-> <<>>].ok
  OBVIOUS
<1>2. ~Err.ok
  BY <1>1, Zenon DEF Err
<1>3. ~e.ok
  BY <1>2, Zenon
<1> QED BY <1>3, Zenon

\* The digits are told from the padding.
LEMMA DigitOrPad ==
  /\ Base("base64") \in Nat \ {0} /\ Base("base64") >= 8 /\ Digit \subseteq Nat
  /\ Pad("base64") \in Nat \ Digit
<1>1. PICK u, v, w : u = 2^Unit /\ v = 2^(2 * Unit) /\ w = 2^(3 * Unit)
  OBVIOUS
<1>2. u \in Nat /\ u >= 2 /\ w \in Nat /\ v = u * u /\ w = u * v /\ v \in Nat
  BY <1>1, UnitPowers
<1>3. v >= u + u
  <2>1. PICK x : x = u - 2
    OBVIOUS
  <2>2. x \in Nat /\ u * u = x * u + (u + u) /\ x * u \in Nat
    BY <1>2, <2>1
  <2> QED BY <1>2, <2>2
<1>4. w >= v + v
  <2>1. PICK x : x = u - 2
    OBVIOUS
  <2>2. x \in Nat /\ u * v = x * v + (v + v) /\ x * v \in Nat
    BY <1>2, <2>1
  <2> QED BY <1>2, <2>2
<1>5. Base("base64") = w
  BY <1>1 DEF Base
<1>6. w >= 8
  BY <1>2, <1>3, <1>4
<1> QED BY <1>2, <1>5, <1>6 DEF Digit, Pad

(***************************************************************************)
(* Base64: what the decoder refuses and accepts.                           *)
(***************************************************************************)
\* At most two symbols at the end are taken off, and they are padding.
LEMMA PaddingAtEnd ==
  ASSUME NEW t, Len(t) \in Nat, Len(t) >= 2
  PROVE  /\ Padding(t) \in 0 .. 2
         /\ \A i \in 1 .. Len(t) : i > Len(t) - Padding(t) => t[i] = Pad("base64")
<1>1. CASE t[Len(t)] # Pad("base64")
  <2>1. Padding(t) = 0
    BY <1>1 DEF Padding
  <2> QED BY <2>1
<1>2. CASE t[Len(t)] = Pad("base64") /\ t[Len(t) - 1] = Pad("base64")
  <2>1. Padding(t) = 2
    BY <1>2 DEF Padding
  <2>2. ASSUME NEW i \in 1 .. Len(t), i > Len(t) - 2 PROVE i = Len(t) \/ i = Len(t) - 1
    BY <2>2
  <2> QED BY <1>2, <2>1, <2>2
<1>3. CASE t[Len(t)] = Pad("base64") /\ t[Len(t) - 1] # Pad("base64")
  <2>1. Padding(t) = 1
    BY <1>3 DEF Padding
  <2>2. ASSUME NEW i \in 1 .. Len(t), i > Len(t) - 1 PROVE i = Len(t)
    BY <2>2
  <2> QED BY <1>3, <2>1, <2>2
<1> QED BY <1>1, <1>2, <1>3

\* A text is refused for any symbol before the padding that is no digit.
LEMMA NoDigitRefused ==
  ASSUME NEW t \in Seq(Nat), NEW k \in Nat \ {0}, Len(t) = 4 * k,
         NEW i \in 1 .. Len(t) - Padding(t), t[i] \notin Digit
  PROVE  Base64Decode(t) = Err
<1> DEFINE d == SubSeq(t, 1, Len(t) - Padding(t))
<1>1. Len(t) \in Nat /\ Len(t) >= 2
  OBVIOUS
<1>2. PICK m : m = Len(t) - Padding(t)
  OBVIOUS
<1>3. m \in Nat /\ m <= Len(t)
  BY <1>1, <1>2, PaddingAtEnd
<1>4. d = SubSeq(t, 1, m) /\ i \in 1 .. m
  BY <1>2
<1>5. \A j \in 1 .. m : t[j] \in Nat
  BY <1>3
<1> HIDE DEF d
<1>6. Len(d) = m /\ d[i] = t[i]
  <2>1. m \in 0 .. Len(t)
    BY <1>3
  <2>2. Len(SubSeq(t, 1, m)) = m /\ \A j \in 1 .. m : SubSeq(t, 1, m)[j] = t[j]
    BY <2>1, FirstElements
  <2> QED BY <1>4, <2>2
<1>7. \E j \in 1 .. Len(d) : d[j] \notin Digit
  BY <1>4, <1>6
<1> USE DEF d
<1>8. \E j \in 1 .. Len(d) : d[j] \notin 0 .. Base("base64") - 1
  BY <1>7 DEF Digit
<1> HIDE DEF d
<1> QED BY <1>8 DEF Base64Decode, d

\* So it is for a foreign symbol anywhere,
LEMMA ForeignRefused ==
  ASSUME NEW t \in Seq(Nat), NEW k \in Nat \ {0}, Len(t) = 4 * k,
         NEW i \in 1 .. Len(t), t[i] \notin Digit, t[i] # Pad("base64")
  PROVE  Base64Decode(t) = Err
<1>1. Len(t) \in Nat /\ Len(t) >= 2
  OBVIOUS
<1>2. PICK p : p = Padding(t)
  OBVIOUS
<1>3. p \in 0 .. 2 /\ ~(i > Len(t) - p)
  BY <1>1, <1>2, PaddingAtEnd
<1>4. i \in 1 .. Len(t) - p
  BY <1>1, <1>3
<1> QED BY <1>2, <1>4, NoDigitRefused

\* and for padding that is too early or has something after it.
LEMMA EarlyPadRefused ==
  ASSUME NEW t \in Seq(Nat), NEW k \in Nat \ {0}, Len(t) = 4 * k,
         NEW i \in 1 .. Len(t), t[i] = Pad("base64"),
         \/ i <= Len(t) - 2
         \/ \E j \in 1 .. Len(t) : i < j /\ t[j] # Pad("base64")
  PROVE  Base64Decode(t) = Err
<1>1. Len(t) \in Nat /\ Len(t) >= 2
  OBVIOUS
<1>2. PICK p : p = Padding(t)
  OBVIOUS
<1>3. p \in 0 .. 2 /\ \A j \in 1 .. Len(t) : j > Len(t) - p => t[j] = Pad("base64")
  BY <1>1, <1>2, PaddingAtEnd
<1>4. i \in 1 .. Len(t) - p
  <2>1. CASE i <= Len(t) - 2
    BY <1>1, <1>3, <2>1
  <2>2. ASSUME NEW j \in 1 .. Len(t), i < j, t[j] # Pad("base64")
        PROVE  i \in 1 .. Len(t) - p
    <3>1. ~(j > Len(t) - p)
      BY <1>3, <2>2
    <3> QED BY <1>1, <1>3, <2>2, <3>1
  <2> QED BY <2>1, <2>2
<1>5. t[i] \notin Digit
  BY DigitOrPad
<1> QED BY <1>2, <1>4, <1>5, NoDigitRefused

\* Digits and then up to two symbols of padding are accepted.
Decoded(t, m) ==
  [j \in 1 .. (3 * m) \div 4 |-> ByteOfBlock(Block(SubSeq(t, 1, m), (j - 1) \div 3, 4), (j - 1) % 3)]

\* The decoder of Base64 accepts digits followed by one or two padding symbols, or none.
LEMMA DigitsAccepted ==
  ASSUME NEW t \in Seq(Nat), NEW k \in Nat \ {0}, Len(t) = 4 * k,
         NEW m \in (4 * k) - 2 .. 4 * k,
         \A i \in 1 .. Len(t) : /\ i <= m => t[i] \in Digit
                                /\ i > m => t[i] = Pad("base64")
  PROVE  Base64Decode(t) = Ok(Decoded(t, m))
<1> DEFINE d == SubSeq(t, 1, Len(t) - Padding(t))
<1>1. Len(t) \in Nat /\ Len(t) >= 2 /\ m \in Nat /\ m >= 1
  OBVIOUS
<1>2. Len(t) - Padding(t) = m
  <2>1. CASE m = 4 * k
    <3>1. t[Len(t)] # Pad("base64")
      BY <1>1, <2>1, DigitOrPad
    <3>2. Padding(t) = 0
      BY <3>1 DEF Padding
    <3> QED BY <1>1, <2>1, <3>2
  <2>2. CASE m = (4 * k) - 1
    <3>1. t[Len(t)] = Pad("base64") /\ t[Len(t) - 1] # Pad("base64")
      BY <1>1, <2>2, DigitOrPad
    <3>2. Padding(t) = 1
      BY <3>1 DEF Padding
    <3> QED BY <1>1, <2>2, <3>2
  <2>3. CASE m = (4 * k) - 2
    <3>1. t[Len(t)] = Pad("base64") /\ t[Len(t) - 1] = Pad("base64")
      BY <1>1, <2>3
    <3>2. Padding(t) = 2
      BY <3>1 DEF Padding
    <3> QED BY <1>1, <2>3, <3>2
  <2> QED BY <2>1, <2>2, <2>3
<1>3. d = SubSeq(t, 1, m)
  BY <1>2
<1>4. \A j \in 1 .. m : t[j] \in Digit
  BY <1>1
<1>5. Len(d) = m /\ \A j \in 1 .. m : d[j] \in Digit
  <2>1. m \in 0 .. Len(t)
    BY <1>1
  <2>2. Len(SubSeq(t, 1, m)) = m /\ \A j \in 1 .. m : SubSeq(t, 1, m)[j] = t[j]
    BY <2>1, FirstElements
  <2> HIDE DEF d
  <2> QED BY <1>3, <1>4, <2>2
<1> HIDE DEF d
<1>6. ~ \E i \in 1 .. Len(d) : d[i] \notin 0 .. Base("base64") - 1
  BY <1>5 DEF Digit
<1>7. ~(t = <<>> \/ Len(t) % 4 # 0)
  <2>1. Len(t) = 4 * k + 0 /\ k \in Int /\ Len(t) \in Int
    BY <1>1
  <2>2. Len(t) % 4 = 0
    BY ONLY <2>1, 4 \in Nat \ {0}, 0 \in 0 .. 4 - 1, DivModUnique
  <2> QED BY <1>1, <2>2
<1>8. Base64Decode(t) = Ok([j \in 1 .. (3 * Len(d)) \div 4 |->
                              ByteOfBlock(Block(d, (j - 1) \div 3, 4), (j - 1) % 3)])
  BY <1>6, <1>7 DEF Base64Decode, d
<1> QED BY <1>3, <1>5, <1>8 DEF Decoded
\* How many bytes all digits give, and all but the last.
LEMMA BytesOfDigits ==
  ASSUME NEW n \in Nat \ {0}, NEW m, m = n + ((n + 2) \div 3)
  PROVE  (3 * m) \div 4 = n /\ (3 * (m - 1)) \div 4 = n - 1 /\ m \in Nat /\ m > n
<1>1. PICK k, r : k = (n + 2) \div 3 /\ r = (n + 2) % 3
  OBVIOUS
<1>2. PICK y : y = n + 2
  OBVIOUS
<1>3. y \in Int /\ y = 3 * (y \div 3) + (y % 3) /\ y % 3 \in 0 .. 3 - 1 /\ y \div 3 \in Int
  <2>1. y \in Int
    BY <1>2
  <2> QED BY ONLY <2>1, 3 \in Nat \ {0}, DivMod
<1>4. n + 2 = 3 * k + r /\ r \in 0 .. 2 /\ k \in Int /\ m = n + k
  BY <1>1, <1>2, <1>3
<1>5. k \in Nat \ {0}
  BY <1>4
<1>6. PICK a, b : a = 3 * m /\ b = 3 * (m - 1)
  OBVIOUS
<1>7. a = 4 * n + (2 - r) /\ 2 - r \in 0 .. 4 - 1 /\ a \in Int /\ n \in Int
  BY <1>4, <1>5, <1>6
<1>8. b = 4 * (n - 1) + (3 - r) /\ 3 - r \in 0 .. 4 - 1 /\ b \in Int /\ n - 1 \in Int
  BY <1>4, <1>5, <1>6
<1>9. a \div 4 = n
  BY ONLY <1>7, 4 \in Nat \ {0}, DivModUnique
<1>10. b \div 4 = n - 1
  BY ONLY <1>8, 4 \in Nat \ {0}, DivModUnique
<1> QED BY <1>4, <1>5, <1>6, <1>9, <1>10

\* The first digits of an encoding are decoded to the first bytes of the data.
LEMMA FirstDigitsDecoded ==
  ASSUME NEW in \in Seq(TextByte), in # <<>>, NEW t \in Seq(Nat), Len(t) = 4 * Groups(in),
         NEW m \in 0 .. Digits(in), NEW j \in 1 .. (3 * m) \div 4, j <= Len(in),
         \A i \in 1 .. m : t[i] = Base64Encode(in).out[i]
  PROVE  Decoded(t, m)[j] = in[j]
<1>1. PICK q, p : q = (j - 1) \div 3 /\ p = (j - 1) % 3
  OBVIOUS
<1>2. PICK d, b : d = SubSeq(t, 1, m) /\ b = Block(in, q, 3)
  <2>1. PICK d : d = SubSeq(t, 1, m)
    OBVIOUS
  <2>2. PICK b : b = Block(in, q, 3)
    OBVIOUS
  <2> QED BY <2>1, <2>2
<1>3. /\ Len(in) \in Nat \ {0} /\ Groups(in) \in Nat \ {0} /\ Digits(in) \in Nat
      /\ Digits(in) <= 4 * Groups(in)
  <2>1. Len(in) \in Nat \ {0}
    OBVIOUS
  <2>2. Groups(in) \in Nat \ {0} /\ Digits(in) \in (4 * Groups(in)) - 2 .. 4 * Groups(in)
    BY <2>1, DigitsCount DEF Groups, Digits
  <2> QED BY <2>1, <2>2
<1>4. m \in Nat /\ m <= 4 * Groups(in) /\ m <= Digits(in) /\ m \in 0 .. Len(t)
  BY <1>3
<1>5. q \in Nat /\ p \in 0 .. 2 /\ j = (q * 3) + p + 1 /\ (q * 4) + p + 2 <= m
  <2>1. PICK x, y : x = 3 * m /\ y = j - 1
    OBVIOUS
  <2>2. x \in Int
    BY <1>4, <2>1
  <2>3. x = 4 * (x \div 4) + (x % 4) /\ x % 4 \in 0 .. 4 - 1 /\ x \div 4 \in Int
    BY ONLY <2>2, 4 \in Nat \ {0}, DivMod
  <2>4. j \in 1 .. x \div 4
    BY <2>1
  <2>5. j \in Nat /\ j >= 1 /\ 4 * j <= x
    BY ONLY <2>2, <2>3, <2>4
  <2>6. y \in Int
    BY <2>1, <2>5
  <2>7. y = 3 * (y \div 3) + (y % 3) /\ y % 3 \in 0 .. 3 - 1 /\ y \div 3 \in Int
    BY ONLY <2>6, 3 \in Nat \ {0}, DivMod
  <2>8. j - 1 = 3 * q + p /\ p \in 0 .. 2 /\ q \in Int
    BY <1>1, <2>1, <2>7
  <2>9. q \in Nat
    BY ONLY <2>5, <2>8
  <2> QED BY ONLY <1>4, <2>1, <2>5, <2>8, <2>9
<1>6. Len(d) = m /\ \A i \in 1 .. m : d[i] = t[i]
  BY <1>2, <1>4, FirstElements
<1>7. ASSUME NEW r \in 0 .. 3, (q * 4) + r + 1 <= m
      PROVE  Block(d, q, 4)[r + 1] = DigitOfBlock(b, r)
  <2>1. PICK i : i = (q * 4) + r + 1
    OBVIOUS
  <2>2. i \in 1 .. m /\ i \in 1 .. 4 * Groups(in) /\ i <= Digits(in) /\ r + 1 \in 1 .. 4
        /\ q * 4 + (r + 1) = i
    <3>1. i \in Nat /\ i >= 1 /\ q * 4 + (r + 1) = i /\ r + 1 \in 1 .. 4
      BY ONLY <1>5, <2>1, r \in 0 .. 3
    <3>2. i <= m
      BY ONLY <1>7, <2>1
    <3>3. PICK g, h : g = Digits(in) /\ h = 4 * Groups(in)
      OBVIOUS
    <3>4. m \in Nat /\ m <= h /\ m <= g /\ h \in Nat /\ g \in Nat
      BY <1>3, <1>4, <3>3
    <3>5. i \in 1 .. m /\ i \in 1 .. h /\ i <= g
      BY ONLY <3>1, <3>2, <3>4
    <3> QED BY ONLY <3>1, <3>3, <3>5
  <2>3. Block(d, q, 4)[r + 1] = d[i]
    BY <1>6, <2>2 DEF Block
  <2>4. d[i] = DigitOfBlock(Block(in, (i - 1) \div 4, 3), (i - 1) % 4)
    BY <1>6, <2>2, Base64Shape
  <2>5. PICK x : x = i - 1
    OBVIOUS
  <2>6. x \in Int /\ x = 4 * q + r /\ q \in Int /\ r \in 0 .. 4 - 1
    BY <1>5, <2>1, <2>5
  <2>7. x \div 4 = q /\ x % 4 = r
    BY ONLY <2>6, 4 \in Nat \ {0}, DivModUnique
  <2> QED BY <1>2, <2>3, <2>4, <2>5, <2>7
<1>8. b \in [1 .. 3 -> TextByte] /\ b[p + 1] = in[j]
  <2>1. p + 1 \in 1 .. 3 /\ q * 3 + (p + 1) = j
    BY <1>5
  <2>2. b \in [1 .. 3 -> TextByte] /\ \A i \in 1 .. 3 : q * 3 + i <= Len(in) => b[i] = in[q * 3 + i]
    BY <1>2, <1>5, BlockOfData
  <2> QED BY <2>1, <2>2
<1>9. PICK e : e = Block(d, q, 4)
  OBVIOUS
<1>10. e[p + 1] = DigitOfBlock(b, p) /\ e[p + 2] = DigitOfBlock(b, p + 1)
  <2>1. p \in 0 .. 3 /\ (q * 4) + p + 1 <= m
    BY <1>4, <1>5
  <2>2. p + 1 \in 0 .. 3 /\ (q * 4) + (p + 1) + 1 <= m /\ (p + 1) + 1 = p + 2
    BY <1>4, <1>5
  <2>3. e[p + 1] = DigitOfBlock(b, p)
    BY <1>7, <1>9, <2>1
  <2>4. e[(p + 1) + 1] = DigitOfBlock(b, p + 1)
    BY <1>7, <1>9, <2>2
  <2> QED BY <2>2, <2>3, <2>4
<1>11. ByteOfBlock(e, p) = b[p + 1]
  BY <1>5, <1>8, <1>10, ByteBack
<1>12. Decoded(t, m)[j] = ByteOfBlock(e, p)
  BY <1>1, <1>2, <1>9 DEF Decoded
<1> QED BY <1>8, <1>11, <1>12
\* What is decoded from the first digits is the beginning of the data.
LEMMA FirstBytes ==
  ASSUME NEW in \in Seq(TextByte), in # <<>>, NEW t \in Seq(Nat), Len(t) = 4 * Groups(in),
         NEW m \in 0 .. Digits(in), NEW g \in 0 .. Len(in), g = (3 * m) \div 4,
         \A i \in 1 .. m : t[i] = Base64Encode(in).out[i]
  PROVE  Decoded(t, m) = SubSeq(in, 1, g)
<1>1. Len(in) \in Nat /\ g \in Nat
  OBVIOUS
<1>2. ASSUME NEW j \in 1 .. g PROVE Decoded(t, m)[j] = in[j]
  <2>1. j \in 1 .. (3 * m) \div 4 /\ j <= Len(in)
    BY <1>1
  <2> QED BY <2>1, FirstDigitsDecoded
<1>3. Decoded(t, m) = [j \in 1 .. g |-> Decoded(t, m)[j]]
  BY DEF Decoded
<1>4. Decoded(t, m) = [j \in 1 .. g |-> in[j]]
  BY <1>2, <1>3
<1>5. PICK f : f = [j \in 1 .. g |-> in[j]]
  OBVIOUS
<1>6. f \in [1 .. g -> TextByte]
  BY <1>1, <1>5
<1>7. f \in Seq(TextByte) /\ Len(f) = g
  BY <1>1, <1>6, FunctionSeq
<1>8. PICK s : s = SubSeq(in, 1, g)
  OBVIOUS
<1>9. s \in Seq(TextByte) /\ Len(s) = g /\ \A j \in 1 .. g : s[j] = in[j]
  BY <1>8, FirstElements
<1>10. \A j \in 1 .. Len(f) : f[j] = s[j]
  BY <1>5, <1>7, <1>9
<1>11. f = s
  BY ONLY <1>7, <1>9, <1>10, SeqEqual
<1> QED BY <1>4, <1>5, <1>8, <1>11

\* How much there is of everything.
LEMMA Base64Sizes ==
  ASSUME NEW in \in Seq(TextByte), in # <<>>
  PROVE  /\ Len(in) \in Nat \ {0} /\ Groups(in) \in Nat \ {0} /\ Digits(in) \in Nat
         /\ Digits(in) \in (4 * Groups(in)) - 2 .. 4 * Groups(in)
         /\ (3 * Digits(in)) \div 4 = Len(in) /\ (3 * (Digits(in) - 1)) \div 4 = Len(in) - 1
<1>1. Len(in) \in Nat \ {0}
  OBVIOUS
<1>2. Groups(in) \in Nat \ {0} /\ Digits(in) \in (4 * Groups(in)) - 2 .. 4 * Groups(in)
  BY <1>1, DigitsCount DEF Groups, Digits
<1>3. /\ (3 * Digits(in)) \div 4 = Len(in) /\ (3 * (Digits(in) - 1)) \div 4 = Len(in) - 1
      /\ Digits(in) \in Nat
  BY <1>1, BytesOfDigits DEF Groups, Digits
<1> QED BY <1>1, <1>2, <1>3

\* All digits, then padding: the data.
LEMMA AllDigitsDecoded ==
  ASSUME NEW in \in Seq(TextByte), in # <<>>, NEW t \in Seq(Nat), Len(t) = 4 * Groups(in),
         \A i \in 1 .. Len(t) : /\ i <= Digits(in) => t[i] = Base64Encode(in).out[i]
                                /\ i > Digits(in) => t[i] = Pad("base64")
  PROVE  Base64Decode(t) = Ok(in)
<1>1. PICK k, m : k = Groups(in) /\ m = Digits(in)
  OBVIOUS
<1>2. /\ k \in Nat \ {0} /\ m \in Nat /\ m \in (4 * k) - 2 .. 4 * k /\ Len(in) \in Nat
      /\ (3 * m) \div 4 = Len(in)
  BY <1>1, Base64Sizes
<1>3. Len(t) = 4 * k
  BY <1>1
<1>4. \A i \in 1 .. Len(t) : /\ i <= m => t[i] \in Digit
                             /\ i > m => t[i] = Pad("base64")
  BY <1>1, <1>3, Base64Shape
<1>5. Base64Decode(t) = Ok(Decoded(t, m))
  BY <1>2, <1>3, <1>4, DigitsAccepted
<1>6. ASSUME NEW i \in 1 .. m PROVE t[i] = Base64Encode(in).out[i]
  <2>1. i \in 1 .. Len(t) /\ i <= m
    BY <1>2, <1>3
  <2> QED BY <1>1, <2>1
<1>7. PICK g : g = Len(in)
  OBVIOUS
<1>8. m \in 0 .. Digits(in) /\ g \in 0 .. Len(in) /\ g = (3 * m) \div 4
  BY <1>1, <1>2, <1>7
<1>9. Decoded(t, m) = SubSeq(in, 1, g)
  BY <1>6, <1>8, FirstBytes
<1>10. SubSeq(in, 1, g) = in
  BY <1>7, SubSeqFull
<1> QED BY <1>5, <1>9, <1>10

\* One digit less: refused, or the data without its last byte.
LEMMA LastDigitLost ==
  ASSUME NEW in \in Seq(TextByte), in # <<>>, NEW t \in Seq(Nat), Len(t) = 4 * Groups(in),
         \A i \in 1 .. Len(t) : /\ i < Digits(in) => t[i] = Base64Encode(in).out[i]
                                /\ i >= Digits(in) => t[i] = Pad("base64")
  PROVE  Base64Decode(t) = Err \/ Base64Decode(t) = Ok(SubSeq(in, 1, Len(in) - 1))
<1>1. PICK k, m : k = Groups(in) /\ m = Digits(in) - 1
  OBVIOUS
<1>2. /\ k \in Nat \ {0} /\ m + 1 = Digits(in) /\ m \in (4 * k) - 3 .. (4 * k) - 1
      /\ m \in Nat /\ Len(in) \in Nat \ {0}
      /\ (3 * m) \div 4 = Len(in) - 1
  <2>1. PICK d : d = Digits(in)
    OBVIOUS
  <2>2. d \in Nat /\ d \in (4 * k) - 2 .. 4 * k /\ k \in Nat \ {0} /\ m = d - 1
    BY <1>1, <2>1, Base64Sizes
  <2>3. m + 1 = d /\ m \in Nat /\ m >= (4 * k) - 3 /\ m <= (4 * k) - 1
    BY ONLY <2>2
  <2>4. m \in (4 * k) - 3 .. (4 * k) - 1
    BY ONLY <2>2, <2>3
  <2>5. Len(in) \in Nat \ {0} /\ (3 * m) \div 4 = Len(in) - 1
    BY <1>1, Base64Sizes
  <2> QED BY <2>1, <2>2, <2>3, <2>4, <2>5
<1>3. Len(t) = 4 * k
  BY <1>1
<1>4. CASE m = (4 * k) - 3
  <2>1. PICK i : i = (4 * k) - 2
    OBVIOUS
  <2>2. i \in 1 .. Len(t) /\ i >= Digits(in) /\ i <= Len(t) - 2
    BY <1>2, <1>3, <1>4, <2>1
  <2>3. t[i] = Pad("base64")
    BY <2>2
  <2> QED BY <1>2, <1>3, <2>2, <2>3, EarlyPadRefused
<1>5. CASE m # (4 * k) - 3
  <2>1. m \in (4 * k) - 2 .. 4 * k
    BY ONLY <1>2, <1>5
  <2>2. \A i \in 1 .. Len(t) : (i < Digits(in) <=> i <= m) /\ (i >= Digits(in) <=> i > m)
    BY <1>2
  <2>3. ASSUME NEW i \in 1 .. Len(t), i <= m PROVE t[i] \in Digit
    <3>1. i < Digits(in) /\ i <= Digits(in) /\ i \in 1 .. 4 * Groups(in)
      BY <1>2, <2>2, <2>3
    <3>2. t[i] = Base64Encode(in).out[i]
      BY <3>1
    <3> QED BY <3>1, <3>2, Base64Shape
  <2>4. \A i \in 1 .. Len(t) : i > m => t[i] = Pad("base64")
    BY <2>2
  <2>5. Base64Decode(t) = Ok(Decoded(t, m))
    BY <1>2, <1>3, <2>1, <2>3, <2>4, DigitsAccepted
  <2>6. ASSUME NEW i \in 1 .. m PROVE t[i] = Base64Encode(in).out[i]
    <3>1. i \in 1 .. Len(t) /\ i <= m
      BY ONLY <1>2, <1>3, i \in 1 .. m
    <3> QED BY <2>2, <3>1
  <2>7. PICK g : g = Len(in) - 1
    OBVIOUS
  <2>8. m \in 0 .. Digits(in) /\ g \in 0 .. Len(in) /\ g = (3 * m) \div 4
    BY <1>2, <2>7
  <2>9. Decoded(t, m) = SubSeq(in, 1, g)
    BY <2>6, <2>8, FirstBytes
  <2> QED BY <2>5, <2>7, <2>9
<1> QED BY <1>4, <1>5

\* Padding in the place of a digit: refused, or it was the last digit.
LEMMA PadForDigit ==
  ASSUME NEW in \in Seq(TextByte), in # <<>>, NEW t \in Seq(Nat), Len(t) = 4 * Groups(in),
         NEW i \in 1 .. Digits(in), t[i] = Pad("base64"),
         \A j \in 1 .. Len(t) : j # i => t[j] = Base64Encode(in).out[j]
  PROVE  Base64Decode(t) = Err \/ Base64Decode(t) = Ok(SubSeq(in, 1, Len(in) - 1))
<1>1. PICK k, m : k = Groups(in) /\ m = Digits(in)
  OBVIOUS
<1>2. k \in Nat \ {0} /\ m \in Nat /\ m \in (4 * k) - 2 .. 4 * k /\ Len(t) = 4 * k /\ m \in 1 .. Len(t)
  BY <1>1, Base64Sizes
<1>3. \A j \in 1 .. Len(t) : /\ j <= m => Base64Encode(in).out[j] \in Digit
                             /\ j > m => Base64Encode(in).out[j] = Pad("base64")
  BY <1>1, <1>2, Base64Shape
<1>4. i \in 1 .. m /\ i \in 1 .. Len(t)
  BY <1>1, <1>2
<1>5. CASE i < m
  <2>1. t[m] \in Digit
    BY <1>2, <1>3, <1>5
  <2>2. t[m] # Pad("base64")
    BY <2>1, DigitOrPad
  <2> QED BY <1>2, <1>4, <1>5, <2>2, EarlyPadRefused
<1>6. CASE i = m
  <2>1. \A j \in 1 .. Len(t) : /\ j < Digits(in) => t[j] = Base64Encode(in).out[j]
                               /\ j >= Digits(in) => t[j] = Pad("base64")
    <3> SUFFICES ASSUME NEW j \in 1 .. Len(t)
                 PROVE  /\ j < m => t[j] = Base64Encode(in).out[j]
                        /\ j >= m => t[j] = Pad("base64")
      BY <1>1
    <3>1. CASE j = i
      BY <1>6, <3>1
    <3>2. CASE j # i
      <4>1. t[j] = Base64Encode(in).out[j]
        BY <3>2
      <4>2. j >= m => j > m
        BY <1>2, <1>6, <3>2
      <4> QED BY <1>3, <4>1, <4>2
    <3> QED BY <3>1, <3>2
  <2> QED BY <2>1, LastDigitLost
<1> QED BY <1>2, <1>4, <1>5, <1>6
(***************************************************************************)
(* The symbols that are no digits, and the twins.                          *)
(***************************************************************************)
\* The other symbols are no digits, and differ from each other.
LEMMA OtherSymbols ==
  /\ Foreign("base64") \in Nat /\ Foreign("base64") \notin Digit /\ Foreign("base64") # Pad("base64")
  /\ Base("base64") \in Nat /\ Base("base64") \notin Digit /\ Base("base64") # Pad("base64")
  /\ Base("base64") - 2 \in Digit
BY DigitOrPad DEF Digit, Pad, Foreign

\* What the URL-safe decoder takes a symbol for.
LEMMA TwinsAreDigits ==
  /\ \A c \in Nat : DigitOf("base64", c) \in Nat
  /\ \A x \in Digit : TwinOf("base64", x) \in Nat /\ DigitOf("base64", TwinOf("base64", x)) = x
  /\ DigitOf("base64", Pad("base64")) = Pad("base64")
  /\ DigitOf("base64", Foreign("base64")) = Foreign("base64")
  /\ DigitOf("base64", Base("base64")) = Base("base64") - 2
<1>1. PICK b : b = Base("base64")
  OBVIOUS
<1>2. b \in Nat /\ b >= 8 /\ Twins("base64") = {b, b + 1}
  BY <1>1, DigitOrPad DEF Twins
<1>3. Pad("base64") = b + 2 /\ Foreign("base64") = b + 3 /\ Digit = 0 .. b - 1
  BY <1>1 DEF Pad, Foreign, Digit
<1>4. \A c : DigitOf("base64", c) = IF c \in {b, b + 1} THEN c - 2 ELSE c
  BY <1>2 DEF DigitOf
<1>5. \A c : TwinOf("base64", c) = IF c + 2 \in {b, b + 1} THEN c + 2 ELSE c
  BY <1>2 DEF TwinOf
<1>6. ASSUME NEW c \in Nat PROVE DigitOf("base64", c) \in Nat
  BY <1>2, <1>4
<1>7. ASSUME NEW x \in Digit
      PROVE  TwinOf("base64", x) \in Nat /\ DigitOf("base64", TwinOf("base64", x)) = x
  BY <1>2, <1>3, <1>4, <1>5
<1>8. DigitOf("base64", b + 2) = b + 2 /\ DigitOf("base64", b + 3) = b + 3 /\ DigitOf("base64", b) = b - 2
  BY <1>2, <1>4
<1> QED BY <1>1, <1>3, <1>6, <1>7, <1>8

(***************************************************************************)
(* Base64 on its way.                                                      *)
(***************************************************************************)
\* What the encoder wrote: digits for the data and one or two padding symbols, or none, behind
\* them up to a multiple of four.
LEMMA Base64IsNumbers ==
  ASSUME NEW in \in Seq(TextByte), in # <<>>, NEW e, e = Base64Encode(in).out
  PROVE  /\ e \in Seq(Nat) /\ Len(e) = 4 * Groups(in) /\ Groups(in) \in Nat \ {0}
         /\ Len(e) \in Nat \ {0}
         /\ Digits(in) \in 1 .. Len(e) /\ Digits(in) \in (4 * Groups(in)) - 2 .. 4 * Groups(in)
         /\ \A i \in 1 .. Len(e) : /\ i <= Digits(in) => e[i] \in Digit
                                   /\ i > Digits(in) => e[i] = Pad("base64")
<1>1. /\ e \in Seq(Digit \cup {Pad("base64")}) /\ Len(e) = 4 * Groups(in)
      /\ \A i \in 1 .. 4 * Groups(in) : /\ i <= Digits(in) => e[i] \in Digit
                                        /\ i > Digits(in) => e[i] = Pad("base64")
  BY Base64Shape
<1>2. Digit \cup {Pad("base64")} \subseteq Nat
  BY DigitOrPad
<1>3. e \in Seq(Nat)
  BY <1>1, <1>2, SeqMonotonic
<1>4. Groups(in) \in Nat \ {0} /\ Digits(in) \in (4 * Groups(in)) - 2 .. 4 * Groups(in)
  BY Base64Sizes
<1>5. Digits(in) \in 1 .. 4 * Groups(in)
  <2>1. PICK k, m : k = Groups(in) /\ m = Digits(in)
    OBVIOUS
  <2>2. k \in Nat \ {0} /\ m \in (4 * k) - 2 .. 4 * k
    BY <1>4, <2>1
  <2>3. m \in 1 .. 4 * k
    BY ONLY <2>2
  <2> QED BY <2>1, <2>3
<1>6. Len(e) \in Nat \ {0} /\ Digits(in) \in 1 .. Len(e)
  BY <1>1, <1>4, <1>5
<1> QED BY <1>1, <1>3, <1>4, <1>6

\* Base64 that arrives as it was sent gives the data back.
LEMMA Base64Undamaged ==
  ASSUME NEW in \in Seq(TextByte), in # <<>>
  PROVE  Base64Decode(Base64Encode(in).out) = Ok(in)
<1>1. PICK e : e = Base64Encode(in).out
  OBVIOUS
<1>2. /\ e \in Seq(Nat) /\ Len(e) = 4 * Groups(in)
      /\ \A i \in 1 .. Len(e) : i > Digits(in) => e[i] = Pad("base64")
  BY <1>1, Base64IsNumbers
<1> QED BY <1>1, <1>2, AllDigitsDecoded

\* Base64 that lost its last symbol is refused: its length is no multiple of four.
LEMMA Base64Cut ==
  ASSUME NEW in \in Seq(TextByte), in # <<>>
  PROVE  Base64Decode(Seqs!Front(Base64Encode(in).out)) = Err
<1>1. PICK e : e = Base64Encode(in).out
  OBVIOUS
<1>2. PICK f : f = SubSeq(e, 1, Len(e) - 1)
  OBVIOUS
<1>3. PICK k, n : k = Groups(in) /\ n = Len(e)
  OBVIOUS
<1>4. e \in Seq(Nat) /\ n = 4 * k /\ k \in Nat \ {0}
  BY <1>1, <1>3, Base64IsNumbers
<1>5. n - 1 \in 0 .. Len(e)
  BY <1>3, <1>4
<1>6. Len(f) = n - 1
  BY <1>2, <1>3, <1>4, <1>5, FirstElements
<1>7. n - 1 = 4 * (k - 1) + 3 /\ n - 1 \in Int /\ k - 1 \in Int
  BY <1>4
<1>8. (n - 1) % 4 = 3
  BY ONLY <1>7, 4 \in Nat \ {0}, 3 \in 0 .. 4 - 1, DivModUnique
<1>9. Base64Decode(f) = Err
  BY <1>6, <1>8 DEF Base64Decode
<1> QED BY <1>1, <1>2, <1>9 DEF Seqs!Front

\* Base64 with padding where a digit was is refused, or it was the last digit and the
\* data comes back without its last byte.
LEMMA Base64Padded ==
  ASSUME NEW in \in Seq(TextByte), in # <<>>, NEW e, e = Base64Encode(in).out,
         NEW i \in 1 .. Len(e), e[i] # Pad("base64"), NEW t, t = [e EXCEPT ![i] = Pad("base64")]
  PROVE  Base64Decode(t) = Err \/ Base64Decode(t) = Ok(SubSeq(in, 1, Len(in) - 1))
<1>1. /\ e \in Seq(Nat) /\ Len(e) = 4 * Groups(in) /\ Digits(in) \in 1 .. Len(e) /\ Len(e) \in Nat
      /\ \A j \in 1 .. Len(e) : j > Digits(in) => e[j] = Pad("base64")
  BY Base64IsNumbers
<1>2. Pad("base64") \in Nat
  BY DigitOrPad
<1>3. /\ t \in Seq(Nat) /\ Len(t) = Len(e) /\ t[i] = Pad("base64")
      /\ \A j \in 1 .. Len(t) : j # i => t[j] = e[j]
  BY <1>1, <1>2
<1>4. i \in 1 .. Digits(in)
  BY <1>1
<1>5. ASSUME NEW j \in 1 .. Len(t), j # i PROVE t[j] = Base64Encode(in).out[j]
  BY <1>3, <1>5
<1>6. Len(t) = 4 * Groups(in)
  BY <1>1, <1>3
<1> QED BY ONLY <1>3, <1>4, <1>5, <1>6, in \in Seq(TextByte), in # <<>>, PadForDigit

\* Base64 with a symbol that is neither a digit nor padding is refused.
LEMMA Base64Altered ==
  ASSUME NEW in \in Seq(TextByte), in # <<>>, NEW e, e = Base64Encode(in).out,
         NEW i \in 1 .. Len(e), NEW c \in Nat, c \notin Digit, c # Pad("base64"),
         NEW t, t = [e EXCEPT ![i] = c]
  PROVE  Base64Decode(t) = Err
<1>1. e \in Seq(Nat) /\ Len(e) = 4 * Groups(in) /\ Groups(in) \in Nat \ {0}
  BY Base64IsNumbers
<1>2. t \in Seq(Nat) /\ Len(t) = Len(e) /\ t[i] = c
  BY <1>1
<1> QED BY <1>1, <1>2, ForeignRefused
(***************************************************************************)
(* URL-safe Base64 on its way.                                             *)
(***************************************************************************)
\* The text is the twins of the digits, without padding.
LEMMA UrlSafeShape ==
  ASSUME NEW in \in Seq(TextByte), in # <<>>, NEW e, e = Base64Encode(in).out,
         NEW u, u = UrlSafeBase64Encode(in).out
  PROVE  /\ UrlSafeBase64Encode(in).ok <=> TRUE
         /\ u \in Seq(Nat) /\ Len(u) = Digits(in)
         /\ \A i \in 1 .. Digits(in) : u[i] = TwinOf("base64", e[i])
<1>1. /\ e \in Seq(Nat) /\ Len(e) \in Nat /\ Digits(in) \in 1 .. Len(e)
      /\ \A i \in 1 .. Len(e) : /\ i <= Digits(in) => e[i] \in Digit
                                /\ i > Digits(in) => e[i] = Pad("base64")
  BY Base64IsNumbers
<1> DEFINE pads == {i \in 1 .. Len(e) : e[i] = Pad("base64")}
           s == IF pads = {} THEN e ELSE SubSeq(e, 1, Sets!Min(pads) - 1)
<1>2. PICK m : m = Digits(in)
  OBVIOUS
<1>3. pads = {i \in 1 .. Len(e) : i > m}
  <2>1. ASSUME NEW i \in 1 .. Len(e) PROVE e[i] = Pad("base64") <=> i > m
    <3>1. CASE i <= m
      <4>1. e[i] \in Digit
        BY <1>1, <1>2, <3>1
      <4> QED BY <1>1, <1>2, <3>1, <4>1, DigitOrPad
    <3>2. CASE i > m
      BY <1>1, <1>2, <3>2
    <3> QED BY <1>1, <1>2, <3>1, <3>2
  <2> QED BY <2>1
<1>4. s = SubSeq(e, 1, m)
  <2>1. CASE m = Len(e)
    <3>1. pads = {}
      BY <1>1, <1>2, <1>3, <2>1
    <3>2. SubSeq(e, 1, Len(e)) = e
      BY <1>1, SubSeqFull
    <3> QED BY <2>1, <3>1, <3>2
  <2>2. CASE m # Len(e)
    <3>1. m + 1 \in pads /\ pads # {} /\ \A i \in pads : m + 1 <= i /\ i \in Nat
      <4> HIDE DEF pads
      <4>1. m \in Nat /\ m < Len(e) /\ Len(e) \in Nat
        BY <1>1, <1>2, <2>2
      <4>2. m + 1 \in 1 .. Len(e) /\ m + 1 > m
        BY ONLY <4>1
      <4> QED BY <1>3, <4>1, <4>2
    <3> HIDE DEF pads
    <3>2. PICK x : x = Sets!Min(pads)
      OBVIOUS
    <3>3. x \in pads /\ \A y \in pads : x <= y
      BY <3>1, <3>2 DEF Sets!Min
    <3>4. x = m + 1
      BY <1>1, <1>2, <3>1, <3>3
    <3>5. x - 1 = m
      BY <1>1, <1>2, <3>4
    <3> QED BY <3>1, <3>2, <3>5
  <2> QED BY <2>1, <2>2
<1>5. s \in Seq(Nat) /\ Len(s) = m /\ \A i \in 1 .. m : s[i] = e[i]
  <2>1. m \in 0 .. Len(e)
    BY <1>1, <1>2
  <2> HIDE DEF s
  <2> QED BY <1>1, <1>4, <2>1, FirstElements
<1> DEFINE f == [i \in 1 .. Len(s) |-> TwinOf("base64", s[i])]
<1>6. Base64Encode(in).ok <=> TRUE
  BY Base64Shape
<1>7. UrlSafeBase64Encode(in) = Ok(f)
  <2>1. Base64Encode(in).ok
    BY <1>6, Zenon
  <2> QED BY <2>1, Zenon DEF UrlSafeBase64Encode
<1> HIDE DEF s
<1>8. f = [i \in 1 .. m |-> TwinOf("base64", e[i])]
  BY <1>5
<1>9. ASSUME NEW i \in 1 .. m PROVE TwinOf("base64", e[i]) \in Nat
  <2>1. i \in 1 .. Len(e) /\ i <= Digits(in)
    BY <1>1, <1>2
  <2>2. e[i] \in Digit
    BY <1>1, <2>1
  <2> QED BY <2>2, TwinsAreDigits
<1>10. f \in Seq(Nat) /\ Len(f) = m
  <2>1. f \in [1 .. m -> Nat] /\ m \in Nat
    BY <1>1, <1>2, <1>8, <1>9
  <2> HIDE DEF f
  <2> QED BY <2>1, FunctionSeq
<1>11. UrlSafeBase64Encode(in).ok <=> TRUE
  BY <1>7, OkIsOk
<1>12. \A i \in 1 .. m : f[i] = TwinOf("base64", e[i])
  BY <1>8
<1> HIDE DEF f
<1>13. u = f
  BY <1>7 DEF Ok
<1> QED BY <1>2, <1>10, <1>11, <1>12, <1>13

\* What is decoded: the text with its padding back, every twin its digit.
LEMMA UrlSafeReceived ==
  ASSUME NEW t \in Seq(Nat), NEW k \in Nat \ {0}, Len(t) \in (4 * k) - 3 .. 4 * k
  PROVE  \E w \in Seq(Nat) :
           /\ Len(w) = 4 * k /\ UrlSafeBase64Decode(t) = Base64Decode(w)
           /\ \A i \in 1 .. 4 * k : /\ i <= Len(t) => w[i] = DigitOf("base64", t[i])
                                    /\ i > Len(t) => w[i] = Pad("base64")
<1>1. PICK n : n = Len(t)
  OBVIOUS
<1>2. n \in Nat /\ n \in (4 * k) - 3 .. 4 * k
  BY <1>1
<1>3. n + ((4 - (n % 4)) % 4) = 4 * k
  <2>1. CASE n = 4 * k
    <3>1. n = 4 * k + 0 /\ n \in Int /\ k \in Int /\ 4 = 4 * 1 + 0 /\ 4 \in Int
      BY <2>1
    <3>2. n % 4 = 0
      BY ONLY <3>1, 4 \in Nat \ {0}, 0 \in 0 .. 4 - 1, DivModUnique
    <3>3. 4 % 4 = 0
      BY ONLY <3>1, 4 \in Nat \ {0}, 0 \in 0 .. 4 - 1, 1 \in Int, DivModUnique
    <3> QED BY <1>2, <2>1, <3>2, <3>3
  <2>2. ASSUME NEW r \in 1 .. 3, n = (4 * k) - r PROVE n + ((4 - (n % 4)) % 4) = 4 * k
    <3>1. n = 4 * (k - 1) + (4 - r) /\ n \in Int /\ k - 1 \in Int /\ 4 - r \in 0 .. 4 - 1
      BY <1>2, <2>2
    <3>2. n % 4 = 4 - r
      BY ONLY <3>1, 4 \in Nat \ {0}, DivModUnique
    <3>3. 4 - (n % 4) = r /\ r = 4 * 0 + r /\ r \in Int /\ 0 \in Int /\ r \in 0 .. 4 - 1
      BY <3>2
    <3>4. r % 4 = r
      BY ONLY <3>3, 4 \in Nat \ {0}, DivModUnique
    <3>5. (4 - (n % 4)) % 4 = r
      BY ONLY <3>3, <3>4
    <3> QED BY ONLY <1>2, <2>2, <3>5, k \in Nat \ {0}, r \in 1 .. 3
  <2>3. n = 4 * k \/ \E r \in 1 .. 3 : n = (4 * k) - r
    <3>1. PICK r : r = (4 * k) - n
      OBVIOUS
    <3>2. r \in 0 .. 3 /\ n = (4 * k) - r
      BY <1>2, <3>1
    <3> QED BY <1>2, <3>2
  <2> QED BY <2>1, <2>2, <2>3
<1> DEFINE w == [i \in 1 .. 4 * k |-> IF i > n THEN Pad("base64") ELSE DigitOf("base64", t[i])]
<1>4. UrlSafeBase64Decode(t) = Base64Decode(w)
  BY <1>1, <1>3 DEF UrlSafeBase64Decode
<1>5. ASSUME NEW i \in 1 .. 4 * k, i <= n PROVE DigitOf("base64", t[i]) \in Nat
  <2>1. i \in 1 .. Len(t)
    BY <1>1, <1>2, <1>5
  <2>2. t[i] \in Nat
    BY <2>1
  <2> QED BY <2>2, TwinsAreDigits
<1>6. w \in [1 .. 4 * k -> Nat]
  BY <1>2, <1>5, DigitOrPad
<1>7. \A i \in 1 .. 4 * k : /\ i <= n => w[i] = DigitOf("base64", t[i])
                            /\ i > n => w[i] = Pad("base64")
  BY <1>2
<1> HIDE DEF w
<1>8. w \in Seq(Nat) /\ Len(w) = 4 * k
  <2>1. PICK m : m = 4 * k
    OBVIOUS
  <2>2. m \in Nat /\ w \in [1 .. m -> Nat]
    BY <1>6, <2>1
  <2>3. w \in Seq(Nat) /\ Len(w) = m
    BY <2>2, FunctionSeq
  <2> QED BY <2>1, <2>3
<1> QED BY <1>1, <1>4, <1>7, <1>8

\* URL-safe Base64 that arrives as it was sent gives the data back.
LEMMA UrlSafeUndamaged ==
  ASSUME NEW in \in Seq(TextByte), in # <<>>
  PROVE  UrlSafeBase64Decode(UrlSafeBase64Encode(in).out) = Ok(in)
<1>1. PICK u, e : u = UrlSafeBase64Encode(in).out /\ e = Base64Encode(in).out
  OBVIOUS
<1>2. PICK k, m : k = Groups(in) /\ m = Digits(in)
  OBVIOUS
<1>3. u \in Seq(Nat) /\ Len(u) = m /\ \A i \in 1 .. m : u[i] = TwinOf("base64", e[i])
  BY <1>1, <1>2, UrlSafeShape
<1>4. /\ Len(e) = 4 * k /\ k \in Nat \ {0} /\ m \in (4 * k) - 2 .. 4 * k /\ m \in 1 .. Len(e)
      /\ \A i \in 1 .. Len(e) : i <= m => e[i] \in Digit
  BY <1>1, <1>2, Base64IsNumbers
<1>5. Len(u) \in (4 * k) - 3 .. 4 * k
  BY <1>3, <1>4
<1>6. PICK w \in Seq(Nat) :
        /\ Len(w) = 4 * k /\ UrlSafeBase64Decode(u) = Base64Decode(w)
        /\ \A i \in 1 .. 4 * k : /\ i <= Len(u) => w[i] = DigitOf("base64", u[i])
                                 /\ i > Len(u) => w[i] = Pad("base64")
  BY <1>3, <1>4, <1>5, UrlSafeReceived
<1>7. ASSUME NEW i \in 1 .. Len(w), i <= m PROVE w[i] = e[i]
  <2>1. w[i] = DigitOf("base64", u[i]) /\ i \in 1 .. m /\ i \in 1 .. Len(e)
    BY <1>3, <1>4, <1>6, <1>7
  <2>2. u[i] = TwinOf("base64", e[i]) /\ e[i] \in Digit
    BY <1>3, <1>4, <1>7, <2>1
  <2> QED BY <2>1, <2>2, TwinsAreDigits
<1>8. ASSUME NEW i \in 1 .. Len(w), i > m PROVE w[i] = Pad("base64")
  BY <1>3, <1>6, <1>8
<1>9. Base64Decode(w) = Ok(in)
  <2>1. Len(w) = 4 * Groups(in)
    BY <1>2, <1>6
  <2> QED BY <1>1, <1>2, <1>7, <1>8, <2>1, AllDigitsDecoded
<1> QED BY <1>1, <1>6, <1>9

\* URL-safe Base64 that lost its last symbol is refused or gives all bytes but the last.
LEMMA UrlSafeCut ==
  ASSUME NEW in \in Seq(TextByte), in # <<>>, NEW t, t = Seqs!Front(UrlSafeBase64Encode(in).out)
  PROVE  \/ UrlSafeBase64Decode(t) = Err
         \/ UrlSafeBase64Decode(t) = Ok(SubSeq(in, 1, Len(in) - 1))
<1>1. PICK u, e : u = UrlSafeBase64Encode(in).out /\ e = Base64Encode(in).out
  OBVIOUS
<1>2. PICK k, m : k = Groups(in) /\ m = Digits(in)
  OBVIOUS
<1>3. u \in Seq(Nat) /\ Len(u) = m /\ \A i \in 1 .. m : u[i] = TwinOf("base64", e[i])
  BY <1>1, <1>2, UrlSafeShape
<1>4. /\ Len(e) = 4 * k /\ k \in Nat \ {0} /\ m \in (4 * k) - 2 .. 4 * k /\ m \in 1 .. Len(e)
      /\ \A i \in 1 .. Len(e) : i <= m => e[i] \in Digit
  BY <1>1, <1>2, Base64IsNumbers
<1>5. t = SubSeq(u, 1, m - 1)
  BY <1>1, <1>3 DEF Seqs!Front
<1>6. t \in Seq(Nat) /\ Len(t) = m - 1 /\ \A i \in 1 .. m - 1 : t[i] = u[i]
  <2>1. m - 1 \in 0 .. Len(u)
    BY <1>3, <1>4
  <2> QED BY <1>3, <1>5, <2>1, FirstElements
<1>7. Len(t) \in (4 * k) - 3 .. 4 * k
  BY <1>4, <1>6
<1>8. PICK w \in Seq(Nat) :
        /\ Len(w) = 4 * k /\ UrlSafeBase64Decode(t) = Base64Decode(w)
        /\ \A i \in 1 .. 4 * k : /\ i <= Len(t) => w[i] = DigitOf("base64", t[i])
                                 /\ i > Len(t) => w[i] = Pad("base64")
  BY <1>4, <1>6, <1>7, UrlSafeReceived
<1>9. ASSUME NEW i \in 1 .. Len(w), i < m PROVE w[i] = e[i]
  <2>1. i \in 1 .. m /\ i \in 1 .. m - 1 /\ i \in 1 .. Len(e) /\ i <= Len(t)
    <3>1. i \in Nat /\ i >= 1 /\ i <= 4 * k /\ i < m /\ m \in Nat /\ k \in Nat
      BY <1>4, <1>8, <1>9
    <3>2. i \in 1 .. m /\ i \in 1 .. m - 1 /\ i <= m - 1 /\ i \in 1 .. 4 * k
      BY ONLY <3>1
    <3> QED BY <1>4, <1>6, <3>2
  <2>2. w[i] = DigitOf("base64", u[i])
    BY <1>6, <1>8, <2>1
  <2>3. u[i] = TwinOf("base64", e[i]) /\ e[i] \in Digit
    BY <1>3, <1>4, <1>9, <2>1
  <2> QED BY <2>2, <2>3, TwinsAreDigits
<1>10. ASSUME NEW i \in 1 .. Len(w), i >= m PROVE w[i] = Pad("base64")
  BY <1>4, <1>6, <1>8, <1>10
<1>11. Len(w) = 4 * Groups(in)
  BY <1>2, <1>8
<1>12. Base64Decode(w) = Err \/ Base64Decode(w) = Ok(SubSeq(in, 1, Len(in) - 1))
  BY <1>1, <1>2, <1>9, <1>10, <1>11, LastDigitLost
<1> QED BY <1>8, <1>12

\* With one symbol changed the decoder is given the padded form, changed there.
LEMMA UrlSafeChanged ==
  ASSUME NEW in \in Seq(TextByte), in # <<>>, NEW u, u = UrlSafeBase64Encode(in).out,
         NEW i \in 1 .. Len(u), NEW c \in Nat, NEW t, t = [u EXCEPT ![i] = c]
  PROVE  \E w \in Seq(Nat) :
           /\ Len(w) = 4 * Groups(in) /\ UrlSafeBase64Decode(t) = Base64Decode(w)
           /\ i \in 1 .. Digits(in) /\ w[i] = DigitOf("base64", c)
           /\ \A j \in 1 .. Len(w) : j # i => w[j] = Base64Encode(in).out[j]
<1>1. PICK e : e = Base64Encode(in).out
  OBVIOUS
<1>2. PICK k, m : k = Groups(in) /\ m = Digits(in)
  OBVIOUS
<1>3. u \in Seq(Nat) /\ Len(u) = m /\ \A j \in 1 .. m : u[j] = TwinOf("base64", e[j])
  BY ONLY <1>1, <1>2, in \in Seq(TextByte), in # <<>>, u = UrlSafeBase64Encode(in).out, UrlSafeShape
<1>4. /\ Len(e) = 4 * k /\ k \in Nat \ {0} /\ m \in (4 * k) - 2 .. 4 * k /\ m \in 1 .. Len(e)
      /\ \A j \in 1 .. Len(e) : /\ j <= m => e[j] \in Digit
                                /\ j > m => e[j] = Pad("base64")
  BY <1>1, <1>2, Base64IsNumbers
<1>5. t \in Seq(Nat) /\ Len(t) = m /\ t[i] = c /\ \A j \in 1 .. m : j # i => t[j] = u[j]
  BY <1>3
<1>6. Len(t) \in (4 * k) - 3 .. 4 * k /\ i \in 1 .. m /\ i \in 1 .. 4 * k
  BY <1>3, <1>4, <1>5
<1>7. PICK w \in Seq(Nat) :
        /\ Len(w) = 4 * k /\ UrlSafeBase64Decode(t) = Base64Decode(w)
        /\ \A j \in 1 .. 4 * k : /\ j <= Len(t) => w[j] = DigitOf("base64", t[j])
                                 /\ j > Len(t) => w[j] = Pad("base64")
  BY <1>4, <1>5, <1>6, UrlSafeReceived
<1>8. w[i] = DigitOf("base64", c)
  BY <1>5, <1>6, <1>7
<1>9. ASSUME NEW j \in 1 .. Len(w), j # i PROVE w[j] = e[j]
  <2>1. CASE j <= m
    <3>1. j \in 1 .. m /\ j \in 1 .. Len(e) /\ j <= Len(t)
      BY <1>4, <1>5, <1>7, <2>1
    <3>2. w[j] = DigitOf("base64", u[j])
      BY <1>5, <1>7, <1>9, <3>1
    <3>3. u[j] = TwinOf("base64", e[j]) /\ e[j] \in Digit
      BY <1>3, <1>4, <2>1, <3>1
    <3> QED BY <3>2, <3>3, TwinsAreDigits
  <2>2. CASE j > m
    BY <1>4, <1>5, <1>7, <2>2
  <2> QED BY <1>4, <1>7, <2>1, <2>2
<1> QED BY <1>1, <1>2, <1>6, <1>7, <1>8, <1>9

\* So it is with a padding symbol in place of a digit.
LEMMA UrlSafePadded ==
  ASSUME NEW in \in Seq(TextByte), in # <<>>, NEW u, u = UrlSafeBase64Encode(in).out,
         NEW i \in 1 .. Len(u), NEW t, t = [u EXCEPT ![i] = Pad("base64")]
  PROVE  \/ UrlSafeBase64Decode(t) = Err
         \/ UrlSafeBase64Decode(t) = Ok(SubSeq(in, 1, Len(in) - 1))
<1>1. Pad("base64") \in Nat /\ DigitOf("base64", Pad("base64")) = Pad("base64")
  BY DigitOrPad, TwinsAreDigits
<1>2. PICK w \in Seq(Nat) :
        /\ Len(w) = 4 * Groups(in) /\ UrlSafeBase64Decode(t) = Base64Decode(w)
        /\ i \in 1 .. Digits(in) /\ w[i] = Pad("base64")
        /\ \A j \in 1 .. Len(w) : j # i => w[j] = Base64Encode(in).out[j]
  <2>1. PICK c : c = Pad("base64")
    OBVIOUS
  <2>2. c \in Nat /\ t = [u EXCEPT ![i] = c]
    BY <1>1, <2>1
  <2>3. PICK w \in Seq(Nat) :
          /\ Len(w) = 4 * Groups(in) /\ UrlSafeBase64Decode(t) = Base64Decode(w)
          /\ i \in 1 .. Digits(in) /\ w[i] = DigitOf("base64", c)
          /\ \A j \in 1 .. Len(w) : j # i => w[j] = Base64Encode(in).out[j]
    BY ONLY <2>2, in \in Seq(TextByte), in # <<>>, u = UrlSafeBase64Encode(in).out,
            i \in 1 .. Len(u), UrlSafeChanged
  <2> QED BY <1>1, <2>1, <2>3
<1>3. Base64Decode(w) = Err \/ Base64Decode(w) = Ok(SubSeq(in, 1, Len(in) - 1))
  BY <1>2, PadForDigit
<1> QED BY <1>2, <1>3

\* URL-safe Base64 with a foreign symbol is refused.
LEMMA UrlSafeForeign ==
  ASSUME NEW in \in Seq(TextByte), in # <<>>, NEW u, u = UrlSafeBase64Encode(in).out,
         NEW i \in 1 .. Len(u), NEW t, t = [u EXCEPT ![i] = Foreign("base64")]
  PROVE  UrlSafeBase64Decode(t) = Err
<1>1. /\ Foreign("base64") \in Nat /\ DigitOf("base64", Foreign("base64")) = Foreign("base64")
      /\ Foreign("base64") \notin Digit /\ Foreign("base64") # Pad("base64")
  BY OtherSymbols, TwinsAreDigits
<1>2. PICK w \in Seq(Nat) :
        /\ Len(w) = 4 * Groups(in) /\ UrlSafeBase64Decode(t) = Base64Decode(w)
        /\ i \in 1 .. Digits(in) /\ w[i] = Foreign("base64")
  <2>1. PICK c : c = Foreign("base64")
    OBVIOUS
  <2>2. c \in Nat /\ t = [u EXCEPT ![i] = c]
    BY <1>1, <2>1
  <2>3. PICK w \in Seq(Nat) :
          /\ Len(w) = 4 * Groups(in) /\ UrlSafeBase64Decode(t) = Base64Decode(w)
          /\ i \in 1 .. Digits(in) /\ w[i] = DigitOf("base64", c)
          /\ \A j \in 1 .. Len(w) : j # i => w[j] = Base64Encode(in).out[j]
    BY ONLY <2>2, in \in Seq(TextByte), in # <<>>, u = UrlSafeBase64Encode(in).out,
            i \in 1 .. Len(u), UrlSafeChanged
  <2> QED BY <1>1, <2>1, <2>3
<1>3. Groups(in) \in Nat \ {0} /\ Digits(in) \in Nat /\ Digits(in) <= 4 * Groups(in)
  BY Base64Sizes
<1>4. i \in 1 .. Len(w)
  BY <1>2, <1>3
<1>5. Base64Decode(w) = Err
  BY <1>1, <1>2, <1>3, <1>4, ForeignRefused
<1> QED BY <1>2, <1>5

\* The symbol written for the last digit but one is read as that digit anywhere.
LEMMA UrlSafeOtherDigit ==
  ASSUME NEW in \in Seq(TextByte), in # <<>>, NEW u, u = UrlSafeBase64Encode(in).out,
         NEW i \in 1 .. Len(u), NEW t, t = [u EXCEPT ![i] = Base("base64")]
  PROVE  \E v : UrlSafeBase64Decode(t) = Ok(v) /\ Len(v) = Len(in)
<1>1. /\ Base("base64") \in Nat /\ DigitOf("base64", Base("base64")) = Base("base64") - 2
      /\ Base("base64") - 2 \in Digit
  BY OtherSymbols, TwinsAreDigits
<1>2. PICK w \in Seq(Nat) :
        /\ Len(w) = 4 * Groups(in) /\ UrlSafeBase64Decode(t) = Base64Decode(w)
        /\ i \in 1 .. Digits(in) /\ w[i] \in Digit
        /\ \A j \in 1 .. Len(w) : j # i => w[j] = Base64Encode(in).out[j]
  <2>1. PICK c : c = Base("base64")
    OBVIOUS
  <2>2. c \in Nat /\ t = [u EXCEPT ![i] = c]
    BY <1>1, <2>1
  <2>3. PICK w \in Seq(Nat) :
          /\ Len(w) = 4 * Groups(in) /\ UrlSafeBase64Decode(t) = Base64Decode(w)
          /\ i \in 1 .. Digits(in) /\ w[i] = DigitOf("base64", c)
          /\ \A j \in 1 .. Len(w) : j # i => w[j] = Base64Encode(in).out[j]
    BY ONLY <2>2, in \in Seq(TextByte), in # <<>>, u = UrlSafeBase64Encode(in).out,
            i \in 1 .. Len(u), UrlSafeChanged
  <2> QED BY <1>1, <2>1, <2>3
<1>3. PICK k, m, n : k = Groups(in) /\ m = Digits(in) /\ n = Len(in)
  <2>1. PICK k, m : k = Groups(in) /\ m = Digits(in)
    OBVIOUS
  <2> QED BY <2>1
<1>4. /\ k \in Nat \ {0} /\ m \in Nat /\ m \in (4 * k) - 2 .. 4 * k
      /\ (3 * m) \div 4 = n /\ n \in Nat
  BY <1>3, Base64Sizes
<1>5. \A j \in 1 .. 4 * k : /\ j <= m => Base64Encode(in).out[j] \in Digit
                            /\ j > m => Base64Encode(in).out[j] = Pad("base64")
  BY <1>3, Base64Shape
<1>6. ASSUME NEW j \in 1 .. Len(w)
      PROVE  /\ j <= m => w[j] \in Digit
             /\ j > m => w[j] = Pad("base64")
  <2>1. j \in 1 .. 4 * k /\ i <= m
    BY <1>2, <1>3, <1>4
  <2>2. CASE j = i
    BY <1>2, <1>4, <2>1, <2>2
  <2>3. CASE j # i
    <3>1. w[j] = Base64Encode(in).out[j]
      BY <1>2, <2>3
    <3> QED BY <1>5, <2>1, <3>1
  <2> QED BY <2>2, <2>3
<1>7. Len(w) = 4 * k
  BY <1>2, <1>3
<1>8. Base64Decode(w) = Ok(Decoded(w, m))
  BY <1>4, <1>6, <1>7, DigitsAccepted
<1>9. PICK g : g = [j \in 1 .. n |-> Decoded(w, m)[j]]
  OBVIOUS
<1>10. Decoded(w, m) = g
  BY <1>4, <1>9 DEF Decoded
<1>11. Len(g) = n
  BY <1>4, <1>9
<1> QED BY <1>2, <1>3, <1>8, <1>10, <1>11
(***************************************************************************)
(* Hexadecimal on its way.                                                 *)
(***************************************************************************)
\* There are at least four hexadecimal digits; padding and foreign symbols are none of them.
LEMMA HexBase ==
  /\ Base("hex") = 2^(2 * Unit) /\ Base("hex") \in Nat \ {0} /\ Base("hex") >= 4
  /\ Pad("hex") \in Nat /\ Pad("hex") \notin 0 .. Base("hex") + 1
  /\ Foreign("hex") \in Nat /\ Foreign("hex") \notin 0 .. Base("hex") + 1
<1>1. PICK u, b : u = 2^Unit /\ b = 2^(2 * Unit)
  OBVIOUS
<1>2. u \in Nat /\ u >= 2 /\ b \in Nat /\ b = u * u
  BY <1>1, UnitPowers
<1>3. b >= 4
  <2>1. PICK x : x = u - 2
    OBVIOUS
  <2>2. x \in Nat /\ u * u = x * u + (u + u) /\ x * u \in Nat
    BY <1>2, <2>1
  <2> QED BY <1>2, <2>2
<1>4. Base("hex") = b
  BY <1>1 DEF Base
<1> QED BY <1>1, <1>2, <1>3, <1>4 DEF Pad, Foreign

\* Two digits for a byte, the high one first.
LEMMA HexShape ==
  ASSUME NEW in \in Seq(TextByte), in # <<>>, NEW h, h = Hexlify(in).out,
         NEW b, b = Base("hex")
  PROVE  /\ Hexlify(in).ok <=> TRUE
         /\ Len(in) \in Nat \ {0} /\ h \in Seq(Nat) /\ Len(h) = 2 * Len(in)
         /\ \A i \in 1 .. 2 * Len(in) : h[i] \in 0 .. b - 1
         /\ \A j \in 1 .. Len(in) : h[2 * j - 1] = in[j] \div b /\ h[2 * j] = in[j] % b
<1> DEFINE f == [i \in 1 .. 2 * Len(in) |->
                   IF i % 2 = 1 THEN in[(i + 1) \div 2] \div Base("hex") ELSE in[i \div 2] % Base("hex")]
<1>1. Hexlify(in) = Ok(f)
  BY Zenon DEF Hexlify
<1>2. Hexlify(in).ok <=> TRUE
  BY <1>1, OkIsOk
<1>3. PICK n : n = Len(in)
  OBVIOUS
<1>4. n \in Nat \ {0} /\ b \in Nat \ {0}
  BY <1>3, HexBase
<1>5. ASSUME NEW x \in TextByte PROVE x \div b \in 0 .. b - 1 /\ x % b \in 0 .. b - 1
  BY ByteParts, HexBase
<1>6. ASSUME NEW j \in 1 .. n
      PROVE  /\ 2 * j - 1 \in 1 .. 2 * n /\ 2 * j \in 1 .. 2 * n
             /\ f[2 * j - 1] = in[j] \div b /\ f[2 * j] = in[j] % b
  <2>1. PICK x, y : x = 2 * j - 1 /\ y = 2 * j
    OBVIOUS
  <2>2. x \in 1 .. 2 * n /\ y \in 1 .. 2 * n
    BY <1>4, <2>1
  <2>3. /\ x = 2 * (j - 1) + 1 /\ x \in Int /\ j - 1 \in Int /\ y = 2 * j + 0 /\ y \in Int /\ j \in Int
        /\ x + 1 = y
    BY <1>4, <2>1
  <2>4. x % 2 = 1
    BY ONLY <2>3, 2 \in Nat \ {0}, 1 \in 0 .. 2 - 1, DivModUnique
  <2>5. y % 2 = 0 /\ y \div 2 = j
    BY ONLY <2>3, 2 \in Nat \ {0}, 0 \in 0 .. 2 - 1, DivModUnique
  <2>6. f[x] = in[j] \div b /\ f[y] = in[j] % b
    BY <1>3, <2>2, <2>3, <2>4, <2>5
  <2> QED BY ONLY <2>1, <2>2, <2>6
<1>7. ASSUME NEW i \in 1 .. 2 * n PROVE f[i] \in 0 .. b - 1
  <2>1. PICK q, r : q = i \div 2 /\ r = i % 2
    OBVIOUS
  <2>2. i \in Int
    BY <1>4
  <2>3. i = 2 * (i \div 2) + (i % 2) /\ i % 2 \in 0 .. 2 - 1 /\ i \div 2 \in Int
    BY ONLY <2>2, 2 \in Nat \ {0}, DivMod
  <2>4. i = 2 * q + r /\ r \in 0 .. 1 /\ q \in Int
    BY <2>1, <2>3
  <2>5. CASE r = 0
    <3>1. q \in 1 .. n
      BY <1>4, <2>4, <2>5
    <3>2. in[q] \in TextByte /\ f[2 * q] = in[q] % b /\ 2 * q = i
      BY <1>3, <1>6, <2>4, <2>5, <3>1
    <3> HIDE DEF f
    <3> QED BY <1>5, <3>2
  <2>6. CASE r = 1
    <3>1. PICK j : j = q + 1
      OBVIOUS
    <3>2. j \in 1 .. n /\ 2 * j - 1 = i
      BY <1>4, <2>4, <2>6, <3>1
    <3> HIDE DEF f
    <3>3. in[j] \in TextByte
      BY <1>3, <3>2
    <3>4. f[2 * j - 1] = in[j] \div b
      BY <1>6, <3>2
    <3>5. f[i] = in[j] \div b
      BY ONLY <3>2, <3>4
    <3> QED BY <1>5, <3>3, <3>5
  <2> QED BY <2>4, <2>5, <2>6
<1>8. f \in [1 .. 2 * n -> Nat]
  <2>1. f = [i \in 1 .. 2 * n |-> f[i]]
    BY <1>3
  <2>2. ASSUME NEW i \in 1 .. 2 * n PROVE f[i] \in Nat
    <3> HIDE DEF f
    <3> QED BY <1>4, <1>7
  <2> HIDE DEF f
  <2> QED BY <2>1, <2>2
<1> HIDE DEF f
<1>9. f \in Seq(Nat) /\ Len(f) = 2 * n
  <2>1. PICK m : m = 2 * n
    OBVIOUS
  <2>2. m \in Nat /\ f \in [1 .. m -> Nat]
    BY <1>4, <1>8, <2>1
  <2> QED BY <2>1, <2>2, FunctionSeq
<1>10. h = f
  BY <1>1 DEF Ok
<1> QED BY <1>2, <1>3, <1>4, <1>6, <1>7, <1>9, <1>10

\* Any symbol that is no digit is refused.
LEMMA HexForeign ==
  ASSUME NEW t, NEW i \in 1 .. Len(t), t[i] \notin 0 .. Base("hex") + 1
  PROVE  UnHexlify(t) = Err
BY DEF UnHexlify

\* Two symbols a byte, if all of them are digits.
LEMMA HexAccepted ==
  ASSUME NEW t, NEW n \in Nat, Len(t) = 2 * n,
         \A i \in 1 .. 2 * n : t[i] \in 0 .. Base("hex") + 1
  PROVE  UnHexlify(t) = Ok([i \in 1 .. n |-> DigitOf("hex", t[2 * i - 1]) * Base("hex")
                                             + DigitOf("hex", t[2 * i])])
<1>1. PICK m : m = Len(t)
  OBVIOUS
<1>2. m = 2 * n + 0 /\ m \in Int /\ n \in Int
  BY <1>1
<1>3. m % 2 = 0 /\ m \div 2 = n
  BY ONLY <1>2, 2 \in Nat \ {0}, 0 \in 0 .. 2 - 1, DivModUnique
<1>4. ~(Len(t) % 2 # 0 \/ \E i \in 1 .. Len(t) : t[i] \notin 0 .. Base("hex") + 1)
  BY <1>1, <1>3
<1>5. Len(t) \div 2 = n
  BY <1>1, <1>3
<1> QED BY <1>4, <1>5 DEF UnHexlify

\* Hexadecimal that arrives as it was sent gives the data back.
LEMMA HexUndamaged ==
  ASSUME NEW in \in Seq(TextByte), in # <<>>
  PROVE  UnHexlify(Hexlify(in).out) = Ok(in)
<1>1. PICK h, b : h = Hexlify(in).out /\ b = Base("hex")
  OBVIOUS
<1>2. PICK n : n = Len(in)
  OBVIOUS
<1>3. /\ n \in Nat \ {0} /\ h \in Seq(Nat) /\ Len(h) = 2 * n
      /\ \A i \in 1 .. 2 * n : h[i] \in 0 .. b - 1
      /\ \A j \in 1 .. n : h[2 * j - 1] = in[j] \div b /\ h[2 * j] = in[j] % b
  <2>1. \A j \in 1 .. Len(in) : h[2 * j - 1] = in[j] \div b /\ h[2 * j] = in[j] % b
    BY ONLY <1>1, in \in Seq(TextByte), in # <<>>, HexShape
  <2>2. /\ Len(in) \in Nat \ {0} /\ h \in Seq(Nat) /\ Len(h) = 2 * Len(in)
        /\ \A i \in 1 .. 2 * Len(in) : h[i] \in 0 .. b - 1
    BY <1>1, HexShape
  <2> QED BY <1>2, <2>1, <2>2
<1>4. b \in Nat \ {0} /\ b >= 4
  BY <1>1, HexBase
<1>5. \A i \in 1 .. 2 * n : h[i] \in 0 .. b + 1
  <2> SUFFICES ASSUME NEW i \in 1 .. 2 * n PROVE h[i] \in 0 .. b + 1
    OBVIOUS
  <2>1. h[i] \in 0 .. b - 1
    BY <1>3
  <2> QED BY <1>4, <2>1
<1>6. UnHexlify(h) = Ok([i \in 1 .. n |-> DigitOf("hex", h[2 * i - 1]) * b + DigitOf("hex", h[2 * i])])
  BY <1>1, <1>3, <1>5, HexAccepted
<1>7. ASSUME NEW x \in 0 .. b - 1 PROVE DigitOf("hex", x) = x
  BY <1>1, <1>4 DEF DigitOf, Twins
<1>8. ASSUME NEW i \in 1 .. n
      PROVE  DigitOf("hex", h[2 * i - 1]) * b + DigitOf("hex", h[2 * i]) = in[i]
  <2>1. PICK x, y, z : x = in[i] \div b /\ y = in[i] % b /\ z = in[i]
    <3>1. PICK x, y : x = in[i] \div b /\ y = in[i] % b
      OBVIOUS
    <3> QED BY <3>1
  <2>2. z \in TextByte
    BY <1>2, <2>1
  <2>3. x \in 0 .. b - 1 /\ y \in 0 .. b - 1 /\ x * b + y = z
    BY <1>1, <2>1, <2>2, ByteParts, HexBase
  <2>4. h[2 * i - 1] = x /\ h[2 * i] = y
    BY <1>3, <2>1
  <2>5. DigitOf("hex", h[2 * i - 1]) = x /\ DigitOf("hex", h[2 * i]) = y
    BY <1>7, <2>3, <2>4
  <2> QED BY <2>1, <2>3, <2>5
<1>9. [i \in 1 .. n |-> DigitOf("hex", h[2 * i - 1]) * b + DigitOf("hex", h[2 * i])]
        = [i \in 1 .. n |-> in[i]]
  BY <1>8
<1>10. [i \in 1 .. n |-> in[i]] = in
  BY <1>2
<1> QED BY <1>1, <1>6, <1>9, <1>10

\* Hexadecimal that lost its last digit is refused: its length is odd.
LEMMA HexCut ==
  ASSUME NEW in \in Seq(TextByte), in # <<>>
  PROVE  UnHexlify(Seqs!Front(Hexlify(in).out)) = Err
<1>1. PICK h, n : h = Hexlify(in).out /\ n = Len(in)
  OBVIOUS
<1>2. PICK f, m : f = SubSeq(h, 1, Len(h) - 1) /\ m = Len(h) - 1
  OBVIOUS
<1>3. h \in Seq(Nat) /\ Len(h) = 2 * n /\ n \in Nat \ {0}
  BY <1>1, HexShape
<1>4. m = 2 * (n - 1) + 1 /\ m \in Int /\ n - 1 \in Int /\ m \in 0 .. Len(h)
  BY <1>2, <1>3
<1>5. m % 2 = 1
  BY ONLY <1>4, 2 \in Nat \ {0}, 1 \in 0 .. 2 - 1, DivModUnique
<1>6. Len(f) = m
  BY <1>2, <1>3, <1>4, FirstElements
<1>7. UnHexlify(f) = Err
  BY <1>5, <1>6 DEF UnHexlify
<1> QED BY <1>1, <1>2, <1>7 DEF Seqs!Front

\* Another digit gives other data, but as many bytes.
LEMMA HexOtherDigit ==
  ASSUME NEW in \in Seq(TextByte), in # <<>>, NEW h, h = Hexlify(in).out,
         NEW i \in 1 .. Len(h), NEW t, t = [h EXCEPT ![i] = Base("hex")]
  PROVE  \E v : UnHexlify(t) = Ok(v) /\ Len(v) = Len(in)
<1>1. PICK n, b : n = Len(in) /\ b = Base("hex")
  OBVIOUS
<1>2. /\ n \in Nat \ {0} /\ h \in Seq(Nat) /\ Len(h) = 2 * n
      /\ \A j \in 1 .. 2 * n : h[j] \in 0 .. b - 1
  BY <1>1, HexShape
<1>3. b \in Nat \ {0}
  BY <1>1, HexBase
<1>4. Len(t) = 2 * n /\ \A j \in 1 .. 2 * n : t[j] = IF j = i THEN b ELSE h[j]
  BY <1>1, <1>2, <1>3
<1>5. ASSUME NEW j \in 1 .. 2 * n PROVE t[j] \in 0 .. b + 1
  <2>1. b \in 0 .. b + 1 /\ 0 .. b - 1 \subseteq 0 .. b + 1
    BY ONLY <1>3
  <2>2. h[j] \in 0 .. b - 1 /\ t[j] = IF j = i THEN b ELSE h[j]
    BY <1>2, <1>4
  <2> QED BY ONLY <2>1, <2>2
<1>6. PICK v : v = [j \in 1 .. n |-> DigitOf("hex", t[2 * j - 1]) * Base("hex") + DigitOf("hex", t[2 * j])]
  OBVIOUS
<1>7. n \in Nat
  BY <1>2
<1>8. UnHexlify(t) = Ok(v)
  <2>1. ASSUME NEW j \in 1 .. 2 * n PROVE t[j] \in 0 .. Base("hex") + 1
    BY <1>1, <1>5
  <2>2. Len(t) = 2 * n
    BY <1>4
  <2>3. UnHexlify(t) = Ok([j \in 1 .. n |-> DigitOf("hex", t[2 * j - 1]) * Base("hex")
                                             + DigitOf("hex", t[2 * j])])
    BY ONLY <1>7, <2>1, <2>2, HexAccepted
  <2> QED BY <1>6, <2>3
<1>9. Len(v) = n
  BY <1>6, <1>7
<1> QED BY <1>1, <1>8, <1>9
(***************************************************************************)
(* What becomes of a text on its way, and what is promised of the result.  *)
(***************************************************************************)
\* Text enc with one symbol changed to c.
Changed(enc, t, c) == \E i \in 1 .. Len(enc) : enc[i] # c /\ t = [enc EXCEPT ![i] = c]

Carried(f, enc, d, t) ==
  \/ d = "none" /\ t = enc
  \/ d = "cut" /\ enc # <<>> /\ t = Seqs!Front(enc)
  \/ d = "pad" /\ Changed(enc, t, Pad(f))
  \/ d = "foreign" /\ Changed(enc, t, Foreign(f))
  \/ d = "digit" /\ Changed(enc, t, Base(f))

Promised(f, in, d, got) ==
  CASE d = "none" -> got.ok /\ got.out = in
    [] d = "cut" -> got.ok => f = "urlsafe" /\ got.out = Seqs!Front(in)
    [] d = "pad" -> got.ok => f # "hex" /\ got.out # in /\ Seqs!IsPrefix(got.out, in)
    [] d = "foreign" -> ~got.ok
    [] d = "digit" -> got.ok => f # "base64" /\ Len(got.out) = Len(in)

\* A refused text keeps the promise whenever it was damaged.
LEMMA RefusedPromised ==
  ASSUME NEW f, NEW in, NEW d \in {"cut", "pad", "foreign", "digit"}, NEW got, got = Err
  PROVE  Promised(f, in, d, got)
<1>1. ~got.ok
  <2>1. got.ok <=> FALSE
    BY ErrIsNotOk
  <2> QED BY <2>1, Zenon
<1> QED BY <1>1 DEF Promised

\* The data comes back from a text that was not damaged.
LEMMA WholePromised ==
  ASSUME NEW f, NEW in, NEW got, got = Ok(in)
  PROVE  Promised(f, in, "none", got)
<1>1. got.ok
  <2>1. got.ok <=> TRUE
    BY OkIsOk
  <2> QED BY <2>1, Zenon
<1>2. got.out = in
  BY DEF Ok
<1> QED BY <1>1, <1>2 DEF Promised

\* All but the last byte is what may come back of a text cut or padded.
LEMMA FrontPromised ==
  ASSUME NEW f \in {"base64", "urlsafe"}, NEW in \in Seq(TextByte), in # <<>>,
         NEW d, d = "pad" \/ (d = "cut" /\ f = "urlsafe"),
         NEW got, got = Ok(SubSeq(in, 1, Len(in) - 1))
  PROVE  Promised(f, in, d, got)
<1>1. PICK s : s = SubSeq(in, 1, Len(in) - 1)
  OBVIOUS
<1>2. got.out = s
  BY <1>1 DEF Ok
<1>3. PICK m : m = Len(in) - 1
  OBVIOUS
<1>4. m \in 0 .. Len(in) /\ Len(in) \in Nat /\ m = Len(in) - 1
  BY <1>3
<1>5. s \in Seq(TextByte) /\ Len(s) = m
  BY <1>1, <1>3, <1>4, FirstElements
<1>6. s # in
  BY <1>4, <1>5
<1>7. SubSeq(s, 1, Len(s)) = s
  BY <1>5, SubSeqFull
<1>8. Seqs!IsPrefix(s, in)
  BY <1>1, <1>3, <1>4, <1>5, <1>7 DEF Seqs!IsPrefix
<1>9. s = Seqs!Front(in)
  BY <1>1 DEF Seqs!Front
<1> QED BY <1>2, <1>6, <1>8, <1>9 DEF Promised

\* A result of the right length is all that is promised of another digit.
LEMMA LengthPromised ==
  ASSUME NEW f \in {"hex", "urlsafe"}, NEW in, NEW v, Len(v) = Len(in), NEW got, got = Ok(v)
  PROVE  Promised(f, in, "digit", got)
<1>1. got.out = v
  BY DEF Ok
<1> QED BY <1>1 DEF Promised

\* UnHexlify keeps the promise.
LEMMA HexPromised ==
  ASSUME NEW in \in Seq(TextByte), in # <<>>, NEW d, NEW t, Carried("hex", Hexlify(in).out, d, t)
  PROVE  Promised("hex", in, d, UnHexlify(t))
<1>1. PICK h : h = Hexlify(in).out
  OBVIOUS
<1>2. h \in Seq(Nat)
  BY <1>1, HexShape
<1>3. CASE d = "none" /\ t = h
  <2>1. UnHexlify(t) = Ok(in)
    BY <1>1, <1>3, HexUndamaged
  <2> QED BY <1>3, <2>1, WholePromised
<1>4. CASE d = "cut" /\ t = Seqs!Front(h)
  <2>1. UnHexlify(t) = Err
    BY <1>1, <1>4, HexCut
  <2> QED BY <1>4, <2>1, RefusedPromised
<1>5. ASSUME NEW c, c \in Nat, c \notin 0 .. Base("hex") + 1, Changed(h, t, c), d = "pad" \/ d = "foreign"
      PROVE  Promised("hex", in, d, UnHexlify(t))
  <2>1. PICK i \in 1 .. Len(h) : t = [h EXCEPT ![i] = c]
    BY <1>5 DEF Changed
  <2>2. Len(t) = Len(h) /\ t[i] = c
    BY <1>2, <1>5, <2>1
  <2>3. UnHexlify(t) = Err
    BY <1>5, <2>2, HexForeign
  <2> QED BY <1>5, <2>3, RefusedPromised
<1>6. CASE d = "digit" /\ Changed(h, t, Base("hex"))
  <2>1. PICK i \in 1 .. Len(h) : t = [h EXCEPT ![i] = Base("hex")]
    BY <1>6 DEF Changed
  <2>2. PICK v : UnHexlify(t) = Ok(v) /\ Len(v) = Len(in)
    BY ONLY <1>1, <2>1, in \in Seq(TextByte), in # <<>>, HexOtherDigit
  <2> QED BY <1>6, <2>2, LengthPromised
<1>7. \/ d = "none" /\ t = h
      \/ d = "cut" /\ t = Seqs!Front(h)
      \/ d = "pad" /\ Changed(h, t, Pad("hex"))
      \/ d = "foreign" /\ Changed(h, t, Foreign("hex"))
      \/ d = "digit" /\ Changed(h, t, Base("hex"))
  BY <1>1 DEF Carried
<1> QED BY <1>3, <1>4, <1>5, <1>6, <1>7, HexBase

\* Base64Decode keeps the promise.
LEMMA Base64Promised ==
  ASSUME NEW in \in Seq(TextByte), in # <<>>, NEW d, NEW t,
         Carried("base64", Base64Encode(in).out, d, t)
  PROVE  Promised("base64", in, d, Base64Decode(t))
<1>1. PICK e : e = Base64Encode(in).out
  OBVIOUS
<1>2. CASE d = "none" /\ t = e
  <2>1. Base64Decode(t) = Ok(in)
    BY <1>1, <1>2, Base64Undamaged
  <2> QED BY <1>2, <2>1, WholePromised
<1>3. CASE d = "cut" /\ t = Seqs!Front(e)
  <2>1. Base64Decode(t) = Err
    BY <1>1, <1>3, Base64Cut
  <2> QED BY <1>3, <2>1, RefusedPromised
<1>4. CASE d = "pad" /\ Changed(e, t, Pad("base64"))
  <2>1. PICK i \in 1 .. Len(e) : e[i] # Pad("base64") /\ t = [e EXCEPT ![i] = Pad("base64")]
    BY <1>4 DEF Changed
  <2>2. Base64Decode(t) = Err \/ Base64Decode(t) = Ok(SubSeq(in, 1, Len(in) - 1))
    BY ONLY <1>1, <2>1, in \in Seq(TextByte), in # <<>>, Base64Padded
  <2>3. CASE Base64Decode(t) = Err
    BY <1>4, <2>3, RefusedPromised
  <2>4. CASE Base64Decode(t) = Ok(SubSeq(in, 1, Len(in) - 1))
    BY <1>4, <2>4, FrontPromised
  <2> QED BY <2>2, <2>3, <2>4
<1>5. ASSUME NEW c, c \in Nat, c \notin Digit, c # Pad("base64"), Changed(e, t, c),
             d = "digit" \/ d = "foreign"
      PROVE  Promised("base64", in, d, Base64Decode(t))
  <2>1. PICK i \in 1 .. Len(e) : t = [e EXCEPT ![i] = c]
    BY <1>5 DEF Changed
  <2>2. Base64Decode(t) = Err
    BY ONLY <1>1, <1>5, <2>1, in \in Seq(TextByte), in # <<>>, Base64Altered
  <2> QED BY <1>5, <2>2, RefusedPromised
<1>6. \/ d = "none" /\ t = e
      \/ d = "cut" /\ t = Seqs!Front(e)
      \/ d = "pad" /\ Changed(e, t, Pad("base64"))
      \/ d = "foreign" /\ Changed(e, t, Foreign("base64"))
      \/ d = "digit" /\ Changed(e, t, Base("base64"))
  BY <1>1 DEF Carried
<1> QED BY <1>2, <1>3, <1>4, <1>5, <1>6, OtherSymbols

\* UrlSafeBase64Decode keeps the promise.
LEMMA UrlSafePromised ==
  ASSUME NEW in \in Seq(TextByte), in # <<>>, NEW d, NEW t,
         Carried("urlsafe", UrlSafeBase64Encode(in).out, d, t)
  PROVE  Promised("urlsafe", in, d, UrlSafeBase64Decode(t))
<1>1. PICK u : u = UrlSafeBase64Encode(in).out
  OBVIOUS
<1>2. CASE d = "none" /\ t = u
  <2>1. UrlSafeBase64Decode(t) = Ok(in)
    BY <1>1, <1>2, UrlSafeUndamaged
  <2> QED BY <1>2, <2>1, WholePromised
<1>3. ASSUME UrlSafeBase64Decode(t) = Err, d \in {"cut", "pad", "foreign", "digit"}
      PROVE  Promised("urlsafe", in, d, UrlSafeBase64Decode(t))
  BY <1>3, RefusedPromised
<1>4. ASSUME UrlSafeBase64Decode(t) = Ok(SubSeq(in, 1, Len(in) - 1)), d = "cut" \/ d = "pad"
      PROVE  Promised("urlsafe", in, d, UrlSafeBase64Decode(t))
  BY <1>4, FrontPromised
<1>5. CASE d = "cut" /\ t = Seqs!Front(u)
  <2>1. UrlSafeBase64Decode(t) = Err \/ UrlSafeBase64Decode(t) = Ok(SubSeq(in, 1, Len(in) - 1))
    BY <1>1, <1>5, UrlSafeCut
  <2> QED BY <1>3, <1>4, <1>5, <2>1
<1>6. CASE d = "pad" /\ Changed(u, t, Pad("base64"))
  <2>1. PICK i \in 1 .. Len(u) : t = [u EXCEPT ![i] = Pad("base64")]
    BY <1>6 DEF Changed
  <2>2. UrlSafeBase64Decode(t) = Err \/ UrlSafeBase64Decode(t) = Ok(SubSeq(in, 1, Len(in) - 1))
    BY ONLY <1>1, <2>1, in \in Seq(TextByte), in # <<>>, UrlSafePadded
  <2> QED BY <1>3, <1>4, <1>6, <2>2
<1>7. CASE d = "foreign" /\ Changed(u, t, Foreign("base64"))
  <2>1. PICK i \in 1 .. Len(u) : t = [u EXCEPT ![i] = Foreign("base64")]
    BY <1>7 DEF Changed
  <2>2. UrlSafeBase64Decode(t) = Err
    BY ONLY <1>1, <2>1, in \in Seq(TextByte), in # <<>>, UrlSafeForeign
  <2> QED BY <1>3, <1>7, <2>2
<1>8. CASE d = "digit" /\ Changed(u, t, Base("base64"))
  <2>1. PICK i \in 1 .. Len(u) : t = [u EXCEPT ![i] = Base("base64")]
    BY <1>8 DEF Changed
  <2>2. PICK v : UrlSafeBase64Decode(t) = Ok(v) /\ Len(v) = Len(in)
    BY ONLY <1>1, <2>1, in \in Seq(TextByte), in # <<>>, UrlSafeOtherDigit
  <2> QED BY <1>8, <2>2, LengthPromised
<1>9. \/ d = "none" /\ t = u
      \/ d = "cut" /\ t = Seqs!Front(u)
      \/ d = "pad" /\ Changed(u, t, Pad("base64"))
      \/ d = "foreign" /\ Changed(u, t, Foreign("base64"))
      \/ d = "digit" /\ Changed(u, t, Base("base64"))
  <2>1. Pad("urlsafe") = Pad("base64") /\ Foreign("urlsafe") = Foreign("base64")
        /\ Base("urlsafe") = Base("base64")
    BY DEF Pad, Foreign, Base
  <2> QED BY <1>1, <2>1 DEF Carried
<1> QED BY <1>2, <1>5, <1>6, <1>7, <1>8, <1>9
(***************************************************************************)
(* Sequences put together piece by piece.                                  *)
(***************************************************************************)
\* A function that takes up where it is defined further on.
Forward(f, b, n, top, head, nxt) ==
  f = [p \in b .. n |-> head[p] \o IF nxt[p] <= top THEN f[nxt[p]] ELSE <<>>]

\* There is such a function: it is put together from the end.
LEMMA ForwardExists ==
  ASSUME NEW n \in Nat, NEW top \in Nat, top <= n, NEW head, NEW nxt,
         \A p \in 1 .. n : nxt[p] \in Nat /\ nxt[p] > p
  PROVE  \E f : Forward(f, 1, n, top, head, nxt)
<1> DEFINE T == {k \in Nat : k <= n => \E f : Forward(f, n + 1 - k, n, top, head, nxt)}
<1>1. 0 \in T
  <2>1. PICK f : f = [p \in n + 1 .. n |-> <<>>]
    OBVIOUS
  <2>2. f = [p \in n + 1 .. n |-> head[p] \o IF nxt[p] <= top THEN f[nxt[p]] ELSE <<>>]
    <3>1. n + 1 .. n = {}
      OBVIOUS
    <3> QED BY <2>1, <3>1
  <2>3. n + 1 - 0 = n + 1
    OBVIOUS
  <2>4. Forward(f, n + 1 - 0, n, top, head, nxt)
    BY <2>2, <2>3 DEF Forward
  <2> QED BY <2>4
<1>2. ASSUME NEW k \in T PROVE k + 1 \in T
  <2> SUFFICES ASSUME k + 1 <= n
               PROVE  \E f : Forward(f, n + 1 - (k + 1), n, top, head, nxt)
    OBVIOUS
  <2>1. PICK b : b = n - k
    OBVIOUS
  <2>2. b \in 1 .. n /\ n + 1 - k = b + 1 /\ n + 1 - (k + 1) = b /\ k <= n
    BY <2>1
  <2>3. PICK f : Forward(f, b + 1, n, top, head, nxt)
    BY <2>2
  <2> DEFINE g == [p \in b .. n |-> IF p = b THEN head[b] \o IF nxt[b] <= top THEN f[nxt[b]] ELSE <<>>
                                             ELSE f[p]]
  <2>4. ASSUME NEW p \in b .. n
        PROVE  g[p] = head[p] \o IF nxt[p] <= top THEN g[nxt[p]] ELSE <<>>
    <3>1. PICK x : x = nxt[p]
      OBVIOUS
    <3>2. x \in Nat /\ x > p /\ p >= b
      BY <2>2, <3>1
    <3>3. x <= top => x \in b .. n /\ x # b
      BY <2>2, <3>2
    <3>4. x <= top => g[x] = f[x]
      BY <3>3
    <3>5. CASE p = b
      <4>1. g[p] = head[p] \o IF nxt[p] <= top THEN f[nxt[p]] ELSE <<>>
        BY <3>5
      <4> HIDE DEF g
      <4> QED BY <3>1, <3>4, <4>1
    <3>6. CASE p # b
      <4>1. p \in b + 1 .. n
        BY <2>2, <3>6
      <4>2. f[p] = head[p] \o IF nxt[p] <= top THEN f[nxt[p]] ELSE <<>>
        BY <2>3, <4>1 DEF Forward
      <4>3. g[p] = f[p]
        BY <3>6
      <4> HIDE DEF g
      <4> QED BY <3>1, <3>4, <4>2, <4>3
    <3> QED BY <3>5, <3>6
  <2>5. g = [p \in b .. n |-> g[p]]
    OBVIOUS
  <2> HIDE DEF g
  <2>6. g = [p \in b .. n |-> head[p] \o IF nxt[p] <= top THEN g[nxt[p]] ELSE <<>>]
    BY <2>4, <2>5
  <2>7. Forward(g, b, n, top, head, nxt)
    BY <2>6 DEF Forward
  <2> QED BY <2>2, <2>7
<1>3. n \in T
  <2> HIDE DEF T
  <2>1. T \subseteq Nat
    BY DEF T
  <2> QED BY <1>1, <1>2, <2>1, SetInduction
<1>4. n + 1 - n = 1
  OBVIOUS
<1> QED BY <1>3, <1>4

\* A buffer to which element after element is added.
Added(f, n, g) == f = [i \in 0 .. n |-> IF i = 0 THEN <<>> ELSE f[i - 1] \o g[i]]

\* There is such a function: it is put together from the beginning.
LEMMA AddedExists ==
  ASSUME NEW n \in Nat, NEW g
  PROVE  \E f : Added(f, n, g)
<1> DEFINE T == {k \in Nat : \E f : Added(f, k, g)}
<1>1. 0 \in T
  <2>1. PICK f : f = [i \in 0 .. 0 |-> <<>>]
    OBVIOUS
  <2>2. f = [i \in 0 .. 0 |-> IF i = 0 THEN <<>> ELSE f[i - 1] \o g[i]]
    BY <2>1
  <2> QED BY <2>2 DEF Added
<1>2. ASSUME NEW k \in T PROVE k + 1 \in T
  <2>1. PICK f : Added(f, k, g)
    OBVIOUS
  <2> DEFINE h == [i \in 0 .. k + 1 |-> IF i = k + 1 THEN f[k] \o g[k + 1] ELSE f[i]]
  <2>2. ASSUME NEW i \in 0 .. k + 1
        PROVE  h[i] = IF i = 0 THEN <<>> ELSE h[i - 1] \o g[i]
    <3>1. CASE i = k + 1
      <4>1. i # 0 /\ i - 1 = k /\ k \in 0 .. k + 1 /\ k # k + 1
        BY <3>1
      <4>2. h[k] = f[k]
        BY <4>1
      <4>3. h[i] = f[k] \o g[k + 1]
        BY <3>1
      <4> HIDE DEF h
      <4> QED BY <3>1, <4>1, <4>2, <4>3
    <3>2. CASE i # k + 1
      <4>1. i \in 0 .. k
        BY <3>2
      <4>2. f[i] = IF i = 0 THEN <<>> ELSE f[i - 1] \o g[i]
        BY <2>1, <4>1 DEF Added
      <4>3. h[i] = f[i]
        BY <3>2
      <4>4. i # 0 => h[i - 1] = f[i - 1]
        BY <4>1
      <4> HIDE DEF h
      <4> QED BY <4>2, <4>3, <4>4
    <3> QED BY <3>1, <3>2
  <2>3. h = [i \in 0 .. k + 1 |-> h[i]]
    OBVIOUS
  <2> HIDE DEF h
  <2>4. h = [i \in 0 .. k + 1 |-> IF i = 0 THEN <<>> ELSE h[i - 1] \o g[i]]
    BY <2>2, <2>3
  <2> QED BY <2>4 DEF Added
<1>3. n \in T
  <2> HIDE DEF T
  <2>1. T \subseteq Nat
    BY DEF T
  <2> QED BY <1>1, <1>2, <2>1, SetInduction
<1> QED BY <1>3
\* The beginning of two sequences that reaches into the second one.
LEMMA BeginningOfTwo ==
  ASSUME NEW S, NEW u \in Seq(S), NEW v \in Seq(S), NEW k \in 0 .. Len(v)
  PROVE  SubSeq(u \o v, 1, Len(u) + k) = u \o SubSeq(v, 1, k)
<1>1. PICK a, b : a = Len(u) /\ b = Len(v)
  OBVIOUS
<1>2. a \in Nat /\ b \in Nat /\ k \in Nat /\ k <= b
  BY <1>1
<1>3. PICK w, s : w = u \o v /\ s = SubSeq(v, 1, k)
  <2>1. PICK w : w = u \o v
    OBVIOUS
  <2>2. PICK s : s = SubSeq(v, 1, k)
    OBVIOUS
  <2> QED BY <2>1, <2>2
<1>4. /\ w \in Seq(S) /\ Len(w) = a + b
      /\ \A i \in 1 .. a + b : w[i] = IF i <= a THEN u[i] ELSE v[i - a]
  BY <1>1, <1>3, ConcatProperties
<1>5. s \in Seq(S) /\ Len(s) = k /\ \A i \in 1 .. k : s[i] = v[i]
  BY <1>3, FirstElements
<1>6. PICK x, y : x = SubSeq(w, 1, a + k) /\ y = u \o s
  <2>1. PICK x : x = SubSeq(w, 1, a + k)
    OBVIOUS
  <2>2. PICK y : y = u \o s
    OBVIOUS
  <2> QED BY <2>1, <2>2
<1>7. x \in Seq(S) /\ Len(x) = a + k /\ \A i \in 1 .. a + k : x[i] = w[i]
  <2>1. PICK m : m = a + k
    OBVIOUS
  <2>2. m \in 0 .. Len(w)
    BY <1>2, <1>4, <2>1
  <2> QED BY <1>4, <1>6, <2>1, <2>2, FirstElements
<1>8. /\ y \in Seq(S) /\ Len(y) = a + k
      /\ \A i \in 1 .. a + k : y[i] = IF i <= a THEN u[i] ELSE s[i - a]
  BY <1>1, <1>5, <1>6, ConcatProperties
<1>9. ASSUME NEW i \in 1 .. a + k PROVE x[i] = y[i]
  <2>1. i \in 1 .. a + b /\ (i > a => i - a \in 1 .. k)
    BY <1>2
  <2>2. x[i] = IF i <= a THEN u[i] ELSE v[i - a]
    BY <1>4, <1>7, <2>1
  <2>3. i > a => s[i - a] = v[i - a]
    BY <1>5, <2>1
  <2> QED BY <1>2, <1>8, <2>2, <2>3
<1>10. x = y
  BY ONLY <1>7, <1>8, <1>9, SeqEqual
<1> QED BY <1>1, <1>3, <1>6, <1>10

\* Three sequences are the same however they are put together.
Regrouped(a, b, c) == (a \o b) \o c = a \o (b \o c)

\* Concatenation is associative.
LEMMA Regroup ==
  ASSUME NEW S, NEW a \in Seq(S), NEW b \in Seq(S), NEW c \in Seq(S)
  PROVE  Regrouped(a, b, c)
BY ConcatAssociative DEF Regrouped

(***************************************************************************)
(* Join.                                                                   *)
(***************************************************************************)
Buffer(f, A, t) == f = [n \in 0 .. Len(A) |-> IF n = 0 THEN <<>> ELSE f[n - 1] \o (A[n] \o t)]

\* Join is what its buffer holds without the last delimiter.
LEMMA JoinIsBuffer ==
  ASSUME NEW S, NEW A \in Seq(S), A # <<>>, NEW t
  PROVE  \E f : Buffer(f, A, t) /\ Join(A, t) = SubSeq(f[Len(A)], 1, Len(f[Len(A)]) - Len(t))
<1>1. \E f : Buffer(f, A, t)
  <2>1. PICK g : g = [n \in 1 .. Len(A) |-> A[n] \o t]
    OBVIOUS
  <2>2. Len(A) \in Nat
    OBVIOUS
  <2>3. PICK f : Added(f, Len(A), g)
    BY <2>2, AddedExists
  <2>4. f = [i \in 0 .. Len(A) |-> IF i = 0 THEN <<>> ELSE f[i - 1] \o g[i]]
    BY <2>3 DEF Added
  <2>5. \A i \in 0 .. Len(A) : i # 0 => g[i] = A[i] \o t
    BY <2>1, <2>2
  <2>6. f = [i \in 0 .. Len(A) |-> IF i = 0 THEN <<>> ELSE f[i - 1] \o (A[i] \o t)]
    BY <2>4, <2>5
  <2> QED BY <2>6 DEF Buffer
<1>2. PICK f : f = (CHOOSE b : Buffer(b, A, t))
  OBVIOUS
<1>3. Buffer(f, A, t)
  BY <1>1, <1>2
<1>4. f = (CHOOSE b : b = [n \in 0 .. Len(A) |-> IF n = 0 THEN <<>> ELSE b[n - 1] \o (A[n] \o t)])
  BY <1>2 DEF Buffer
<1>5. Join(A, t) = SubSeq(f[Len(A)], 1, Len(f[Len(A)]) - Len(t))
  BY <1>4 DEF Join
<1> QED BY <1>3, <1>5

\* The buffer of Join is a text.
LEMMA BufferSeq ==
  ASSUME NEW S, NEW A \in Seq(Seq(S)), NEW t \in Seq(S), NEW f, Buffer(f, A, t)
  PROVE  \A n \in 0 .. Len(A) : f[n] \in Seq(S)
<1> DEFINE T == {k \in Nat : k <= Len(A) => f[k] \in Seq(S)}
<1>1. 0 \in T
  <2>1. 0 \in 0 .. Len(A)
    OBVIOUS
  <2>2. f[0] = <<>>
    BY <2>1 DEF Buffer
  <2>3. f[0] \in Seq(S)
    BY <2>2, EmptySeq
  <2> QED BY <2>3
<1>2. ASSUME NEW k \in T PROVE k + 1 \in T
  <2> SUFFICES ASSUME k + 1 <= Len(A) PROVE f[k + 1] \in Seq(S)
    OBVIOUS
  <2>1. PICK m : m = k + 1
    OBVIOUS
  <2>2. m \in 1 .. Len(A) /\ m \in 0 .. Len(A) /\ m # 0 /\ m - 1 = k /\ k <= Len(A)
    BY <2>1
  <2>3. f[m] = f[k] \o (A[m] \o t)
    BY <2>2 DEF Buffer
  <2>4. A[m] \in Seq(S) /\ f[k] \in Seq(S)
    BY <2>2
  <2>5. f[k] \o (A[m] \o t) \in Seq(S)
    BY <2>4
  <2> QED BY <2>1, <2>3, <2>5
<1>3. \A n \in Nat : n \in T
  <2> HIDE DEF T
  <2>1. T \subseteq Nat
    BY DEF T
  <2> QED BY <1>1, <1>2, <2>1, SetInduction
<1> QED BY <1>3

\* Buffer f has one part more in front than buffer g.
InFront(f, g, n, x, t) == f[n + 1] = (x \o t) \o g[n]

\* One more part in front puts it and a delimiter in front of the buffer.
LEMMA BufferCons ==
  ASSUME NEW S, NEW x \in Seq(S), NEW B \in Seq(Seq(S)), NEW t \in Seq(S),
         NEW A, A = <<x>> \o B, NEW f, Buffer(f, A, t), NEW g, Buffer(g, B, t),
         NEW n \in 0 .. Len(B)
  PROVE  InFront(f, g, n, x, t)
<1>1. PICK N : N = Len(B)
  OBVIOUS
<1>2. N \in Nat /\ Len(A) = N + 1 /\ A \in Seq(Seq(S))
      /\ A[1] = x /\ \A i \in 1 .. N : A[i + 1] = B[i]
  <2>1. <<x>> \in Seq(Seq(S)) /\ Len(<<x>>) = 1 /\ <<x>>[1] = x
    OBVIOUS
  <2>2. /\ A \in Seq(Seq(S)) /\ Len(A) = 1 + N
        /\ \A i \in 1 .. 1 + N : A[i] = IF i <= 1 THEN <<x>>[i] ELSE B[i - 1]
    BY <1>1, <2>1, ConcatProperties
  <2>3. N \in Nat
    BY <1>1
  <2>4. ASSUME NEW i \in 1 .. N PROVE A[i + 1] = B[i]
    <3>1. i + 1 \in 1 .. 1 + N /\ ~(i + 1 <= 1) /\ (i + 1) - 1 = i
      BY <2>3
    <3> QED BY <2>2, <3>1
  <2> QED BY <2>1, <2>2, <2>3, <2>4
<1>3. \A i \in 0 .. N + 1 : f[i] = IF i = 0 THEN <<>> ELSE f[i - 1] \o (A[i] \o t)
  BY <1>2 DEF Buffer
<1>4. \A i \in 0 .. N : g[i] = IF i = 0 THEN <<>> ELSE g[i - 1] \o (B[i] \o t)
  BY <1>1 DEF Buffer
<1>5. \A i \in 0 .. N : g[i] \in Seq(S)
  BY <1>1, BufferSeq
<1>9. PICK y : y = x \o t
  OBVIOUS
<1>10. y \in Seq(S)
  BY <1>9
<1> DEFINE T == {k \in Nat : k <= N => f[k + 1] = y \o g[k]}
<1>6. 0 \in T
  <2>1. 0 \in 0 .. N /\ 0 \in 0 .. N + 1 /\ 1 \in 0 .. N + 1 /\ 1 # 0 /\ 1 - 1 = 0 /\ 0 + 1 = 1
    BY <1>2
  <2>2. f[0] = <<>>
    BY <1>3, <2>1
  <2>3. f[1] = f[0] \o (A[1] \o t)
    BY <1>3, <2>1
  <2>4. g[0] = <<>>
    BY <1>4, <2>1
  <2>5. <<>> \o y = y /\ y \o <<>> = y
    BY <1>10, ConcatEmptySeq
  <2>6. f[1] = y /\ y \o g[0] = y
    BY ONLY <1>2, <1>9, <2>2, <2>3, <2>4, <2>5
  <2>7. f[0 + 1] = y \o g[0]
    BY ONLY <2>1, <2>6
  <2> QED BY <2>7
<1>7. ASSUME NEW k \in T PROVE k + 1 \in T
  <2> SUFFICES ASSUME k + 1 <= N PROVE f[(k + 1) + 1] = y \o g[k + 1]
    OBVIOUS
  <2>1. PICK m, l : m = k + 1 /\ l = (k + 1) + 1
    OBVIOUS
  <2>2. m \in 1 .. N /\ m \in 0 .. N /\ l \in 0 .. N + 1 /\ l = m + 1 /\ l # 0 /\ m # 0
        /\ l - 1 = m /\ m - 1 = k /\ k \in 0 .. N
    BY <1>2, <2>1
  <2>3. f[l] = f[m] \o (A[l] \o t)
    BY <1>3, <2>2
  <2>4. A[l] = B[m]
    BY <1>2, <2>2
  <2>5. g[m] = g[k] \o (B[m] \o t)
    BY <1>4, <2>2
  <2>6. f[m] = y \o g[k]
    <3>1. f[k + 1] = y \o g[k]
      BY <2>2
    <3> QED BY ONLY <2>1, <3>1
  <2>7. PICK z, w : z = B[m] \o t /\ w = g[k]
    OBVIOUS
  <2>8. z \in Seq(S) /\ w \in Seq(S)
    <3>1. B[m] \in Seq(S)
      BY <1>1, <2>2
    <3> QED BY <1>5, <2>2, <2>7, <3>1
  <2>9. (y \o w) \o z = y \o (w \o z)
    <3>1. Regrouped(y, w, z)
      BY ONLY <1>10, <2>8, Regroup
    <3> QED BY <3>1 DEF Regrouped
  <2>10. f[l] = y \o g[m]
    BY ONLY <2>3, <2>4, <2>5, <2>6, <2>7, <2>9
  <2> QED BY ONLY <2>1, <2>10
<1>8. \A i \in Nat : i \in T
  <2> HIDE DEF T
  <2>1. T \subseteq Nat
    BY DEF T
  <2> QED BY <1>6, <1>7, <2>1, SetInduction
<1>11. f[n + 1] = y \o g[n]
  <2>1. n \in Nat /\ n <= N
    BY <1>1, <1>2
  <2>2. n \in T
    BY <1>8, <2>1
  <2> QED BY <2>1, <2>2
<1> HIDE DEF T
<1> QED BY ONLY <1>9, <1>11 DEF InFront

\* Join of one part, and of one part in front of others.
LEMMA JoinOne ==
  ASSUME NEW S, NEW x \in Seq(S), NEW t \in Seq(S)
  PROVE  Join(<<x>>, t) = x
<1>1. PICK A : A = <<x>>
  OBVIOUS
<1>2. A \in Seq(Seq(S)) /\ A # <<>> /\ Len(A) = 1 /\ A[1] = x
  BY <1>1
<1>3. PICK f : Buffer(f, A, t) /\ Join(A, t) = SubSeq(f[Len(A)], 1, Len(f[Len(A)]) - Len(t))
  BY <1>2, JoinIsBuffer
<1>4. f[0] = <<>> /\ f[1] = f[0] \o (A[1] \o t)
  <2>1. f = [n \in 0 .. 1 |-> IF n = 0 THEN <<>> ELSE f[n - 1] \o (A[n] \o t)]
    BY <1>2, <1>3 DEF Buffer
  <2>2. 0 \in 0 .. 1 /\ 1 \in 0 .. 1 /\ 1 # 0 /\ 1 - 1 = 0
    OBVIOUS
  <2>3. f[0] = <<>>
    BY ONLY <2>1, <2>2
  <2>4. f[1] = f[1 - 1] \o (A[1] \o t)
    BY ONLY <2>1, <2>2
  <2> QED BY ONLY <2>2, <2>3, <2>4
<1>5. PICK y : y = x \o t
  OBVIOUS
<1>6. y \in Seq(S) /\ Len(y) = Len(x) + Len(t) /\ Len(x) \in Nat /\ Len(t) \in Nat
  BY <1>5
<1>7. <<>> \o y = y
  BY <1>6, ConcatEmptySeq
<1>8. f[1] = y
  BY <1>2, <1>4, <1>5, <1>7
<1>9. Len(y) - Len(t) = Len(x) + 0
  BY <1>6
<1>10. SubSeq(y, 1, Len(x) + 0) = x \o SubSeq(t, 1, 0)
  <2>1. 0 \in 0 .. Len(t)
    BY <1>6
  <2> QED BY <1>5, <2>1, BeginningOfTwo
<1>11. SubSeq(t, 1, 0) = <<>> /\ x \o <<>> = x
  BY ConcatEmptySeq
<1> QED BY <1>1, <1>2, <1>3, <1>8, <1>9, <1>10, <1>11

JoinedMore(x, B, t) == Join(<<x>> \o B, t) = x \o (t \o Join(B, t))

\* Joining one part more puts it and the separator in front.
LEMMA JoinMore ==
  ASSUME NEW S, NEW x \in Seq(S), NEW B \in Seq(Seq(S)), B # <<>>, NEW t \in Seq(S)
  PROVE  JoinedMore(x, B, t) /\ Join(B, t) \in Seq(S)
<1>1. PICK A, N : A = <<x>> \o B /\ N = Len(B)
  OBVIOUS
<1>2. N \in Nat \ {0} /\ A \in Seq(Seq(S)) /\ Len(A) = N + 1 /\ A # <<>>
  <2>1. <<x>> \in Seq(Seq(S)) /\ Len(<<x>>) = 1
    OBVIOUS
  <2>2. A \in Seq(Seq(S)) /\ Len(A) = 1 + N
    BY <1>1, <2>1, ConcatProperties
  <2>3. N \in Nat \ {0}
    BY <1>1
  <2> QED BY <2>2, <2>3
<1>3. PICK f : Buffer(f, A, t) /\ Join(A, t) = SubSeq(f[Len(A)], 1, Len(f[Len(A)]) - Len(t))
  BY <1>2, JoinIsBuffer
<1>4. PICK g : Buffer(g, B, t) /\ Join(B, t) = SubSeq(g[N], 1, Len(g[N]) - Len(t))
  BY <1>1, JoinIsBuffer
<1>5. f[N + 1] = (x \o t) \o g[N]
  <2>1. N \in 0 .. Len(B)
    BY <1>1, <1>2
  <2>2. InFront(f, g, N, x, t)
    BY <1>1, <1>3, <1>4, <2>1, BufferCons
  <2> QED BY <2>2 DEF InFront
<1>6. g[N] \in Seq(S) /\ Len(g[N]) >= Len(t)
  <2>1. \A n \in 0 .. N : g[n] \in Seq(S)
    BY <1>1, <1>4, BufferSeq
  <2>2. N \in 0 .. N /\ N - 1 \in 0 .. N /\ N # 0
    BY <1>2
  <2>3. g[N] = g[N - 1] \o (B[N] \o t)
    BY <1>1, <1>4, <2>2 DEF Buffer
  <2>4. PICK a, b : a = g[N - 1] /\ b = B[N]
    OBVIOUS
  <2>5. a \in Seq(S) /\ b \in Seq(S)
    <3>1. b \in Seq(S)
      BY <1>1, <1>2, <2>4
    <3> QED BY <2>1, <2>2, <2>4, <3>1
  <2>6. Len(a \o (b \o t)) = Len(a) + (Len(b) + Len(t)) /\ Len(a) \in Nat /\ Len(b) \in Nat /\ Len(t) \in Nat
    BY <2>5
  <2>7. g[N] = a \o (b \o t)
    BY ONLY <2>3, <2>4
  <2>8. Len(g[N]) >= Len(t)
    BY ONLY <2>6, <2>7
  <2> QED BY <2>1, <2>2, <2>8
<1>7. PICK u, v, k : u = x \o t /\ v = g[N] /\ k = Len(g[N]) - Len(t)
  <2>1. PICK u, v : u = x \o t /\ v = g[N]
    OBVIOUS
  <2> QED BY <2>1
<1>8. u \in Seq(S) /\ v \in Seq(S) /\ k \in 0 .. Len(v) /\ Len(t) \in Nat /\ Len(v) \in Nat
  BY <1>6, <1>7
<1>9. PICK w : w = SubSeq(v, 1, k)
  OBVIOUS
<1>10. w \in Seq(S) /\ Join(B, t) = w
  BY <1>4, <1>7, <1>8, <1>9, FirstElements
<1>11. Len(u \o v) - Len(t) = Len(u) + k
  <2>1. Len(u \o v) = Len(u) + Len(v) /\ Len(u) \in Nat
    BY <1>8
  <2> QED BY <1>7, <1>8, <2>1
<1>12. SubSeq(u \o v, 1, Len(u) + k) = u \o w
  BY <1>8, <1>9, BeginningOfTwo
<1>13. Join(A, t) = u \o w
  BY <1>2, <1>3, <1>5, <1>7, <1>11, <1>12
<1>14. (x \o t) \o w = x \o (t \o w)
  BY <1>10, ConcatAssociative
<1> QED BY <1>1, <1>7, <1>10, <1>13, <1>14 DEF JoinedMore

(***************************************************************************)
(* Split, and the replacement it is compared with.                         *)
(***************************************************************************)
Position(s, d, prev) == IF Matches(s, d, prev) = {} THEN Len(s) + 1 ELSE Sets!Min(Matches(s, d, prev))

SplitFrom(f, s, d) ==
  f = [prev \in 1 .. Len(s) + 1 |->
         <<SubSeq(s, prev, Position(s, d, prev) - 1)>>
         \o IF Position(s, d, prev) + Len(d) <= Len(s) THEN f[Position(s, d, prev) + Len(d)] ELSE <<>>]

ReplacedFrom(f, s, d, to) ==
  f = [i \in 1 .. Len(s) + 1 |->
         IF i > Len(s) THEN <<>>
         ELSE IF i \in Matches(s, d, i) THEN to \o f[i + Len(d)]
         ELSE <<s[i]>> \o f[i + 1]]

\* A delimiter begins at i.
Here(s, d, i) == i + Len(d) <= Len(s) + 1 /\ SubSeq(s, i, i + Len(d) - 1) = d

\* What is found is where the next delimiter begins; there is none before it.
LEMMA Found ==
  ASSUME NEW S, NEW s \in Seq(S), NEW d \in Seq(S), d # <<>>, NEW p \in 1 .. Len(s) + 1,
         NEW q, q = Position(s, d, p)
  PROVE  /\ q \in p .. Len(s) + 1
         /\ q # Len(s) + 1 => Here(s, d, q)
         /\ \A i \in p .. q - 1 : ~Here(s, d, i)
<1>1. PICK n, m : n = Len(s) /\ m = Len(d)
  OBVIOUS
<1>2. n \in Nat /\ m \in Nat \ {0} /\ p \in Nat /\ p >= 1 /\ p <= n + 1
  BY <1>1
<1>3. PICK M : M = Matches(s, d, p)
  OBVIOUS
<1>4. M = {i \in p .. n - m + 1 : SubSeq(s, i, i + m - 1) = d}
  BY <1>1, <1>3 DEF Matches
<1>5. ASSUME NEW i \in Nat, i >= p PROVE i \in M <=> Here(s, d, i)
  <2>1. i \in p .. n - m + 1 <=> i + m <= n + 1
    BY <1>2, <1>5
  <2> QED BY <1>1, <1>4, <2>1 DEF Here
<1>6. CASE M = {}
  <2>1. q = n + 1
    BY <1>1, <1>3, <1>6 DEF Position
  <2>2. ASSUME NEW i \in p .. q - 1 PROVE ~Here(s, d, i)
    <3>1. i \in Nat /\ i >= p
      BY <1>2, <2>1
    <3> QED BY <1>5, <1>6, <3>1
  <2> QED BY <1>1, <1>2, <2>1, <2>2
<1>7. CASE M # {}
  <2>1. M \subseteq Nat
    BY <1>2, <1>4
  <2>2. \E x \in M : \A y \in M : x <= y
    BY <1>7, <2>1, LeastNumber
  <2>3. q = Sets!Min(M)
    BY <1>3, <1>7 DEF Position
  <2>4. q \in M /\ \A y \in M : q <= y
    BY <2>2, <2>3 DEF Sets!Min
  <2>5. q \in Nat /\ q >= p /\ q <= n
    BY <1>2, <1>4, <2>4
  <2>6. Here(s, d, q)
    BY <1>5, <2>4, <2>5
  <2>7. ASSUME NEW i \in p .. q - 1 PROVE ~Here(s, d, i)
    <3>1. i \in Nat /\ i >= p /\ ~(q <= i)
      BY <1>2, <2>5
    <3>2. i \notin M
      BY <2>4, <3>1
    <3> QED BY <1>5, <3>1, <3>2
  <2>8. q \in p .. n + 1
    BY <1>2, <2>5
  <2> QED BY <1>1, <2>6, <2>7, <2>8
<1> QED BY <1>6, <1>7

\* Split is the recursive function of its definition.
LEMMA SplitUnfolds ==
  ASSUME NEW S, NEW s \in Seq(S), NEW d \in Seq(S), d # <<>>
  PROVE  \E f : SplitFrom(f, s, d) /\ Split(s, d) = f[1]
<1>1. PICK n, m : n = Len(s) /\ m = Len(d)
  OBVIOUS
<1>2. n \in Nat /\ m \in Nat \ {0}
  BY <1>1
<1>3. \E f : SplitFrom(f, s, d)
  <2> DEFINE head == [prev \in 1 .. n + 1 |-> <<SubSeq(s, prev, Position(s, d, prev) - 1)>>]
             nxt == [prev \in 1 .. n + 1 |-> Position(s, d, prev) + m]
  <2>1. ASSUME NEW p \in 1 .. n + 1 PROVE nxt[p] \in Nat /\ nxt[p] > p
    <3>1. PICK q : q = Position(s, d, p)
      OBVIOUS
    <3>2. q \in p .. n + 1
      BY <1>1, <3>1, Found
    <3>3. nxt[p] = q + m
      BY <3>1
    <3> HIDE DEF nxt
    <3> QED BY <1>2, <3>2, <3>3
  <2>2. \A p \in 1 .. n + 1 : /\ head[p] = <<SubSeq(s, p, Position(s, d, p) - 1)>>
                              /\ nxt[p] = Position(s, d, p) + m
    OBVIOUS
  <2> HIDE DEF head, nxt
  <2>3. PICK k : k = n + 1
    OBVIOUS
  <2>4. k \in Nat /\ n <= k /\ \A p \in 1 .. k : nxt[p] \in Nat /\ nxt[p] > p
    BY <1>2, <2>1, <2>3
  <2>5. PICK f : Forward(f, 1, k, n, head, nxt)
    BY <1>2, <2>4, ForwardExists
  <2>6. f = [p \in 1 .. n + 1 |-> head[p] \o IF nxt[p] <= n THEN f[nxt[p]] ELSE <<>>]
    BY <2>3, <2>5 DEF Forward
  <2>7. f = [p \in 1 .. n + 1 |->
               <<SubSeq(s, p, Position(s, d, p) - 1)>>
               \o IF Position(s, d, p) + m <= n THEN f[Position(s, d, p) + m] ELSE <<>>]
    BY <2>2, <2>6
  <2> QED BY <1>1, <2>7 DEF SplitFrom
<1>4. PICK f : f = (CHOOSE g : SplitFrom(g, s, d))
  OBVIOUS
<1>5. SplitFrom(f, s, d)
  BY <1>3, <1>4
<1>6. Split(s, d) = f[1]
  BY <1>4, Zenon DEF Split, SplitFrom, Position
<1> QED BY <1>5, <1>6

\* Replaced is the recursive function of its definition.
LEMMA ReplacedUnfolds ==
  ASSUME NEW S, NEW s \in Seq(S), NEW d \in Seq(S), d # <<>>, NEW to
  PROVE  \E f : ReplacedFrom(f, s, d, to) /\ Replaced(s, d, to) = f[1]
<1>1. PICK n, m : n = Len(s) /\ m = Len(d)
  OBVIOUS
<1>2. n \in Nat /\ m \in Nat \ {0}
  BY <1>1
<1>3. \E f : ReplacedFrom(f, s, d, to)
  <2> DEFINE head == [i \in 1 .. n + 1 |->
                        IF i > n THEN <<>> ELSE IF i \in Matches(s, d, i) THEN to ELSE <<s[i]>>]
             nxt == [i \in 1 .. n + 1 |-> IF i \in Matches(s, d, i) THEN i + m ELSE i + 1]
  <2>1. ASSUME NEW i \in 1 .. n + 1
        PROVE  /\ i > n => head[i] = <<>> /\ nxt[i] = i + 1
               /\ i <= n /\ i \in Matches(s, d, i) => head[i] = to /\ nxt[i] = i + m /\ i + m <= n + 1
               /\ i <= n /\ i \notin Matches(s, d, i) => head[i] = <<s[i]>> /\ nxt[i] = i + 1
    <3>1. i \in Matches(s, d, i) => i + m <= n + 1 /\ i <= n
      BY <1>1, <1>2 DEF Matches
    <3>2. i > n => i \notin Matches(s, d, i) /\ ~(i <= n)
      BY <1>2, <3>1
    <3> QED BY <1>2, <3>1, <3>2
  <2> HIDE DEF head, nxt
  <2>2. ASSUME NEW p \in 1 .. n + 1 PROVE nxt[p] \in Nat /\ nxt[p] > p
    <3>1. p > n \/ p <= n
      BY <1>2
    <3>2. nxt[p] = p + 1 \/ nxt[p] = p + m
      BY <2>1, <3>1
    <3> QED BY <1>2, <3>2
  <2>3. PICK k : k = n + 1
    OBVIOUS
  <2>4. k \in Nat /\ k <= k /\ \A p \in 1 .. k : nxt[p] \in Nat /\ nxt[p] > p
    BY <1>2, <2>2, <2>3
  <2>5. PICK f : Forward(f, 1, k, k, head, nxt)
    BY <2>4, ForwardExists
  <2>6. f = [i \in 1 .. n + 1 |-> head[i] \o IF nxt[i] <= n + 1 THEN f[nxt[i]] ELSE <<>>]
    BY <2>3, <2>5 DEF Forward
  <2>7. ASSUME NEW i \in 1 .. n + 1
        PROVE  head[i] \o (IF nxt[i] <= n + 1 THEN f[nxt[i]] ELSE <<>>)
               = IF i > n THEN <<>>
                 ELSE IF i \in Matches(s, d, i) THEN to \o f[i + m]
                 ELSE <<s[i]>> \o f[i + 1]
    <3>1. CASE i > n
      <4>1. head[i] = <<>> /\ ~(nxt[i] <= n + 1)
        BY <1>2, <2>1, <3>1
      <4>2. <<>> \o <<>> = <<>>
        OBVIOUS
      <4> QED BY <3>1, <4>1, <4>2
    <3>2. CASE i <= n /\ i \in Matches(s, d, i)
      <4>1. head[i] = to /\ nxt[i] = i + m /\ i + m <= n + 1 /\ ~(i > n)
        BY <1>2, <2>1, <3>2
      <4> QED BY <3>2, <4>1
    <3>3. CASE i <= n /\ i \notin Matches(s, d, i)
      <4>1. head[i] = <<s[i]>> /\ nxt[i] = i + 1 /\ i + 1 <= n + 1 /\ ~(i > n)
        BY <1>2, <2>1, <3>3
      <4> QED BY <3>3, <4>1
    <3>4. i > n \/ i <= n
      BY <1>2
    <3> QED BY <3>1, <3>2, <3>3, <3>4
  <2>8. f = [i \in 1 .. n + 1 |-> IF i > n THEN <<>>
                                  ELSE IF i \in Matches(s, d, i) THEN to \o f[i + m]
                                  ELSE <<s[i]>> \o f[i + 1]]
    BY <2>6, <2>7
  <2> QED BY <1>1, <2>8 DEF ReplacedFrom
<1>4. PICK f : f = (CHOOSE g : ReplacedFrom(g, s, d, to))
  OBVIOUS
<1>5. ReplacedFrom(f, s, d, to)
  BY <1>3, <1>4
<1>6. Replaced(s, d, to) = f[1]
  BY <1>4, Zenon DEF Replaced, ReplacedFrom
<1> QED BY <1>5, <1>6
\* What holds at a place when it holds at all later ones holds everywhere.
LEMMA BackwardInduction ==
  ASSUME NEW n \in Nat, NEW T,
         \A p \in 1 .. n : (\A q \in p + 1 .. n : q \in T) => p \in T
  PROVE  \A p \in 1 .. n : p \in T
<1> DEFINE U == {k \in Nat : \A p \in 1 .. n : p >= n - k => p \in T}
<1>1. 0 \in U
  <2>1. ASSUME NEW p \in 1 .. n, p >= n - 0 PROVE p \in T
    <3>1. \A q \in p + 1 .. n : q \in T
      BY <2>1
    <3> QED BY <3>1
  <2> QED BY <2>1
<1>2. ASSUME NEW k \in U PROVE k + 1 \in U
  <2>1. ASSUME NEW p \in 1 .. n, p >= n - (k + 1) PROVE p \in T
    <3>1. CASE p >= n - k
      BY <3>1
    <3>2. CASE ~(p >= n - k)
      <4>1. ASSUME NEW q \in p + 1 .. n PROVE q \in T
        <5>1. q \in 1 .. n /\ q >= n - k
          BY <2>1
        <5> QED BY <5>1
      <4> QED BY <4>1
    <3> QED BY <3>1, <3>2
  <2> QED BY <2>1
<1>3. n \in U
  <2> HIDE DEF U
  <2>1. U \subseteq Nat
    BY DEF U
  <2> QED BY <1>1, <1>2, <2>1, SetInduction
<1>4. \A p \in 1 .. n : p >= n - n
  OBVIOUS
<1> QED BY <1>3, <1>4

\* One step of the replacement.
OneStep(f, s, d, to, i) ==
  /\ Here(s, d, i) => i + Len(d) <= Len(s) + 1 /\ f[i] = to \o f[i + Len(d)]
  /\ ~Here(s, d, i) => f[i] = <<s[i]>> \o f[i + 1]

\* One step of the replacement: a delimiter is replaced, any other character copied.
LEMMA ReplacedStep ==
  ASSUME NEW S, NEW s \in Seq(S), NEW d \in Seq(S), d # <<>>, NEW to,
         NEW f, ReplacedFrom(f, s, d, to), NEW i \in 1 .. Len(s)
  PROVE  OneStep(f, s, d, to, i)
<1>1. PICK n, m : n = Len(s) /\ m = Len(d)
  OBVIOUS
<1>2. n \in Nat /\ m \in Nat \ {0} /\ i \in Nat /\ i <= n /\ i \in 1 .. n + 1 /\ ~(i > n)
  BY <1>1
<1>3. f[i] = IF i \in Matches(s, d, i) THEN to \o f[i + m] ELSE <<s[i]>> \o f[i + 1]
  BY <1>1, <1>2 DEF ReplacedFrom
<1>4. i \in Matches(s, d, i) <=> Here(s, d, i)
  <2>1. i \in i .. n - m + 1 <=> i + m <= n + 1
    BY <1>2
  <2> QED BY <1>1, <2>1 DEF Matches, Here
<1>5. Here(s, d, i) => i + m <= n + 1
  BY <1>1 DEF Here
<1> QED BY <1>1, <1>3, <1>4, <1>5 DEF OneStep

\* What is replaced is a text.
LEMMA ReplacedSeq ==
  ASSUME NEW S, NEW s \in Seq(S), NEW d \in Seq(S), d # <<>>, NEW to \in Seq(S),
         NEW f, ReplacedFrom(f, s, d, to)
  PROVE  f[Len(s) + 1] = <<>> /\ \A p \in 1 .. Len(s) + 1 : f[p] \in Seq(S)
<1>1. PICK n, m : n = Len(s) /\ m = Len(d)
  OBVIOUS
<1>2. n \in Nat /\ m \in Nat \ {0} /\ n + 1 \in Nat
  BY <1>1
<1>3. f[n + 1] = <<>>
  <2>1. PICK k : k = n + 1
    OBVIOUS
  <2>2. k \in 1 .. n + 1 /\ k > n
    BY <1>2, <2>1
  <2>3. f[k] = <<>>
    BY <1>1, <2>2 DEF ReplacedFrom
  <2> QED BY <2>1, <2>3
<1> DEFINE T == {p \in Nat : f[p] \in Seq(S)}
<1>4. ASSUME NEW p \in 1 .. n + 1, \A q \in p + 1 .. n + 1 : q \in T PROVE p \in T
  <2>1. CASE p = n + 1
    BY <1>2, <1>3, <2>1, EmptySeq
  <2>2. CASE p # n + 1
    <3>1. p \in 1 .. Len(s) /\ p \in Nat
      BY <1>1, <1>2, <2>2
    <3>4. OneStep(f, s, d, to, p)
      BY <3>1, ReplacedStep
    <3>2. CASE Here(s, d, p)
      <4>1. PICK q : q = p + m
        OBVIOUS
      <4>2. p + m <= n + 1 /\ f[p] = to \o f[q]
        BY <1>1, <3>2, <3>4, <4>1 DEF OneStep
      <4>3. q \in p + 1 .. n + 1
        BY <1>2, <3>1, <4>1, <4>2
      <4>4. f[q] \in Seq(S)
        BY <1>4, <4>3
      <4>5. to \o f[q] \in Seq(S)
        BY <4>4, ConcatProperties
      <4> QED BY <3>1, <4>2, <4>5
    <3>3. CASE ~Here(s, d, p)
      <4>1. PICK q : q = p + 1
        OBVIOUS
      <4>2. f[p] = <<s[p]>> \o f[q]
        BY <3>3, <3>4, <4>1 DEF OneStep
      <4>3. q \in p + 1 .. n + 1
        BY <1>1, <1>2, <3>1, <4>1
      <4>4. f[q] \in Seq(S) /\ s[p] \in S
        BY <1>4, <3>1, <4>3
      <4>5. <<s[p]>> \in Seq(S)
        BY <4>4
      <4>6. <<s[p]>> \o f[q] \in Seq(S)
        BY <4>4, <4>5, ConcatProperties
      <4> QED BY <3>1, <4>2, <4>6
    <3> QED BY <3>2, <3>3
  <2> QED BY <2>1, <2>2
<1>5. \A p \in 1 .. n + 1 : p \in T
  <2> HIDE DEF T
  <2> QED BY <1>2, <1>4, BackwardInduction
<1> QED BY <1>1, <1>3, <1>5

\* Where no delimiter begins the text is copied.
Copied(f, s, d, p, q) == (\A i \in p .. q - 1 : ~Here(s, d, i)) => f[p] = SubSeq(s, p, q - 1) \o f[q]

\* Up to the next delimiter the replacement copies the text.
LEMMA ReplacedCopies ==
  ASSUME NEW S, NEW s \in Seq(S), NEW d \in Seq(S), d # <<>>, NEW to \in Seq(S),
         NEW f, ReplacedFrom(f, s, d, to), NEW q \in 1 .. Len(s) + 1, NEW p \in 1 .. q
  PROVE  Copied(f, s, d, p, q)
<1>1. PICK n : n = Len(s)
  OBVIOUS
<1>2. n \in Nat /\ q \in Nat /\ q <= n + 1
  BY <1>1
<1>3. \A i \in 1 .. n + 1 : f[i] \in Seq(S)
  BY <1>1, ReplacedSeq
<1> DEFINE T == {k \in Nat : Copied(f, s, d, k, q)}
<1>4. ASSUME NEW k \in 1 .. q, \A i \in k + 1 .. q : i \in T PROVE k \in T
  <2> SUFFICES ASSUME \A i \in k .. q - 1 : ~Here(s, d, i)
               PROVE  f[k] = SubSeq(s, k, q - 1) \o f[q]
    <3>1. k \in Nat
      BY <1>2
    <3> QED BY <3>1 DEF Copied
  <2>1. CASE k = q
    <3>1. SubSeq(s, k, q - 1) = <<>>
      BY <1>2, <2>1, SubSeqEmpty
    <3>2. f[q] \in Seq(S)
      BY <1>1, <1>3
    <3>3. <<>> \o f[q] = f[q]
      BY <3>2, ConcatEmptySeq
    <3> QED BY <2>1, <3>1, <3>3
  <2>2. CASE k # q
    <3>1. k \in 1 .. Len(s) /\ k \in k .. q - 1 /\ q - 1 \in k .. Len(s)
      BY <1>1, <1>2, <2>2
    <3>2. PICK j : j = k + 1
      OBVIOUS
    <3>3. j \in k + 1 .. q /\ \A i \in j .. q - 1 : i \in k .. q - 1
      BY <1>2, <2>2, <3>2
    <3>4. PICK a, b, c : a = <<s[k]>> /\ b = SubSeq(s, j, q - 1) /\ c = f[q]
      <4>1. PICK a, b : a = <<s[k]>> /\ b = SubSeq(s, j, q - 1)
        OBVIOUS
      <4> QED BY <4>1
    <3>5. f[k] = a \o f[j]
      <4>1. OneStep(f, s, d, to, k) /\ ~Here(s, d, k)
        BY <3>1, ReplacedStep
      <4> QED BY <3>2, <3>4, <4>1 DEF OneStep
    <3>6. f[j] = b \o c
      BY <1>4, <3>3, <3>4 DEF Copied
    <3>7. SubSeq(s, k, q - 1) = a \o b
      BY <3>1, <3>2, <3>4, SubSeqRecursiveFirst
    <3>8. a \in Seq(S) /\ b \in Seq(S) /\ c \in Seq(S)
      <4>1. s[k] \in S
        BY <3>1
      <4>2. a \in Seq(S)
        BY <3>4, <4>1
      <4>3. j \in Int /\ q - 1 \in Int /\ \A i \in j .. q - 1 : s[i] \in S
        BY <1>1, <1>2, <3>2
      <4>4. b \in Seq(S)
        BY <3>4, <4>3, SubSeqProperties
      <4>5. c \in Seq(S)
        BY <1>1, <1>3, <3>4
      <4> QED BY <4>2, <4>4, <4>5
    <3>9. (a \o b) \o c = a \o (b \o c)
      <4>1. Regrouped(a, b, c)
        BY ONLY <3>8, Regroup
      <4> QED BY <4>1 DEF Regrouped
    <3> QED BY ONLY <3>4, <3>5, <3>6, <3>7, <3>9
  <2> QED BY <2>1, <2>2
<1>5. \A k \in 1 .. q : k \in T
  <2> HIDE DEF T
  <2> QED BY <1>2, <1>4, BackwardInduction
<1>6. p \in T
  BY <1>5
<1> QED BY <1>6
(***************************************************************************)
(* ReplaceAll.                                                             *)
(***************************************************************************)
\* The parts joined with the new delimiter, against the replaced text.
Answers(s, d, to, a, r) == a = r \/ (Seqs!IsSuffix(d, s) /\ a \o to = r)

\* A delimiter that ends where the text does.
LEMMA EndsWithDelimiter ==
  ASSUME NEW S, NEW s \in Seq(S), NEW d \in Seq(S), d # <<>>, NEW q \in 1 .. Len(s), Here(s, d, q),
         q + Len(d) = Len(s) + 1
  PROVE  Seqs!IsSuffix(d, s)
<1>1. PICK n, m : n = Len(s) /\ m = Len(d)
  OBVIOUS
<1>2. n \in Nat /\ m \in Nat \ {0} /\ q \in Nat /\ q >= 1 /\ q + m = n + 1 /\ m <= n
  BY <1>1
<1>3. SubSeq(s, q, n) = d
  <2>1. q + m - 1 = n
    BY <1>2
  <2> QED BY <1>1, <2>1 DEF Here
<1>4. \A i \in 1 .. m : d[i] = s[q + i - 1]
  <2>1. \A i \in q .. n : s[i] \in S
    BY <1>1, <1>2
  <2>2. q \in Int /\ n \in Int
    BY <1>2
  <2>3. \A i \in 1 .. n - q + 1 : SubSeq(s, q, n)[i] = s[q + i - 1]
    BY <2>1, <2>2, SubSeqProperties
  <2>4. n - q + 1 = m
    BY <1>2
  <2> QED BY <1>3, <2>3, <2>4
<1>5. PICK a, b : a = [i \in 1 .. m |-> d[(m - i) + 1]] /\ b = [i \in 1 .. n |-> s[(n - i) + 1]]
  <2>1. PICK a : a = [i \in 1 .. m |-> d[(m - i) + 1]]
    OBVIOUS
  <2>2. PICK b : b = [i \in 1 .. n |-> s[(n - i) + 1]]
    OBVIOUS
  <2> QED BY <2>1, <2>2
<1>6. a = Seqs!Reverse(d) /\ b = Seqs!Reverse(s)
  BY <1>1, <1>5 DEF Seqs!Reverse
<1>7. a \in Seq(S) /\ Len(a) = m
  <2>1. \A i \in 1 .. m : (m - i) + 1 \in 1 .. m
    BY <1>2
  <2>2. a \in [1 .. m -> S]
    BY <1>1, <1>5, <2>1
  <2> QED BY <1>2, <2>2, FunctionSeq
<1>8. b \in Seq(S) /\ Len(b) = n
  <2>1. \A i \in 1 .. n : (n - i) + 1 \in 1 .. n
    BY <1>2
  <2>2. b \in [1 .. n -> S]
    BY <1>1, <1>5, <2>1
  <2> QED BY <1>2, <2>2, FunctionSeq
<1>9. PICK c : c = SubSeq(b, 1, m)
  OBVIOUS
<1>10. c \in Seq(S) /\ Len(c) = m /\ \A i \in 1 .. m : c[i] = b[i]
  <2>1. m \in 0 .. Len(b)
    BY <1>2, <1>8
  <2> QED BY <1>8, <1>9, <2>1, FirstElements
<1>11. ASSUME NEW i \in 1 .. m PROVE a[i] = c[i]
  <2>1. PICK j : j = (m - i) + 1
    OBVIOUS
  <2>2. j \in 1 .. m /\ q + j - 1 = (n - i) + 1 /\ i \in 1 .. n
    BY <1>2, <2>1
  <2>3. a[i] = d[j]
    BY <1>5, <2>1
  <2>4. d[j] = s[(n - i) + 1]
    BY <1>4, <2>2
  <2>5. c[i] = s[(n - i) + 1]
    BY <1>5, <1>10, <2>2
  <2> QED BY <2>3, <2>4, <2>5
<1>12. a = c
  BY ONLY <1>7, <1>10, <1>11, SeqEqual
<1>13. SubSeq(a, 1, Len(a)) = a
  BY <1>7, SubSeqFull
<1>14. Len(a) <= Len(b) /\ SubSeq(a, 1, Len(a)) = SubSeq(b, 1, Len(a))
  BY <1>2, <1>7, <1>8, <1>9, <1>12, <1>13
<1> QED BY <1>6, <1>14 DEF Seqs!IsSuffix, Seqs!IsPrefix

\* The parts from any place on, joined, are the replaced text from there on.
LEMMA PartsJoined ==
  ASSUME NEW S, NEW s \in Seq(S), NEW d \in Seq(S), d # <<>>, NEW to \in Seq(S),
         NEW f, SplitFrom(f, s, d), NEW g, ReplacedFrom(g, s, d, to)
  PROVE  Answers(s, d, to, Join(f[1], to), g[1])
<1>1. PICK n, m, k : n = Len(s) /\ m = Len(d) /\ k = Len(s) + 1
  <2>1. PICK n, m : n = Len(s) /\ m = Len(d)
    OBVIOUS
  <2> QED BY <2>1
<1>2. n \in Nat /\ m \in Nat \ {0} /\ k \in Nat /\ k = n + 1
  BY <1>1
<1>3. g[k] = <<>> /\ \A p \in 1 .. k : g[p] \in Seq(S)
  BY <1>1, ReplacedSeq
<1> DEFINE T == {p \in Nat : /\ f[p] \in Seq(Seq(S)) /\ f[p] # <<>>
                             /\ Answers(s, d, to, Join(f[p], to), g[p])}
<1>4. ASSUME NEW p \in 1 .. k, \A q \in p + 1 .. k : q \in T PROVE p \in T
  <2>1. PICK q : q = Position(s, d, p)
    OBVIOUS
  <2>2. /\ q \in p .. k /\ q \in 1 .. k /\ p \in 1 .. q /\ q \in Nat /\ p \in Nat
        /\ q # k => Here(s, d, q)
        /\ \A i \in p .. q - 1 : ~Here(s, d, i)
    <3>1. /\ q \in p .. k
          /\ q # k => Here(s, d, q)
          /\ \A i \in p .. q - 1 : ~Here(s, d, i)
      BY <1>1, <2>1, Found
    <3>2. q \in 1 .. k /\ p \in 1 .. q /\ q \in Nat /\ p \in Nat
      BY <1>2, <3>1
    <3> QED BY <3>1, <3>2
  <2>3. PICK x : x = SubSeq(s, p, q - 1)
    OBVIOUS
  <2>4. x \in Seq(S)
    <3>1. p \in Int /\ q - 1 \in Int /\ \A i \in p .. q - 1 : s[i] \in S
      BY <1>1, <1>2, <2>2
    <3> QED BY <2>3, <3>1, SubSeqProperties
  <2>5. f[p] = <<x>> \o IF q + m <= n THEN f[q + m] ELSE <<>>
    BY <1>1, <2>1, <2>3 DEF SplitFrom
  <2>6. g[p] = x \o g[q]
    <3>1. Copied(g, s, d, p, q)
      BY <1>1, <2>2, ReplacedCopies
    <3> QED BY <2>2, <2>3, <3>1 DEF Copied
  <2>7. <<x>> \in Seq(Seq(S)) /\ <<x>> # <<>> /\ <<x>> \o <<>> = <<x>> /\ Join(<<x>>, to) = x
    <3>1. <<x>> \in Seq(Seq(S)) /\ <<x>> # <<>>
      BY <2>4
    <3>2. <<x>> \o <<>> = <<x>>
      BY <3>1, ConcatEmptySeq
    <3>3. Join(<<x>>, to) = x
      BY <2>4, JoinOne
    <3> QED BY <3>1, <3>2, <3>3
  <2>8. CASE q = k
    <3>1. f[p] = <<x>>
      <4>1. ~(q + m <= n)
        BY <1>2, <2>8
      <4> QED BY <2>5, <2>7, <4>1
    <3>2. x \o <<>> = x
      BY <2>4, ConcatEmptySeq
    <3>3. g[p] = x
      BY <1>3, <2>6, <2>8, <3>2
    <3>4. Answers(s, d, to, Join(f[p], to), g[p])
      BY <2>7, <3>1, <3>3 DEF Answers
    <3> QED BY <2>2, <2>7, <3>1, <3>4
  <2>9. CASE q # k
    <3>1. PICK r : r = q + m
      OBVIOUS
    <3>2. q \in 1 .. Len(s) /\ q <= n /\ Here(s, d, q)
      BY <1>1, <1>2, <2>2, <2>9
    <3>3. OneStep(g, s, d, to, q)
      BY <3>2, ReplacedStep
    <3>4. g[q] = to \o g[r] /\ r <= k
      BY <1>1, <3>1, <3>2, <3>3 DEF OneStep
    <3>5. r \in p + 1 .. k /\ r \in 1 .. k
      BY <1>2, <2>2, <3>1, <3>4
    <3>6. g[r] \in Seq(S)
      BY <1>3, <3>5
    <3>7. CASE r = k
      <4>1. f[p] = <<x>>
        <5>1. ~(q + m <= n)
          BY <1>2, <3>1, <3>7
        <5> QED BY <2>5, <2>7, <5>1
      <4>2. to \o <<>> = to
        BY ConcatEmptySeq
      <4>3. g[p] = x \o to
        BY <1>3, <2>6, <3>4, <3>7, <4>2
      <4>4. q + Len(d) = Len(s) + 1
        BY <1>1, <3>1, <3>7
      <4>5. Seqs!IsSuffix(d, s)
        BY <3>2, <4>4, EndsWithDelimiter
      <4>6. Answers(s, d, to, Join(f[p], to), g[p])
        BY <2>7, <4>1, <4>3, <4>5 DEF Answers
      <4> QED BY <2>2, <2>7, <4>1, <4>6
    <3>8. CASE r # k
      <4>1. PICK B : B = f[r]
        OBVIOUS
      <4>2. B \in Seq(Seq(S)) /\ B # <<>> /\ Answers(s, d, to, Join(B, to), g[r])
        BY <1>4, <3>5, <4>1
      <4>3. f[p] = <<x>> \o B
        <5>1. q + m <= n
          BY <1>2, <3>1, <3>5, <3>8
        <5> QED BY <2>5, <3>1, <4>1, <5>1
      <4>4. <<x>> \o B \in Seq(Seq(S)) /\ <<x>> \o B # <<>>
        <5>1. <<x>> \o B \in Seq(Seq(S)) /\ Len(<<x>> \o B) = Len(<<x>>) + Len(B)
          BY <2>7, <4>2, ConcatProperties
        <5>2. Len(<<x>>) = 1 /\ Len(B) \in Nat
          BY <4>2
        <5> QED BY <5>1, <5>2
      <4>5. PICK a, b : a = Join(B, to) /\ b = g[r]
        OBVIOUS
      <4>6. a \in Seq(S) /\ b \in Seq(S) /\ JoinedMore(x, B, to)
        BY <2>4, <3>6, <4>2, <4>5, JoinMore
      <4>7. Join(f[p], to) = x \o (to \o a)
        BY <4>3, <4>5, <4>6 DEF JoinedMore
      <4>8. g[p] = x \o (to \o b)
        BY <2>6, <3>4, <4>5
      <4>9. CASE a = b
        <5>1. Answers(s, d, to, Join(f[p], to), g[p])
          BY <4>7, <4>8, <4>9 DEF Answers
        <5> QED BY <2>2, <4>3, <4>4, <5>1
      <4>10. CASE Seqs!IsSuffix(d, s) /\ a \o to = b
        <5>1. PICK y : y = to \o a
          OBVIOUS
        <5>2. y \in Seq(S)
          BY <4>6, <5>1, ConcatProperties
        <5>3. y \o to = to \o (a \o to)
          BY <4>6, <5>1, Regroup DEF Regrouped
        <5>4. (x \o y) \o to = x \o (y \o to)
          BY <2>4, <5>2, Regroup DEF Regrouped
        <5>5. Join(f[p], to) \o to = g[p]
          BY ONLY <4>7, <4>8, <4>10, <5>1, <5>3, <5>4
        <5>6. Answers(s, d, to, Join(f[p], to), g[p])
          BY <4>10, <5>5 DEF Answers
        <5> QED BY <2>2, <4>3, <4>4, <5>6
      <4> QED BY <4>2, <4>5, <4>9, <4>10 DEF Answers
    <3> QED BY <3>7, <3>8
  <2> QED BY <2>8, <2>9
<1>5. 1 \in T
  <2> HIDE DEF T
  <2>1. \A p \in 1 .. k : p \in T
    BY <1>2, <1>4, BackwardInduction
  <2>2. 1 \in 1 .. k
    BY <1>2
  <2> QED BY <2>1, <2>2
<1> QED BY <1>5

\* ReplaceAll replaces every delimiter, but for one at the end of the text.
LEMMA ReplaceAllReplaces ==
  ASSUME NEW S, NEW s \in Seq(S), NEW d \in Seq(S), NEW to \in Seq(S)
  PROVE  IF d = <<>> THEN ReplaceAll(s, d, to) = s
         ELSE Answers(s, d, to, ReplaceAll(s, d, to), Replaced(s, d, to))
<1>1. CASE d = <<>>
  BY <1>1 DEF ReplaceAll
<1>2. CASE d # <<>>
  <2>1. PICK f : SplitFrom(f, s, d) /\ Split(s, d) = f[1]
    BY <1>2, SplitUnfolds
  <2>2. PICK g : ReplacedFrom(g, s, d, to) /\ Replaced(s, d, to) = g[1]
    BY <1>2, ReplacedUnfolds
  <2>3. Answers(s, d, to, Join(f[1], to), g[1])
    BY <1>2, <2>1, <2>2, PartsJoined
  <2> QED BY <1>2, <2>1, <2>2, <2>3 DEF ReplaceAll
<1> QED BY <1>1, <1>2
(***************************************************************************)
(* The calls of strings.hpp: what holds before and after each of them.     *)
(***************************************************************************)
\* Nothing is damaged before it is encoded; an encoded text is on its way; the
\* result of a call keeps what is promised of it.
TextInv ==
  /\ form \in {"hex", "base64", "urlsafe", "replace"}
  /\ data \in Seq(TextBytes)
  /\ form = "replace" => text \in Seq(Letters) /\ outcome.call \in {"none", "replace"}
  /\ form # "replace" => outcome.call \in {"none", "encode", "decode"}
  /\ outcome.call = "none" => damage = "none" /\ (form # "replace" => text = <<>>)
  /\ outcome.call = "encode" => /\ outcome.ok <=> EncodeAs(form, data).ok
                                /\ Carried(form, EncodeAs(form, data).out, damage, text)
  /\ EncodedSurvives
  /\ PartsSurvive

\* The bytes data is made of are bytes.
LEMMA DataBytes ==
  ASSUME data \in Seq(TextBytes)
  PROVE  data \in Seq(TextByte)
BY TextAssumption, SeqMonotonic DEF TextByte

\* Only data that is not empty has an encoding.
LEMMA EmptyNotEncoded ==
  ASSUME NEW f \in {"hex", "base64", "urlsafe"}, NEW in, EncodeAs(f, in).ok
  PROVE  in # <<>>
<1> SUFFICES ASSUME in = <<>> PROVE FALSE
  OBVIOUS
<1>1. ~Err.ok
  <2>1. Err.ok <=> FALSE
    BY ErrIsNotOk
  <2> QED BY <2>1, Zenon
<1>2. Hexlify(in) = Err /\ Base64Encode(in) = Err
  BY DEF Hexlify, Base64Encode
<1>3. UrlSafeBase64Encode(in) = Err
  <2>1. ~Base64Encode(in).ok
    BY <1>1, <1>2, Zenon
  <2> QED BY <2>1, Zenon DEF UrlSafeBase64Encode
<1>4. EncodeAs(f, in) = Err
  BY <1>2, <1>3 DEF EncodeAs
<1> QED BY <1>1, <1>4, Zenon

\* What is decoded keeps the promise.
LEMMA DecodedPromised ==
  ASSUME NEW f \in {"hex", "base64", "urlsafe"}, NEW in \in Seq(TextByte), in # <<>>, NEW d, NEW t,
         Carried(f, EncodeAs(f, in).out, d, t)
  PROVE  Promised(f, in, d, DecodeAs(f, t))
<1>1. CASE f = "hex"
  BY <1>1, HexPromised DEF EncodeAs, DecodeAs
<1>2. CASE f = "base64"
  BY <1>2, Base64Promised DEF EncodeAs, DecodeAs
<1>3. CASE f = "urlsafe"
  BY <1>3, UrlSafePromised DEF EncodeAs, DecodeAs
<1> QED BY <1>1, <1>2, <1>3

\* The invariant holds before the first call.
LEMMA TextInvInit == TextInit => TextInv
<1> SUFFICES ASSUME TextInit PROVE TextInv
  OBVIOUS
<1>1. outcome.call = "none" /\ data \in Seq(TextBytes) /\ text \in Seq(Letters)
  BY EmptySeq DEF TextInit
<1> QED BY <1>1 DEF TextInit, TextInv, EncodedSurvives, PartsSurvive

\* The symbols a text is damaged with are told apart.
LEMMA DamageKinds ==
  ASSUME NEW f
  PROVE  Base(f) \in Nat /\ Pad(f) # Foreign(f) /\ Base(f) # Foreign(f) /\ Base(f) # Pad(f)
<1>1. Base(f) \in Nat
  BY UnitPowers DEF Base
<1> QED BY <1>1 DEF Pad, Foreign

\* An encoding is a sequence of symbols.
LEMMA EncodedSeq ==
  ASSUME data \in Seq(TextBytes), form \in {"hex", "base64", "urlsafe"}
  PROVE  EncodeAs(form, data).out \in Seq(Nat)
<1>1. data \in Seq(TextByte)
  BY DataBytes
<1>2. CASE data = <<>>
  <2>1. Hexlify(data) = Err /\ Base64Encode(data) = Err
    BY <1>2 DEF Hexlify, Base64Encode
  <2>2. UrlSafeBase64Encode(data) = Err
    <3>1. Err.ok <=> FALSE
      BY ErrIsNotOk
    <3>2. ~Base64Encode(data).ok
      BY <2>1, <3>1, Zenon
    <3> QED BY <3>2, Zenon DEF UrlSafeBase64Encode
  <2>3. EncodeAs(form, data) = Err
    BY <2>1, <2>2 DEF EncodeAs
  <2> QED BY <2>3, EmptySeq DEF Err
<1>3. CASE data # <<>>
  <2>1. Hexlify(data).out \in Seq(Nat)
    BY <1>1, <1>3, HexShape
  <2>2. Base64Encode(data).out \in Seq(Nat)
    BY <1>1, <1>3, Base64IsNumbers
  <2>3. UrlSafeBase64Encode(data).out \in Seq(Nat)
    BY <1>1, <1>3, UrlSafeShape
  <2> QED BY <2>1, <2>2, <2>3 DEF EncodeAs
<1> QED BY <1>2, <1>3

\* A text damaged on its way is still on its way.
LEMMA AfterDamage ==
  ASSUME TextInv, form' = form, data' = data, outcome' = outcome, outcome.call = "encode",
         outcome.ok <=> EncodeAs(form, data).ok,
         Carried(form, EncodeAs(form, data).out, damage', text')
  PROVE  TextInv'
<1>1. (outcome.ok <=> EncodeAs(form, data).ok)' /\ Carried(form, EncodeAs(form, data).out, damage, text)'
  BY Zenon
<1>2. form # "replace"
  BY DEF TextInv
<1>3. outcome'.call = "encode"
  OBVIOUS
<1>4. (EncodedSurvives /\ PartsSurvive)'
  BY <1>3 DEF EncodedSurvives, PartsSurvive
<1> QED BY <1>1, <1>2, <1>3, <1>4 DEF TextInv

\* Every step of TextCalls keeps the invariant.
LEMMA TextInvNext == TextInv /\ [TextNext]_textVars => TextInv'
<1> SUFFICES ASSUME TextInv, [TextNext]_textVars PROVE TextInv'
  OBVIOUS
<1>1. ASSUME NEW b \in TextBytes, Produce(b) PROVE TextInv'
  <2>1. data \in Seq(TextBytes) /\ data' = Append(data, b)
    BY <1>1 DEF Produce, TextInv
  <2>2. data' \in Seq(TextBytes)
    BY <2>1, AppendProperties
  <2>3. /\ form' = form /\ form # "replace" /\ text' = text /\ text = <<>> /\ damage' = damage
        /\ outcome' = outcome /\ outcome.call = "none" /\ damage = "none"
    BY <1>1 DEF Produce, TextInv
  <2>4. (EncodedSurvives /\ PartsSurvive)'
    <3>1. outcome'.call \in {"none", "encode"}
      BY <2>3
    <3> QED BY <3>1 DEF EncodedSurvives, PartsSurvive
  <2> QED BY <2>2, <2>3, <2>4 DEF TextInv
<1>2. CASE EncodeText
  <2>1. /\ form' = form /\ form # "replace" /\ data' = data /\ damage' = damage /\ damage = "none"
        /\ text' = EncodeAs(form, data).out
        /\ outcome' = [call |-> "encode", ok |-> EncodeAs(form, data).ok]
    BY <1>2 DEF EncodeText, TextInv
  <2>2. outcome'.call = "encode"
    BY <2>1
  <2>3. outcome'.ok <=> EncodeAs(form, data).ok
    BY <2>1, Zenon
  <2>4. (EncodedSurvives /\ PartsSurvive)'
    BY <2>2 DEF EncodedSurvives, PartsSurvive
  <2>5. Carried(form, EncodeAs(form, data).out, damage', text')
    BY <2>1 DEF Carried
  <2>6. (outcome.ok <=> EncodeAs(form, data).ok)' /\ Carried(form, EncodeAs(form, data).out, damage, text)'
    BY <2>1, <2>3, <2>5, Zenon
  <2> QED BY <2>1, <2>2, <2>4, <2>6 DEF TextInv
<1>3. CASE Shorten
  <2>1. /\ form' = form /\ data' = data /\ outcome' = outcome /\ outcome.call = "encode"
        /\ text # <<>> /\ damage = "none" /\ text' = Seqs!Front(text) /\ damage' = "cut"
    BY <1>3 DEF Shorten
  <2>2. PICK enc : enc = EncodeAs(form, data).out
    OBVIOUS
  <2>3. text = enc
    BY <2>1, <2>2 DEF TextInv, Carried
  <2>4. Carried(form, enc, "cut", text')
    BY <2>1, <2>3 DEF Carried
  <2>5. outcome.ok <=> EncodeAs(form, data).ok
    BY <2>1 DEF TextInv
  <2> QED BY <2>1, <2>2, <2>4, <2>5, AfterDamage
<1>4. ASSUME NEW i \in 1 .. 2 * MaxData + 2, NEW c \in {Base(form), Pad(form), Foreign(form)}, Alter(i, c)
      PROVE  TextInv'
  <2>1. /\ form' = form /\ data' = data /\ outcome' = outcome /\ outcome.call = "encode"
        /\ i <= Len(text) /\ damage = "none" /\ text[i] # c /\ text' = [text EXCEPT ![i] = c]
        /\ damage' = CASE c = Foreign(form) -> "foreign" [] c = Pad(form) -> "pad" [] OTHER -> "digit"
    BY <1>4 DEF Alter
  <2>2. PICK enc : enc = EncodeAs(form, data).out
    OBVIOUS
  <2>3. text = enc
    BY <2>1, <2>2 DEF TextInv, Carried
  <2>4. Changed(enc, text', c)
    <3>1. i \in 1 .. Len(enc)
      <4>1. enc \in Seq(Nat)
        BY <2>1, <2>2, EncodedSeq DEF TextInv
      <4> QED BY <2>1, <2>3, <4>1
    <3> QED BY <2>1, <2>3, <3>1 DEF Changed
  <2>5. /\ c = Foreign(form) => damage' = "foreign"
        /\ c = Pad(form) => damage' = "pad"
        /\ c = Base(form) => damage' = "digit"
    BY <2>1, DamageKinds
  <2>6. Carried(form, enc, damage', text')
    BY <2>4, <2>5 DEF Carried
  <2>7. outcome.ok <=> EncodeAs(form, data).ok
    BY <2>1 DEF TextInv
  <2> QED BY <2>1, <2>2, <2>6, <2>7, AfterDamage
<1>5. CASE DecodeText
  <2>1. /\ form' = form /\ data' = data /\ text' = text /\ damage' = damage
        /\ outcome.call = "encode" /\ outcome' = [call |-> "decode", got |-> DecodeAs(form, text)]
    BY <1>5 DEF DecodeText
  <2>2. form \in {"hex", "base64", "urlsafe"}
    BY <2>1 DEF TextInv
  <2>3. data # <<>>
    <3>1. outcome.ok
      BY <1>5, Zenon DEF DecodeText
    <3>2. outcome.ok <=> EncodeAs(form, data).ok
      BY <2>1 DEF TextInv
    <3>3. EncodeAs(form, data).ok
      BY <3>1, <3>2, Zenon
    <3> QED BY <2>2, <3>3, EmptyNotEncoded
  <2>4. data \in Seq(TextByte) /\ Carried(form, EncodeAs(form, data).out, damage, text)
    BY <2>1, DataBytes DEF TextInv
  <2>5. Promised(form, data, damage, DecodeAs(form, text))
    BY <2>2, <2>3, <2>4, DecodedPromised
  <2>6. outcome'.call = "decode" /\ outcome'.got = DecodeAs(form, text)
    BY <2>1
  <2>7. Promised(form', data', damage', outcome'.got)
    BY <2>1, <2>5, <2>6
  <2>8. EncodedSurvives'
    BY <2>7 DEF EncodedSurvives, Promised
  <2>9. PartsSurvive'
    BY <2>6 DEF PartsSurvive
  <2> QED BY <2>1, <2>2, <2>6, <2>8, <2>9 DEF TextInv
<1>6. ASSUME NEW c \in Letters, Type(c) PROVE TextInv'
  <2>1. /\ form' = form /\ form = "replace" /\ data' = data /\ damage' = damage
        /\ outcome' = outcome /\ outcome.call = "none" /\ text' = Append(text, c)
    BY <1>6 DEF Type
  <2>2. text \in Seq(Letters)
    BY <2>1 DEF TextInv
  <2>3. text' \in Seq(Letters)
    BY <2>1, <2>2, AppendProperties
  <2>4. (EncodedSurvives /\ PartsSurvive)'
    BY <2>1 DEF EncodedSurvives, PartsSurvive
  <2> QED BY <2>1, <2>3, <2>4 DEF TextInv
<1>7. ASSUME NEW from \in Strings, NEW to \in Strings, Replace(from, to) PROVE TextInv'
  <2>1. /\ form' = form /\ form = "replace" /\ data' = data /\ damage' = damage /\ text' = text
        /\ outcome' = [call |-> "replace", from |-> from, to |-> to, out |-> ReplaceAll(text, from, to)]
    BY <1>7 DEF Replace
  <2>2. text \in Seq(Letters) /\ from \in Seq(Letters) /\ to \in Seq(Letters)
    BY <2>1, TextAssumption DEF TextInv
  <2>3. IF from = <<>> THEN ReplaceAll(text, from, to) = text
        ELSE Answers(text, from, to, ReplaceAll(text, from, to), Replaced(text, from, to))
    BY <2>2, ReplaceAllReplaces
  <2>4. /\ outcome'.call = "replace" /\ outcome'.from = from /\ outcome'.to = to
        /\ outcome'.out = ReplaceAll(text, from, to)
    BY <2>1
  <2>5. PartsSurvive'
    BY <2>1, <2>3, <2>4 DEF PartsSurvive, Answers
  <2>6. EncodedSurvives'
    BY <2>4 DEF EncodedSurvives
  <2> QED BY <2>1, <2>2, <2>4, <2>5, <2>6 DEF TextInv
<1>8. CASE UNCHANGED textVars
  BY <1>8 DEF textVars, TextInv, EncodedSurvives, PartsSurvive
<1> QED BY <1>1, <1>2, <1>3, <1>4, <1>5, <1>6, <1>7, <1>8 DEF TextNext

\* What holds of the texts and the results after any calls, for bytes, characters
\* and delimiters of any number.
THEOREM TextInvariant == TextSpec => []TextInv
<1> QED BY TextInvInit, TextInvNext, PTL DEF TextSpec

\* Data comes back from its text, damage is noticed as far as the form allows, and
\* ReplaceAll replaces every occurrence in a text that does not end with one.
THEOREM TextsComeBack == TextSpec => []TextsSurvive
<1>1. TextInv => TextsSurvive
  BY DEF TextInv, TextsSurvive
<1> QED BY <1>1, TextInvariant, PTL
=============================================================================
