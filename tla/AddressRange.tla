---------------------------- MODULE AddressRange ----------------------------
(***************************************************************************)
(* cpl::net::ipv4::AddressRange (net.hpp): a range of addresses set from   *)
(* one address, two, or an address and a mask, by number or by text, kept  *)
(* in network order; the membership test takes the other order.  An        *)
(* address has two halves of Half values each (2^16 in the code, where     *)
(* TransEndian turns four bytes around); a text is modelled by what it     *)
(* parses to.                                                              *)
(***************************************************************************)
EXTENDS Integers

CONSTANTS
  Half,
  Width,      \* bits of an address: 32
  HostCount   \* addresses in a network, by the bits of its mask: 2^(32 - bits)

\* All addresses are one network, and networks of one size fill them.
ASSUME RangeAssumption ==
  /\ Half \in Nat \ {0} /\ Width \in Nat
  /\ HostCount \in [0 .. Width -> Nat \ {0}]
  /\ HostCount[0] = Half * Half
  /\ \A mask \in 0 .. Width : HostCount[0] % HostCount[mask] = 0

VARIABLES
  start, end, isDHCPEnabled,
  meant,      \* history: the set of addresses the last accepted call described
  ret

rangeVars == <<start, end, isDHCPEnabled, meant, ret>>

Address == 0 .. Half * Half - 1

TransEndian(v) == (v % Half) * Half + v \div Half

\* ByteMaskToUintMask(mask, true); only a mask within the width has one.
MaskOk(mask) == mask <= Width
NetworkOf(ip, mask) == ip - (ip % HostCount[mask])
BroadcastOf(ip, mask) == NetworkOf(ip, mask) + HostCount[mask] - 1

RangeInit == start = 0 /\ end = 0 /\ isDHCPEnabled = FALSE /\ meant = {0} /\ ret = 0

SetTo(a, b, set) ==
  start' = a /\ end' = b /\ meant' = set /\ ret' = 0

Refuse(code) == ret' = code /\ UNCHANGED <<start, end, meant>>

SetSingleIP(ip) == SetTo(ip, ip, {ip})

\* Mutant: the two addresses are taken in the order given.
SetAddressRangeAsGiven(ip1, ip2) ==
  SetTo(ip1, ip2, IF ip1 > ip2 THEN ip2 .. ip1 ELSE ip1 .. ip2)

SetAddressRange(ip1, ip2) ==
  IF ip1 > ip2 THEN SetTo(ip2, ip1, ip2 .. ip1) ELSE SetTo(ip1, ip2, ip1 .. ip2)

\* Every address that agrees with ip in the first mask bits.
SetAddressMask(ip, mask) ==
  IF ~MaskOk(mask) THEN Refuse(-1)
  ELSE SetTo(NetworkOf(ip, mask), BroadcastOf(ip, mask),
             {a \in Address : a \div HostCount[mask] = ip \div HostCount[mask]})

\* A text: one address, two with a dash, an address and a number after a
\* slash, or nothing that parses; the call reads the flag whatever comes of it.
Texts == [form : {"single"}, ip : Address]
         \cup [form : {"range"}, ip : Address, ip2 : Address]
         \cup [form : {"mask"}, ip : Address, mask : 0 .. Width + 1]
         \cup [form : {"bad"}, code : {-1, -5}]

SetAddressAny(s) ==
  CASE s.form = "single" -> SetSingleIP(s.ip)
    [] s.form = "range"  -> SetAddressRange(s.ip, s.ip2)
    [] s.form = "mask"   -> SetAddressMask(s.ip, s.mask)
    [] s.form = "bad"    -> Refuse(s.code)

RangeNext ==
  \/ \E s \in Texts : SetAddressAny(s) /\ UNCHANGED isDHCPEnabled
  \/ \E s \in Texts, dhcp \in BOOLEAN : SetAddressAny(s) /\ isDHCPEnabled' = dhcp

RangeSpec == RangeInit /\ [][RangeNext]_rangeVars

IsAddressIn(ip) == TransEndian(ip) >= start /\ TransEndian(ip) <= end

-----------------------------------------------------------------------------
(***************************************************************************)
(* After any calls, accepted or refused, the membership test says yes to   *)
(* exactly the addresses, in the caller's byte order, that the last        *)
(* accepted call described; and no bound, not even a broadcast address,    *)
(* leaves the 32 bits it is kept in.                                       *)
(***************************************************************************)
RangeIsWhatWasMeant ==
  /\ \A a \in Address : IsAddressIn(TransEndian(a)) <=> a \in meant
  /\ start \in Address /\ end \in Address

=============================================================================
