------------------------------ MODULE AddrUtil ------------------------------
(***************************************************************************)
(* The address helpers of sr_common.c, as operators on numbers.            *)
(*                                                                         *)
(* An addr_ip_t is a uint32 holding the four octets in network order; the  *)
(* host (x86, little-endian) sees octet 0 as its lowest byte.  An          *)
(* addr_mac_t is octet[0..5].  Every C shift and mask is written as what   *)
(* it does to the number, and every store keeps the width of its target:  *)
(* uint8 octets, uint16 and uint32 results.  Checked against reference     *)
(* definitions by the invariants at the end.                              *)
(***************************************************************************)
EXTENDS Integers, Bitwise, TLC

Bytes == 0..255
H == 2^16

(* A uint32 is a record of two 16-bit halves, because TLC's integers stop *)
(* at 2^31; these operators are the C operators on uint32, wrapping       *)
(* modulo 2^32.                                                            *)
Word(hi, lo) == [hi |-> hi, lo |-> lo]
Zero == Word(0, 0)
ShrW(x, k) ==
    IF k >= 16 THEN Word(0, x.hi \div 2^(k - 16))
    ELSE Word(x.hi \div 2^k, (x.lo \div 2^k) + (x.hi % 2^k) * 2^(16 - k))
AndW(x, y) == Word(x.hi & y.hi, x.lo & y.lo)
AddW(x, y) == Word((x.hi + y.hi + (x.lo + y.lo) \div H) % H, (x.lo + y.lo) % H)
SubW(x, y) ==
    Word((x.hi - y.hi - (IF x.lo < y.lo THEN 1 ELSE 0)) % H, (x.lo - y.lo) % H)

\* addr_ip_t (sr_common.h 44) holding the octets of a network order
\* address, as the little-endian host reads it; ip_to_string and
\* subnet_to_string index the octets back through (byte*)&ip.
IpValue(o) == Word(o[2] + o[3] * 256, o[0] + o[1] * 256)

\* Mutant: the last fold (x += x >> 16) left out.
OnesNoHighFold(x) ==
    LET x1 == SubW(x, AndW(ShrW(x, 1), Word(21845, 21845)))
        x2 == AddW(AndW(ShrW(x1, 2), Word(13107, 13107)), AndW(x1, Word(13107, 13107)))
        x3 == AndW(AddW(ShrW(x2, 4), x2), Word(3855, 3855))
        x4 == AddW(x3, ShrW(x3, 8))
    IN  AndW(x4, Word(0, 63)).lo

\* ones (sr_common.c 135-143), Hacker's Delight: pair, nibble and byte
\* sums on a uint32 (masks 0x55555555, 0x33333333, 0x0f0f0f0f), folded
\* into the low six bits.
Ones(x) ==
    LET x1 == SubW(x, AndW(ShrW(x, 1), Word(21845, 21845)))
        x2 == AddW(AndW(ShrW(x1, 2), Word(13107, 13107)), AndW(x1, Word(13107, 13107)))
        x3 == AndW(AddW(ShrW(x2, 4), x2), Word(3855, 3855))
        x4 == AddW(x3, ShrW(x3, 8))
        x5 == AddW(x4, ShrW(x4, 16))
    IN  AndW(x5, Word(0, 63)).lo

\* The first k octets of subnet, as the format prints them.
Shown(subnet, k) == [i \in 1..k |-> subnet[i - 1]]

\* Mutant: each prefix bound compared with < instead of <=.
SubnetToStringStrict(subnet, mask) ==
    LET n == Ones(IpValue(mask)) IN
    CASE n = 0 /\ IpValue(subnet) = Zero -> [shown |-> <<>>, len |-> "catch-all"]
      [] n < 8  -> [shown |-> Shown(subnet, 1), len |-> n]
      [] n < 16 -> [shown |-> Shown(subnet, 2), len |-> n]
      [] n < 24 -> [shown |-> Shown(subnet, 3), len |-> n]
      [] OTHER  -> [shown |-> Shown(subnet, 4), len |-> n]

\* subnet_to_string (sr_common.c 145-166): the octets of the subnet the
\* mask's bit count reaches, then "/" and the count; "<catch-all>" for
\* 0/0.  The string is the printed octets and the printed count.
SubnetToString(subnet, mask) ==
    LET n == Ones(IpValue(mask)) IN
    CASE n = 0 /\ IpValue(subnet) = Zero -> [shown |-> <<>>, len |-> "catch-all"]
      [] n <= 8  -> [shown |-> Shown(subnet, 1), len |-> n]
      [] n <= 16 -> [shown |-> Shown(subnet, 2), len |-> n]
      [] n <= 24 -> [shown |-> Shown(subnet, 3), len |-> n]
      [] OTHER   -> [shown |-> Shown(subnet, 4), len |-> n]

\* is_valid_mac (sr_common.c 52-59): some octet is not zero.
IsValidMac(m) == \E i \in 0..5 : m[i] # 0

\* mac_hi (sr_common.c 84-86), returned as a uint16.
MacHi(m) == (m[0] * 2^8 + m[1]) % 2^16

\* mac_lo (sr_common.c 88-90): the int shift of octet 2 may overflow int;
\* the build wraps, and the sum is returned as a uint32.
MacLo(m) == Word(m[2] * 256 + m[3], m[4] * 256 + m[5])

\* mac_set_hi (sr_common.c 92-95): each store truncates to a byte.
MacSetHi(m, hi) == [m EXCEPT ![0] = (hi \div 2^8) % 256, ![1] = hi % 256]

\* A store into a byte keeps the low eight bits.
Low8(x) == x.lo % 256

\* Mutant: octet 3 shifted by 8 instead of 16.
MacSetLoShort(m, lo) ==
    [m EXCEPT ![2] = Low8(ShrW(lo, 24)),
              ![3] = Low8(ShrW(AndW(lo, Word(255, 0)), 8)),
              ![4] = Low8(ShrW(AndW(lo, Word(0, 65280)), 8)),
              ![5] = Low8(AndW(lo, Word(0, 255)))]

\* mac_set_lo (sr_common.c 97-102).
MacSetLo(m, lo) ==
    [m EXCEPT ![2] = Low8(ShrW(lo, 24)),
              ![3] = Low8(ShrW(AndW(lo, Word(255, 0)), 16)),
              ![4] = Low8(ShrW(AndW(lo, Word(0, 65280)), 8)),
              ![5] = Low8(AndW(lo, Word(0, 255)))]

\* Mutant: only the first four octets read.
MacIsZeroHead(m) == Word(m[2] + m[3] * 256, m[0] + m[1] * 256) = Zero

\* mac_is_zero (sr_common.c 104-106): a uint32 read at octet 0 and a
\* uint16 read at octet 4, each compared with zero.
MacIsZero(m) ==
    /\ Word(m[2] + m[3] * 256, m[0] + m[1] * 256) = Zero
    /\ m[4] + m[5] * 256 = 0

-----------------------------------------------------------------------------
(* Reference definitions and the inputs SrCommon.tla checks them on.      *)

RECURSIVE PopCount(_)
PopCount(x) == IF x = 0 THEN 0 ELSE (x % 2) + PopCount(x \div 2)
Bits(w) == PopCount(w.hi) + PopCount(w.lo)

\* The network-order mask of a /n prefix: octet i has its top
\* min(max(n - 8i, 0), 8) bits set.
MaskOctets(n) ==
    [i \in 0..3 |-> LET k == IF n - 8 * i < 0 THEN 0
                             ELSE IF n - 8 * i > 8 THEN 8 ELSE n - 8 * i
                    IN 256 - 2^(8 - k)]

Prefixes == 0..32
SampleSubnets == {[i \in 0..3 |-> 0], [i \in 0..3 |-> 255],
                  (0 :> 10 @@ 1 :> 0 @@ 2 :> 1 @@ 3 :> 128)}
\* MACs whose octets are 0 or 0x81 (top bit set, so octet 2 overflows the
\* int of mac_lo), and one with six different octets.
SampleMacs == [0..5 -> {0, 129}] \cup {[i \in 0..5 |-> 40 * i + 7]}
\* Host-order masks, network-order masks, single bits, the alternating
\* patterns, and every byte value in all four positions.
OnesInputs ==
    {Word(H - 1, H - 2^k) : k \in 0..16} \cup {Word(H - 2^k, 0) : k \in 0..16}
    \cup {IpValue(MaskOctets(n)) : n \in Prefixes}
    \cup {Word(0, 2^k) : k \in 0..15} \cup {Word(2^k, 0) : k \in 0..15}
    \cup {Word(21845, 21845), Word(43690, 43690), Word(H - 1, H - 1)}
    \cup {Word(257 * b, 257 * b) : b \in Bytes}

=============================================================================
