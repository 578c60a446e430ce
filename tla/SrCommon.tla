------------------------------ MODULE SrCommon ------------------------------
(***************************************************************************)
(* The helpers of sr_common.c together: the timeval helpers on the ping    *)
(* timestamps of TimeUtil, and the address helpers of AddrUtil on an input *)
(* chosen in the initial state and kept for the whole behaviour, and the   *)
(* text lengths of StrFormat on such an input.  Each property below is the *)
(* helper's contract for the input of the state.                          *)
(***************************************************************************)
EXTENDS TimeUtil, StrFormat

VARIABLE probe   \* the input of this behaviour to one address helper

Probes ==
    {[kind |-> "ones", x |-> w] : w \in OnesInputs}
    \cup {[kind |-> "subnet", n |-> n, s |-> s] : n \in Prefixes, s \in SampleSubnets}
    \cup {[kind |-> "mac", m |-> m] : m \in SampleMacs}
    \cup {[kind |-> "ip", o |-> o] : o \in [0..3 -> {0, 10, 255}]}
    \cup {[kind |-> "snprintf", size |-> n, len |-> k] : n, k \in 0..3}
    \cup {[kind |-> "intf", nameLen |-> k, ip |-> [i \in 0..3 |-> b], up |-> u] :
            k \in {0, 9, SrNamelen - 1}, b \in {0, 255}, u \in BOOLEAN}
    \cup {[kind |-> "fd", fd |-> f] : f \in {0, 9, 10, 2147483647}}

CommonInit == Init /\ probe \in Probes

CommonSpec == CommonInit /\ [][Next /\ UNCHANGED probe]_<<vars, probe>>

\* ones() counts the set bits of a uint32: every prefix mask in either byte
\* order, single bits, and values whose pair, nibble and byte sums carry.
\* subnet_to_string trusts it for the prefix length.
OnesIsPopCount == probe.kind = "ones" => Ones(probe.x) = Bits(probe.x)

\* subnet_to_string prints, for a /n mask, exactly the octets the prefix
\* reaches (at least one) and n, and "<catch-all>" only for 0/0.
SubnetShowsPrefix ==
    probe.kind = "subnet" =>
        LET out == SubnetToString(probe.s, MaskOctets(probe.n)) IN
        IF probe.n = 0 /\ IpValue(probe.s) = Zero
        THEN out.len = "catch-all"
        ELSE /\ out.len = probe.n
             /\ out.shown = Shown(probe.s, IF probe.n = 0 THEN 1
                                           ELSE (probe.n + 7) \div 8)

\* A MAC read back from the hardware registers by mac_set_hi and
\* mac_set_lo (intf_hw_to_string) is the MAC that mac_hi and mac_lo packed,
\* whatever the octets held before, the int overflow of octet 2 included.
MacHiLoRoundTrip ==
    probe.kind = "mac" =>
        \A z \in {[i \in 0..5 |-> 0], [i \in 0..5 |-> 255]} :
            MacSetLo(MacSetHi(z, MacHi(probe.m)), MacLo(probe.m)) = probe.m

\* mac_is_zero, with its type-punned uint32 and uint16 reads, agrees with
\* is_valid_mac: a MAC is zero exactly when it is not valid.
MacIsZeroIsNotValid ==
    probe.kind = "mac" => (MacIsZero(probe.m) <=> ~IsValidMac(probe.m))

\* ip_to_string, mac_to_string and subnet_to_string never truncate: the
\* longest address "255.255.255.255", a MAC's seventeen characters and
\* "255.255.255.255/32" each fill their STRLEN_* buffer exactly, NUL
\* included, so the ping notices and show lines print whole addresses.
AddrStringsNotTruncated ==
    /\ probe.kind = "ip" => IpToString(probe.o) = IpText(probe.o)
    /\ probe.kind = "mac" => MacToString(probe.m) = MacText(probe.m)
    /\ probe.kind = "subnet" =>
          LET s == SubnetToString(probe.s, MaskOctets(probe.n))
          IN  SubnetToStringLen(s) = SubnetText(s)

\* my_snprintf keeps the promise its callers in sr_interface.c document: a
\* non-zero result is the number of characters in the buffer and the whole
\* text is there; a text that fits with its NUL is reported, not dropped.
\* The text that exactly fills the buffer, losing its last character to
\* the NUL, is the case in between.
MySnprintfReportsFit ==
    probe.kind = "snprintf" =>
        LET r  == MySnprintf(probe.size, probe.len)
            st == Snprintf(probe.size, probe.len).stored
        IN  /\ r # 0 => r = st /\ st = probe.len
            /\ probe.len < probe.size => r = probe.len

\* The show lines fit the lengths sr_interface.h documents for them, so
\* my_snprintf never turns one into 0: the interface header into
\* STR_INTF_HDR_MAX_LEN, an interface of any name that fits its
\* char[SR_NAMELEN] with any address and status into STR_INTF_MAX_LEN, the
\* neighbour header into its 82 bytes; and a session thread's name
\* "CLI Worker <fd>" into its char[22] for every fd.
ShowTextFitsDocumentedLength ==
    /\ probe.kind = "intf" =>
          /\ IntfHeaderToString(StrIntfHdrMaxLen) # 0
          /\ IntfToString(probe.nameLen, [i \in 0..5 |-> 171], probe.ip, probe.up,
                          StrIntfMaxLen) # 0
          /\ IntfNeighborHeaderToString(StrNeighborHdrLen) # 0
    /\ probe.kind = "fd" => CliWorkerName(probe.fd) # 0

=============================================================================
