------------------------------ MODULE StrFormat ------------------------------
(***************************************************************************)
(* The text the router formats into fixed buffers: ip_to_string,          *)
(* mac_to_string and subnet_to_string into their STRLEN_* buffers         *)
(* (sr_common.c), my_snprintf's "bytes written, or 0 if it did not fit"   *)
(* (sr_common.c), and the show lines of sr_interface.c into the           *)
(* STR_INTF_* lengths that sr_interface.h documents.                       *)
(*                                                                         *)
(* What truncation depends on is the length of the text, so a text is its *)
(* length: each conversion contributes the number of characters printf     *)
(* prints for it (decimal %u, hex %X, %-ws padding to width w).  vsnprintf *)
(* into a buffer of size n stores min(len, n - 1) characters and a NUL,    *)
(* and returns len.                                                       *)
(***************************************************************************)
EXTENDS AddrUtil, Sequences

\* sr_common.h 23-32: the buffer sizes, terminating NUL included.
StrlenIp == 16
StrlenMac == 18
\* Mutant: room for "/32" counted as two characters.
StrlenSubnetShort == StrlenIp + 2
StrlenSubnet == StrlenIp + 3

\* sr_interface.h 11: interface_t.name is a char[SR_NAMELEN].
SrNamelen == 32

\* Mutant: the header length counted without its NUL.
StrIntfHdrMaxLenShort == 54

\* sr_interface.h 55-56 and the "82 bytes" of sr_interface.c 84.
StrIntfHdrMaxLen == 55
StrIntfMaxLen == 46 + SrNamelen
StrNeighborHdrLen == 82

\* The characters %u prints for an unsigned n below 2^31 (its leading
\* digit is the quotient by 10^(k-1) that lies in 1..9), and %X prints.
DecLen(n) == IF n = 0 THEN 1 ELSE CHOOSE k \in 1..10 : n \div 10^(k - 1) \in 1..9
HexLen(n) == IF n = 0 THEN 1 ELSE CHOOSE k \in 1..8 : n \div 16^(k - 1) \in 1..15

\* %-ws: the argument, padded with spaces to at least w characters.
Pad(w, len) == IF len < w THEN w ELSE len

\* vsnprintf(str, size, ...) of a text of len characters: what is stored
\* before the NUL, and the value returned.
Snprintf(size, len) == [stored |-> IF size = 0 THEN 0
                                   ELSE IF len < size THEN len ELSE size - 1,
                        ret |-> len]

\* Mutant: truncation tested with > instead of >=.
MySnprintfOffByOne(size, len) ==
    LET w == Snprintf(size, len).ret IN
    IF w < 0 \/ w > size THEN 0 ELSE w

\* my_snprintf (sr_common.c 178-191): vsnprintf's count, or 0 when it
\* failed or the text did not fit.
MySnprintf(size, len) ==
    LET w == Snprintf(size, len).ret IN
    IF w < 0 \/ w >= size THEN 0 ELSE w

\* ip_to_string (sr_common.c 109-120): "%u.%u.%u.%u" of the four octets in
\* memory order, into a STRLEN_IP buffer.
IpText(o) == DecLen(o[0]) + DecLen(o[1]) + DecLen(o[2]) + DecLen(o[3]) + 3
IpToString(o) == Snprintf(StrlenIp, IpText(o)).stored

\* mac_to_string (sr_common.c 122-131): each octet as two %X of its
\* nibbles, six groups joined by ':', into a STRLEN_MAC buffer.
MacText(m) ==
    LET nib(i) == HexLen(m[i] \div 16) + HexLen(m[i] % 16) IN
    nib(0) + nib(1) + nib(2) + nib(3) + nib(4) + nib(5) + 5
MacToString(m) == Snprintf(StrlenMac, MacText(m)).stored

\* subnet_to_string (sr_common.c 145-166) of its result s (AddrUtil's
\* SubnetToString): "<catch-all>", or the shown octets joined by '.', then
\* '/' and the bit count, into a STRLEN_SUBNET buffer.
SubnetText(s) ==
    IF s.shown = <<>> THEN Len("<catch-all>")
    ELSE LET sh == s.shown IN
         DecLen(sh[1]) + (IF Len(sh) > 1 THEN DecLen(sh[2]) + 1 ELSE 0)
         + (IF Len(sh) > 2 THEN DecLen(sh[3]) + 1 ELSE 0)
         + (IF Len(sh) > 3 THEN DecLen(sh[4]) + 1 ELSE 0) + 1 + DecLen(s.len)
SubnetToStringLen(s) == Snprintf(StrlenSubnet, SubnetText(s)).stored

\* STR_INTF_FORMAT "%-9s  %-17s  %-15s  %-6s\n" (sr_interface.c 61) of
\* four texts of the given lengths.
IntfLine(a, b, c, d) == Pad(9, a) + 2 + Pad(17, b) + 2 + Pad(15, c) + 2 + Pad(6, d) + 1

\* intf_header_to_string (sr_interface.c 63-66).
IntfHeaderToString(len) ==
    MySnprintf(len, IntfLine(Len("Interface"), Len("MAC"), Len("IP"), Len("Status")))

\* intf_to_string (sr_interface.c 68-82): the name (nameLen characters,
\* NUL-terminated in its char[SR_NAMELEN]), the MAC and IP as formatted
\* into their local buffers, and "Up" or "Down".
IntfToString(nameLen, mac, ip, enabled, len) ==
    MySnprintf(len, IntfLine(nameLen, MacToString(mac), IpToString(ip),
                             IF enabled THEN Len("Up") ELSE Len("Down")))

\* intf_neighbor_header_to_string (sr_interface.c 85-91):
\* "  %-15s  %-15s  %-18s  %-24s\n".
IntfNeighborHeaderToString(len) ==
    MySnprintf(len, 2 + Pad(15, Len("Neighbor IP")) + 2 + Pad(15, Len("Neighbor Rtr ID"))
                    + 2 + Pad(18, Len("Subnet")) + 2 + Pad(24, Len("Last Hello Time")) + 1)

\* cli_client_handler_main (cli_main.c 107-111): the thread name
\* "CLI Worker %u" of the client's fd, into a char[22].
CliWorkerName(fd) == MySnprintf(22, Len("CLI Worker ") + DecLen(fd))

=============================================================================
