--------------------------- MODULE MCPingTracker ---------------------------
(* PingTracker instantiated for TLC: two client fds, one remote and one   *)
(* own address, up to three pings.                                        *)
EXTENDS PingTracker

CONSTANTS c1, c2, ipRemote, ipOwn

MCFds == {c1, c2}
MCOneFd == {c1}
MCIPs == {ipRemote, ipOwn}
MCSelfIPs == {ipOwn}

=============================================================================
