\* Sessions of the CLI server: two clients, two descriptors, a buffer of two
\* reads, one ping and three commands, under the fairness of Spec.
CONSTANTS
    NumConns = 2
    NumFds = 2
    MaxBuf = 2
    MaxPings = 1
    MaxCmds = 3
    FloodCounts = {0, 1}
    ipOwn = ipOwn
    ipRemote = ipRemote
    ipOther = ipOther
    IntfFile <- MCIntfFile
    Addrs <- MCAddrs
    Unset <- MCUnset
    RouterMaxInterfaces = 4

SPECIFICATION Spec

INVARIANT TypeOK
INVARIANT SelfPingNotSent
PROPERTY ClientGoneReleased

CHECK_DEADLOCK FALSE
