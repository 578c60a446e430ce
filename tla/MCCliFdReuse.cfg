\* CliServer with the bounds of MCCliServer.cfg, checking ResultsReachOwner alone.
CONSTANTS
    NumConns = 2
    NumFds = 2
    MaxBuf = 2
    MaxPings = 1
    MaxCmds = 3
    FloodCounts = {0, 1}
    ipOwn = ipOwn
    ipRemote = ipRemote
    ipOther = ipOther
    IntfFile <- MCIntfFile
    Addrs <- MCAddrs
    Unset <- MCUnset
    RouterMaxInterfaces = 4


SPECIFICATION Spec

INVARIANT ResultsReachOwner

CHECK_DEADLOCK FALSE
