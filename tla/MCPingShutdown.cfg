\* Does cli_shutdown complete?  One client fd, a ping then shutdown.
CONSTANTS
    c1 = c1
    c2 = c2
    ipRemote = ipRemote
    ipOwn = ipOwn
    NoIP = NoIP
    IPs <- MCIPs
    SelfIPs <- MCSelfIPs
    MaxRequests = 2
    MaxFlood = 2
    WaitTicks = 1
    MaxTime = 1
    MaxClockSteps = 1
    Fds <- MCOneFd
    MaxCmds = 2
    ShutdownAfterCmds = FALSE

SPECIFICATION Spec

PROPERTY ShutdownCompletes

CHECK_DEADLOCK FALSE
