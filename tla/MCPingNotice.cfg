\* Does the PING notice of a ping precede its REPLY or TIMEOUT line?  (The
\* process may stop: the shutdown hang is checked by ping_shutdown_hangs.)
CONSTANTS
    c1 = c1
    c2 = c2
    ipRemote = ipRemote
    ipOwn = ipOwn
    NoIP = NoIP
    IPs <- MCIPs
    SelfIPs <- MCSelfIPs
    MaxRequests = 2
    MaxFlood = 2
    WaitTicks = 1
    MaxTime = 1
    MaxClockSteps = 1
    Fds <- MCOneFd
    MaxCmds = 1
    ShutdownAfterCmds = FALSE

SPECIFICATION Spec

INVARIANT PingNoticeBeforeOutcome

CHECK_DEADLOCK FALSE
