\* Safety of the ping tracker: one client fd, one command (a ping, a flood of
\* up to three, shutdown or another command), echo replies of any sequence
\* number, and a clock that may step back once, so that a new ping can be
\* inserted before the head or in the middle of ping_list.  Deadlock is not
\* checked: the shutdown hang is the subject of the run ping_shutdown_hangs.
CONSTANTS
    c1 = c1
    c2 = c2
    ipRemote = ipRemote
    ipOwn = ipOwn
    NoIP = NoIP
    Fds <- MCOneFd
    IPs <- MCIPs
    SelfIPs <- MCSelfIPs
    MaxRequests = 3
    MaxFlood = 3
    MaxCmds = 1
    ShutdownAfterCmds = FALSE
    WaitTicks = 1
    MaxTime = 2
    MaxClockSteps = 1

SPECIFICATION Spec

INVARIANT TypeOK
INVARIANT PingListIntact
INVARIANT EachPingAnsweredOnce
INVARIANT EqualExpiryKeepsSendOrder

CHECK_DEADLOCK FALSE
