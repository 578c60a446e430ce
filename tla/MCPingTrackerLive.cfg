\* Liveness of the ping tracker: one client fd and one command (a ping or a
\* flood of two), under the fairness of Spec, and a shutdown that may follow
\* it while the pings are pending and a reply is in flight.
CONSTANTS
    c1 = c1
    c2 = c2
    ipRemote = ipRemote
    ipOwn = ipOwn
    NoIP = NoIP
    IPs <- MCIPs
    SelfIPs <- MCSelfIPs
    MaxRequests = 2
    MaxFlood = 2
    WaitTicks = 1
    MaxTime = 1
    MaxClockSteps = 1
    Fds <- MCOneFd
    MaxCmds = 1
    ShutdownAfterCmds = TRUE

SPECIFICATION Spec

PROPERTY PingEventuallyAnswered
PROPERTY ImplementsPingSet

CHECK_DEADLOCK FALSE
