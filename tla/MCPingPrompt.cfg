\* Does the prompt after a ping result land on another connection?
CONSTANTS
    c1 = c1
    c2 = c2
    ipRemote = ipRemote
    ipOwn = ipOwn
    NoIP = NoIP
    IPs <- MCIPs
    SelfIPs <- MCSelfIPs
    MaxRequests = 2
    MaxFlood = 2
    WaitTicks = 1
    MaxTime = 1
    MaxClockSteps = 1
    Fds <- MCFds
    MaxCmds = 2
    ShutdownAfterCmds = FALSE

SPECIFICATION Spec

INVARIANT NoPromptForOthersPing

CHECK_DEADLOCK FALSE
