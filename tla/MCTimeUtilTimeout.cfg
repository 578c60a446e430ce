\* Run scrub_timeout_sign: the select() timeout of cli_ping_scrubber.
\* One second is four units.
CONSTANTS
    USecPerSec = 4
    MaxWait = 5
    MinResponse = 1
    MaxElapse = 3
    MaxSec = 4
SPECIFICATION Spec

\* The clock stops at MaxSec.
CHECK_DEADLOCK FALSE
INVARIANT ScrubTimeoutInRange
