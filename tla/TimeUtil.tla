------------------------------ MODULE TimeUtil ------------------------------
(***************************************************************************)
(* The struct timeval helpers of sr_common.c and their use by the ping     *)
(* tracker of cli/cli_ping.c: a request stamps send_time and computes      *)
(* expire_time = time_add_usec(send_time, PING_MAX_WAIT_FOR_REPLY_USEC);   *)
(* the scrubber compares gettimeofday() with it by is_later and, while the *)
(* head has not expired, computes the timeout it passes to select().       *)
(*                                                                         *)
(* A timeval is a record [sec, usec]; one second is USecPerSec units, a    *)
(* scaled-down 1000000, so that carries happen within a few steps.         *)
(***************************************************************************)
EXTENDS Integers, AddrUtil

CONSTANTS
    USecPerSec,     \* 1000000 in the code
    MaxWait,        \* PING_MAX_WAIT_FOR_REPLY_USEC (cli_ping.h)
    MinResponse,    \* PING_HANDLER_MIN_RESPONSE_TIME_USEC (cli_ping.h)
    MaxElapse,      \* largest clock advance between two gettimeofday()s
    MaxSec          \* bound on tv_sec, to keep the state space finite

ASSUME /\ MinResponse < USecPerSec
       /\ MaxWait \in Nat /\ MaxElapse \in Nat \ {0}

VARIABLES
    now,        \* the value gettimeofday() would return
    sent,       \* p_new->send_time of the pending ping
    expire,     \* p_new->expire_time of the pending ping
    armed       \* a ping is pending

vars == <<now, sent, expire, armed>>

TimeVal == [sec : 0..MaxSec, usec : 0..(USecPerSec - 1)]

\* The value of a timeval in microseconds, as time_passed() computes it.
ToUsec(t) == t.sec * USecPerSec + t.usec

\* Mutant: the carry into tv_sec is never taken.
TimeAddUsecNoCarry(start, usec) ==
    [sec |-> start.sec, usec |-> usec + start.usec]

\* time_add_usec, sr_common.c lines 12-23.
TimeAddUsec(start, usec) ==
    LET totUsec  == usec + start.usec
        carrySec == totUsec \div USecPerSec
    IN  [sec |-> start.sec + carrySec, usec |-> totUsec - USecPerSec * carrySec]

\* Mutant: equal seconds compare with >= on tv_usec.
IsLaterOrEqual(t1, t2) ==
    \/ t1.sec > t2.sec
    \/ t1.sec = t2.sec /\ t1.usec >= t2.usec

\* is_later, sr_common.c lines 25-28.
IsLater(t1, t2) ==
    \/ t1.sec > t2.sec
    \/ t1.sec = t2.sec /\ t1.usec > t2.usec

\* The select() timeout of cli_ping_scrubber, cli_ping.c lines 260-265,
\* computed once the head has not expired: tv_sec and tv_usec are signed.
ScrubTimeout(n, e) ==
    LET t == [sec |-> n.sec - e.sec, usec |-> n.usec - e.usec]
    IN  IF t.sec > 0 \/ t.usec > MinResponse
        THEN [sec |-> 0, usec |-> MinResponse]
        ELSE t

Init ==
    /\ now \in TimeVal
    /\ now.sec = 0
    /\ sent = now
    /\ expire = now
    /\ armed = FALSE

\* cli_ping_request, cli_ping.c lines 108-111: stamp the new request.
Arm ==
    /\ ~armed
    /\ ToUsec(TimeAddUsec(now, MaxWait)) < (MaxSec + 1) * USecPerSec
    /\ sent' = now
    /\ expire' = TimeAddUsec(now, MaxWait)
    /\ armed' = TRUE
    /\ UNCHANGED now

\* Time passes between two gettimeofday() calls (cli_ping.c line 234).
Elapse ==
    \E d \in 1..MaxElapse :
        /\ ToUsec(now) + d < (MaxSec + 1) * USecPerSec
        /\ now' = TimeAddUsec(now, d)
        /\ UNCHANGED <<sent, expire, armed>>

\* The scrubber's inner loop, cli_ping.c line 235: the head is removed once
\* is_later(&now, &expire_time).
Expire ==
    /\ armed
    /\ IsLater(now, expire)
    /\ armed' = FALSE
    /\ UNCHANGED <<now, sent, expire>>

Next == Arm \/ Elapse \/ Expire

Spec == Init /\ [][Next]_vars

-----------------------------------------------------------------------------

TypeOK ==
    /\ now \in TimeVal /\ sent \in TimeVal /\ expire \in TimeVal
    /\ armed \in BOOLEAN

\* time_add_usec returns a normalized timeval (tv_usec below one second)
\* that lies exactly PING_MAX_WAIT_FOR_REPLY_USEC after send_time, whatever
\* carry the addition makes.
ExpireIsSendPlusWait ==
    armed => /\ expire.usec < USecPerSec
             /\ ToUsec(expire) = ToUsec(sent) + MaxWait

\* The scrubber's is_later test orders timevals as their microsecond values
\* do: a ping is removed exactly when its expiry is strictly behind now,
\* never at or before it.  PingTracker's IsLater on ticks relies on this.
IsLaterIsTimeOrder ==
    armed => (IsLater(now, expire) <=> ToUsec(now) > ToUsec(expire))

\* The timeout the scrubber passes to select() while the head has not yet
\* expired is a valid non-negative timeval: the time left until the head
\* expires, capped at PING_HANDLER_MIN_RESPONSE_TIME_USEC.
ScrubTimeoutInRange ==
    armed /\ ~IsLater(now, expire) =>
        LET t    == ScrubTimeout(now, expire)
            left == ToUsec(expire) - ToUsec(now)
        IN  /\ t.sec >= 0 /\ t.usec >= 0
            /\ ToUsec(t) = IF left < MinResponse THEN left ELSE MinResponse

=============================================================================
