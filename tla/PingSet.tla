------------------------------- MODULE PingSet -------------------------------
(***************************************************************************)
(* What the ping tracker promises (spec: PendingPing, PingList, §4.3): a   *)
(* set of outstanding pings, at most one per (IP, sequence) pair; a ping   *)
(* leaves the set only by being answered, with a REPLY or a TIMEOUT, once, *)
(* or by the teardown, which drops every pending ping without notice.     *)
(* PingTracker.tla is shown to implement it.                              *)
(***************************************************************************)
CONSTANT Pings      \* the pings that may be sent: [fd, ip, seq]

VARIABLES
    pending,    \* pings registered and not yet answered
    answered    \* pings whose REPLY or TIMEOUT has been written

vars == <<pending, answered>>

Init == pending = {} /\ answered = {}

\* send_ping: a ping is unique by (ip, seq) while outstanding.
Register(r) ==
    /\ r \notin answered
    /\ \A q \in pending : <<q.ip, q.seq>> # <<r.ip, r.seq>>
    /\ pending' = pending \cup {r}
    /\ UNCHANGED answered

\* handle_reply or the scrubber: the ping is removed and reported once.
Answer(r) ==
    /\ r \in pending
    /\ pending' = pending \ {r}
    /\ answered' = answered \cup {r}

\* destroy: every remaining ping is freed without notification.
Drop ==
    /\ pending' = {}
    /\ UNCHANGED answered

Next == (\E r \in Pings : Register(r) \/ Answer(r)) \/ Drop

Spec == Init /\ [][Next]_vars

=============================================================================
