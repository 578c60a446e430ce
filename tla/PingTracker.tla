---------------------------- MODULE PingTracker ----------------------------
(***************************************************************************)
(* The outstanding-ping tracker of the router CLI (cli/cli_ping.c) and the *)
(* parts of cli/cli.c it drives: the ping, ping_flood and shutdown        *)
(* handlers, the prompt suppression flag and the output focus.            *)
(*                                                                         *)
(* Four threads share the tracker:                                        *)
(*   - the command thread: whichever session thread holds parser_lock and *)
(*     runs a handler (commands are serialized, so one actor suffices);   *)
(*   - the scrubber thread (cli_ping_scrubber_main);                      *)
(*   - the packet-receive thread calling cli_ping_handle_reply;           *)
(*   - the clock (gettimeofday), which may also step back.                *)
(*                                                                         *)
(* ping_list is kept as the C code keeps it: a doubly-linked list of      *)
(* ping_t cells drawn from a heap of MaxRequests cells, with head, next and  *)
(* prev pointers; a freed cell keeps its stale contents.  A section of    *)
(* code that holds ping_list_lock and does not block is one step; the     *)
(* scrubber's expiry loop takes one step per expired ping and holds the   *)
(* lock (lock = "scrubber") between them.                                 *)
(***************************************************************************)
EXTENDS Naturals, Sequences, SequencesExt, FiniteSets

CONSTANTS
    Fds,            \* client socket fds that issue commands
    IPs,            \* addresses a ping or an echo reply may name
    SelfIPs,        \* addresses of the router's own interfaces
    NoIP,           \* filler for lines that name no address
    MaxRequests,    \* bound on cli_ping_request calls (and ping_t cells)
    MaxFlood,       \* largest count of a ping_flood command
    MaxCmds,        \* bound on dispatched commands
    WaitTicks,      \* PING_MAX_WAIT_FOR_REPLY_USEC, in clock ticks
    MaxTime,        \* the clock passes MaxTime only while a ping is pending
    MaxClockSteps,  \* bound on backward steps of the wall clock
    ShutdownAfterCmds  \* a shutdown may follow the MaxCmds commands

ASSUME /\ SelfIPs \subseteq IPs
       /\ MaxRequests \in Nat \ {0}
       /\ WaitTicks \in Nat \ {0}

Nil == 0
Nodes == 1..MaxRequests          \* malloc_or_die never fails within the bound
UInt16 == 65536                  \* ping_count is a uint16_t
Free == "free"

VARIABLES
    head, next, prev, ping, live,  \* ping_list and the ping_t heap
    pingCount,                     \* ping_count
    lock,                          \* ping_list_lock: Free, "scrubber" or "destroy"
    listFreed,                     \* cli_ping_destroy has freed the list
    scrub, scrubNow,               \* scrubber pc and its local `now`
    shutdown,                      \* router_shutdown
    focus, skipPrompt,             \* fd and skip_next_prompt of cli.c
    cli, cmd,                      \* command thread pc and its handler's locals
    net,                           \* reply in cli_ping_handle_reply, or NoReply
    now, clockSteps,               \* gettimeofday and its backward steps
    out,                           \* the lines written to each fd
    issued,                        \* history: every ping registered
    cmds                           \* history: commands dispatched

vars == <<head, next, prev, ping, live, pingCount, lock, listFreed,
          scrub, scrubNow, shutdown, focus, skipPrompt, cli, cmd, net,
          now, clockSteps, out, issued, cmds>>

Seqs == 0..MaxRequests - 1
Line(k) == [k |-> k, ip |-> NoIP, seq |-> 0]
PingLine(k, ip, s) == [k |-> k, ip |-> ip, seq |-> s]
Outcome == {"REPLY", "TIMEOUT"}
NoReply == [ip |-> NoIP, seq |-> 0]
NoCmd == [fd |-> CHOOSE f \in Fds : TRUE, ip |-> NoIP, left |-> 0, seq |-> 0]
Garbage == [fd |-> CHOOSE f \in Fds : TRUE, ip |-> NoIP, seq |-> 0, expire |-> 0]

\* Mutant: is_later true on equal timestamps (>= for >).
IsLaterOrEqual(t1, t2) == t1 >= t2

\* is_later() of sr_common.c on the model's clock ticks
IsLater(t1, t2) == t1 > t2

\* ping_list in the order the code walks it: from head along next.
RECURSIVE Chain(_, _)
Chain(n, fuel) == IF n = Nil \/ fuel = 0 THEN <<>>
                  ELSE <<n>> \o Chain(next[n], fuel - 1)
ListNodes == Chain(head, MaxRequests + 1)

\* writenf(fd, ...) of one line
Write(o, fd, line) == [o EXCEPT ![fd] = Append(@, line)]

\* cli_send_prompt(): the prompt goes to the focus fd unless suppressed once
SendPrompt(o) == IF skipPrompt THEN o ELSE Write(o, focus, Line("PROMPT"))

\* cli_ping_feedback(p, worked): the result to p->fd, then cli_send_prompt()
Feedback(p, kind) ==
    /\ out' = SendPrompt(Write(out, ping[p].fd, PingLine(kind, ping[p].ip, ping[p].seq)))
    /\ skipPrompt' = FALSE

\* Mutant: the signal is lost (a missing pthread_cond_signal).
SignalLost == scrub

\* pthread_cond_signal(&ping_list_cond): wakes the scrubber if it waits
SignalScrubber == IF scrub = "condwait" THEN "signaled" ELSE scrub

\* The process has called exit(1): no thread takes another step.
Exited == cli = "exited"

-----------------------------------------------------------------------------
(* ping_list operations, as the pointer code does them.                    *)

\* Lines 119-147: insert cell n before the first cell that expires later,
\* or at the end, or as the only cell.
InsertSorted(n, rec) ==
    LET L == ListNodes
        i == SelectInSeq(L, LAMBDA q : IsLater(ping[q].expire, rec.expire))
    IN  /\ ping' = [ping EXCEPT ![n] = rec]
        /\ IF i # 0
           THEN LET p == L[i] IN
                /\ head' = IF p = head THEN n ELSE head
                /\ next' = IF p = head THEN [next EXCEPT ![n] = p]
                           ELSE [next EXCEPT ![prev[p]] = n, ![n] = p]
                /\ prev' = [prev EXCEPT ![n] = prev[p], ![p] = n]
           ELSE IF L # <<>>
           THEN /\ head' = head
                /\ next' = [next EXCEPT ![Last(L)] = n, ![n] = Nil]
                /\ prev' = [prev EXCEPT ![n] = Last(L)]
           ELSE /\ head' = n
                /\ next' = [next EXCEPT ![n] = Nil]
                /\ prev' = [prev EXCEPT ![n] = Nil]

\* Mutant: the successor's prev pointer is not updated (line 202 dropped).
UnlinkNoPrevFix(p) ==
    /\ head' = IF p = head THEN next[p] ELSE head
    /\ next' = IF p = head THEN next ELSE [next EXCEPT ![prev[p]] = next[p]]
    /\ UNCHANGED prev

\* Lines 196-202: unlink cell p found by the reply handler.
Unlink(p) ==
    /\ head' = IF p = head THEN next[p] ELSE head
    /\ next' = IF p = head THEN next ELSE [next EXCEPT ![prev[p]] = next[p]]
    /\ prev' = IF next[p] # Nil THEN [prev EXCEPT ![next[p]] = prev[p]] ELSE prev

\* Lines 246-248: the scrubber pops the head; the new head's prev is left
\* pointing at the freed cell.
PopHead ==
    /\ head' = next[head]
    /\ UNCHANGED <<next, prev>>

-----------------------------------------------------------------------------
(* The scrubber thread, cli_ping_scrubber_main (lines 223-280).            *)

\* Lines 232-274 entered with the lock held: look for expired pings while
\* the list is non-empty and no shutdown is on, else pthread_cond_wait.
ScrubberInner ==
    IF head # Nil /\ ~shutdown
    THEN /\ scrub' = "expire" /\ scrubNow' = now /\ lock' = "scrubber"
    ELSE /\ scrub' = "condwait" /\ lock' = Free /\ UNCHANGED scrubNow

\* Line 230 on start, or the return from pthread_cond_wait (line 274): take
\* the lock and test the outer loop (line 231).  On shutdown, signal
\* ping_scrubber_off_cond, unlock and end (lines 277-279).
ScrubberLock ==
    /\ ~Exited
    /\ scrub \in {"init", "signaled"}
    /\ lock = Free
    /\ IF shutdown
       THEN /\ scrub' = "done"
            /\ cli' = IF cli = "offwait" THEN "offwoken" ELSE cli
            /\ UNCHANGED <<lock, scrubNow>>
       ELSE /\ ScrubberInner
            /\ UNCHANGED cli
    /\ UNCHANGED <<head, next, prev, ping, live, pingCount, listFreed,
                   shutdown, focus, skipPrompt, cmd, net, now, clockSteps,
                   out, issued, cmds>>

\* Line 270: select() returned; retake the lock and test the inner loop.
ScrubberSelectReturn ==
    /\ ~Exited
    /\ scrub = "select"
    /\ lock = Free
    /\ ScrubberInner
    /\ UNCHANGED <<head, next, prev, ping, live, pingCount, listFreed,
                   shutdown, focus, skipPrompt, cli, cmd, net, now,
                   clockSteps, out, issued, cmds>>

\* Lines 235-268: one turn of the expiry loop (its local `now` is dead
\* once the loop ends, and is cleared).  An expired head is reported
\* and freed; a list left empty sends the scrubber to pthread_cond_wait; a
\* head not yet expired ends the loop and the scrubber unlocks and sleeps.
ScrubberExpire ==
    /\ ~Exited
    /\ scrub = "expire"
    /\ IF IsLater(scrubNow, ping[head].expire)
       THEN /\ Feedback(head, "TIMEOUT")
            /\ PopHead
            /\ live' = live \ {head}
            /\ IF next[head] = Nil
               THEN scrub' = "condwait" /\ lock' = Free /\ scrubNow' = 0
               ELSE UNCHANGED <<scrub, lock, scrubNow>>
       ELSE /\ scrub' = "select" /\ lock' = Free /\ scrubNow' = 0
            /\ UNCHANGED <<head, next, prev, live, out, skipPrompt>>
    /\ UNCHANGED <<ping, pingCount, listFreed, shutdown,
                   focus, cli, cmd, net, now, clockSteps, issued, cmds>>

-----------------------------------------------------------------------------
(* The command thread: one handler at a time under parser_lock.           *)

\* cli_client_handle_request case 0: cli_focus_set, then the parser runs
\* one command: cli_ping (cli.c 384-390), cli_ping_flood (392-406),
\* cli_shutdown (408-413), or any other command answering one line.
Dispatch(c, kind, ip, n) ==
    /\ cli = "idle"
    /\ cmds < MaxCmds \/ (kind = "shutdown" /\ ShutdownAfterCmds)
    /\ cmds' = cmds + 1
    /\ focus' = c
    /\ CASE kind \in {"ping", "flood"} ->
              \* cli_ping_handle_self short-circuits a ping to the router
              IF ip \in SelfIPs
              THEN /\ out' = Write(out, c, Line("SELF"))
                   /\ cli' = "prompt"
                   /\ UNCHANGED <<cmd, shutdown>>
              ELSE /\ pingCount + n <= MaxRequests
                   /\ out' = IF kind = "flood" THEN Write(out, c, Line("WILL"))
                             ELSE out
                   /\ cmd' = [fd |-> c, ip |-> ip, left |-> n, seq |-> 0]
                   /\ cli' = IF n = 0 THEN "skip" ELSE "request"
                   /\ UNCHANGED shutdown
         [] kind = "shutdown" ->
              /\ out' = Write(out, c, Line("BYE"))
              /\ shutdown' = TRUE
              /\ cli' = "destroy"
              /\ UNCHANGED cmd
         [] kind = "other" ->
              /\ out' = Write(out, c, Line("RESP"))
              /\ cli' = "prompt"
              /\ UNCHANGED <<cmd, shutdown>>
    /\ UNCHANGED <<head, next, prev, ping, live, pingCount, lock,
                   listFreed, scrub, scrubNow, skipPrompt, net, now,
                   clockSteps, issued>>

\* Mutant: seq taken after the increment (an off-by-one on ping_count).
RequestPreIncrement ==
    /\ cli = "request"
    /\ lock = Free
    /\ LET n   == CHOOSE x \in Nodes \ live : TRUE
           rec == [fd |-> cmd.fd, ip |-> cmd.ip, seq |-> (pingCount + 1) % UInt16,
                   expire |-> now + WaitTicks]
       IN  /\ InsertSorted(n, rec)
           /\ live' = live \cup {n}
           /\ issued' = issued \cup {[fd |-> rec.fd, ip |-> rec.ip, seq |-> rec.seq]}
           /\ cmd' = [cmd EXCEPT !.seq = rec.seq]
    /\ pingCount' = (pingCount + 1) % UInt16
    /\ scrub' = SignalScrubber
    /\ cli' = "notify"
    /\ UNCHANGED <<lock, listFreed, scrubNow, shutdown, focus,
                   skipPrompt, net, now, clockSteps, out, cmds>>

\* Mutant: ping_count is never incremented (line 107 dropped).
RequestNoIncrement ==
    /\ cli = "request"
    /\ lock = Free
    /\ LET n   == CHOOSE x \in Nodes \ live : TRUE
           rec == [fd |-> cmd.fd, ip |-> cmd.ip, seq |-> pingCount % UInt16,
                   expire |-> now + WaitTicks]
       IN  /\ InsertSorted(n, rec)
           /\ live' = live \cup {n}
           /\ issued' = issued \cup {[fd |-> rec.fd, ip |-> rec.ip, seq |-> rec.seq]}
           /\ cmd' = [cmd EXCEPT !.seq = rec.seq]
    /\ UNCHANGED pingCount
    /\ scrub' = SignalScrubber
    /\ cli' = "notify"
    /\ UNCHANGED <<lock, listFreed, scrubNow, shutdown, focus,
                   skipPrompt, net, now, clockSteps, out, cmds>>

\* cli_ping_request lines 88-150, under ping_list_lock: a new ping_t with
\* seq = ping_count and expiry now + the wait window, inserted in expiry
\* order; ping_count += 1; the scrubber is signalled.
Request ==
    /\ cli = "request"
    /\ lock = Free
    /\ LET n   == CHOOSE x \in Nodes \ live : TRUE
           rec == [fd |-> cmd.fd, ip |-> cmd.ip, seq |-> pingCount % UInt16,
                   expire |-> now + WaitTicks]
       IN  /\ InsertSorted(n, rec)
           /\ live' = live \cup {n}
           /\ issued' = issued \cup {[fd |-> rec.fd, ip |-> rec.ip, seq |-> rec.seq]}
           /\ cmd' = [cmd EXCEPT !.seq = rec.seq]
    /\ pingCount' = (pingCount + 1) % UInt16
    /\ scrub' = SignalScrubber
    /\ cli' = "notify"
    /\ UNCHANGED <<lock, listFreed, scrubNow, shutdown, focus,
                   skipPrompt, net, now, clockSteps, out, cmds>>

\* cli_ping_request lines 153-158, after the unlock: "PING <ip>" to fd.
\* cli_ping_flood loops back for its next request.
Notify ==
    /\ cli = "notify"
    /\ out' = Write(out, cmd.fd, PingLine("PING", cmd.ip, cmd.seq))
    /\ cmd' = [cmd EXCEPT !.left = @ - 1]
    /\ cli' = IF cmd.left > 1 THEN "request" ELSE "skip"
    /\ UNCHANGED <<head, next, prev, ping, live, pingCount, lock,
                   listFreed, scrub, scrubNow, shutdown, focus,
                   skipPrompt, net, now, clockSteps, issued, cmds>>

\* cli.c 389 / 405: skip_next_prompt = TRUE after a ping was sent.
SetSkip ==
    /\ cli = "skip"
    /\ skipPrompt' = TRUE
    /\ cli' = "prompt"
    /\ UNCHANGED <<head, next, prev, ping, live, pingCount, lock,
                   listFreed, scrub, scrubNow, shutdown, focus, cmd,
                   net, now, clockSteps, out, issued, cmds>>

\* The parser's cli_send_prompt() after the handler returns (the
\* handler's locals are dead and cleared).
ParserPrompt ==
    /\ cli = "prompt"
    /\ out' = SendPrompt(out)
    /\ skipPrompt' = FALSE
    /\ cli' = "idle"
    /\ cmd' = NoCmd
    /\ UNCHANGED <<head, next, prev, ping, live, pingCount, lock,
                   listFreed, scrub, scrubNow, shutdown, focus,
                   net, now, clockSteps, issued, cmds>>

\* cli_ping_destroy lines 62-64: lock, signal ping_list_cond once, and wait
\* on ping_scrubber_off_cond (which releases the lock).
DestroySignal ==
    /\ cli = "destroy"
    /\ lock = Free
    /\ scrub' = SignalScrubber
    /\ cli' = "offwait"
    /\ UNCHANGED <<head, next, prev, ping, live, pingCount, lock,
                   listFreed, scrubNow, shutdown, focus, skipPrompt,
                   cmd, net, now, clockSteps, out, issued, cmds>>

\* cli_ping_destroy lines 64-75 once woken: pthread_cond_wait returns with
\* ping_list_lock retaken, every cell is freed, and the lock is never
\* unlocked: pthread_mutex_destroy of the held mutex fails with EBUSY
\* (glibc), its result is ignored, and the lock stays held by this thread.
\* Then cli_shutdown raises SIGINT and returns.
DestroyFinish ==
    /\ cli = "offwoken"
    /\ lock = Free
    /\ lock' = "destroy"
    /\ head' = Nil
    /\ live' = {}
    /\ listFreed' = TRUE
    /\ cli' = "raised"
    /\ UNCHANGED <<next, prev, ping, pingCount, scrub, scrubNow,
                   shutdown, focus, skipPrompt, cmd, net, now, clockSteps,
                   out, issued, cmds>>

\* cli_client_handler_main lines 134-136: the session sees router_shutdown
\* and calls exit(1); every thread stops.
Exit ==
    /\ cli = "raised"
    /\ cli' = "exited"
    /\ UNCHANGED <<head, next, prev, ping, live, pingCount, lock,
                   listFreed, scrub, scrubNow, shutdown, focus,
                   skipPrompt, cmd, net, now, clockSteps, out, issued, cmds>>

-----------------------------------------------------------------------------
(* The packet-receive thread: cli_ping_handle_reply (lines 180-221).       *)

\* Lines 184-185: an echo reply (any remote address, any sequence number: late,
\* duplicated and unmatched replies included) passes the unlocked
\* router_shutdown test.
ReplyArrives(ip, s) ==
    /\ ~Exited
    /\ net = NoReply
    /\ ~shutdown
    /\ net' = [ip |-> ip, seq |-> s]
    /\ UNCHANGED <<head, next, prev, ping, live, pingCount, lock,
                   listFreed, scrub, scrubNow, shutdown, focus,
                   skipPrompt, cli, cmd, now, clockSteps, out, issued, cmds>>

\* Mutant: the matching cell is reported and freed but never unlinked.
ReplyMatchNoUnlink ==
    /\ ~Exited
    /\ net # NoReply
    /\ lock = Free
    /\ LET L == ListNodes
           i == SelectInSeq(L, LAMBDA q : ping[q].ip = net.ip /\ ping[q].seq = net.seq)
       IN  IF i # 0
           THEN /\ Feedback(L[i], "REPLY")
                /\ UNCHANGED <<head, next, prev, live>>
           ELSE UNCHANGED <<head, next, prev, live, out, skipPrompt>>
    /\ net' = NoReply
    /\ UNCHANGED <<ping, pingCount, lock, listFreed, scrub, scrubNow,
                   shutdown, focus, cli, cmd, now, clockSteps, issued, cmds>>

\* Lines 188-220 under the lock: unlink and report the first cell with the
\* same address and sequence number; an unmatched reply is only logged.
ReplyMatch ==
    /\ ~Exited
    /\ net # NoReply
    /\ lock = Free
    /\ LET L == ListNodes
           i == SelectInSeq(L, LAMBDA q : ping[q].ip = net.ip /\ ping[q].seq = net.seq)
       IN  IF i # 0
           THEN /\ Unlink(L[i])
                /\ Feedback(L[i], "REPLY")
                /\ live' = live \ {L[i]}
           ELSE UNCHANGED <<head, next, prev, live, out, skipPrompt>>
    /\ net' = NoReply
    /\ UNCHANGED <<ping, pingCount, lock, listFreed, scrub, scrubNow,
                   shutdown, focus, cli, cmd, now, clockSteps, issued, cmds>>

-----------------------------------------------------------------------------
(* The wall clock read by gettimeofday.                                    *)

Tick ==
    /\ ~Exited
    /\ \/ now < MaxTime
       \/ \E n \in live : ~IsLater(now, ping[n].expire)
    /\ now' = now + 1
    /\ UNCHANGED <<head, next, prev, ping, live, pingCount, lock,
                   listFreed, scrub, scrubNow, shutdown, focus,
                   skipPrompt, cli, cmd, net, clockSteps, out, issued, cmds>>

\* gettimeofday is not monotonic: an adjustment may set it back.
StepBack ==
    /\ ~Exited
    /\ now > 0
    /\ clockSteps < MaxClockSteps
    /\ now' = now - 1
    /\ clockSteps' = clockSteps + 1
    /\ UNCHANGED <<head, next, prev, ping, live, pingCount, lock,
                   listFreed, scrub, scrubNow, shutdown, focus,
                   skipPrompt, cli, cmd, net, out, issued, cmds>>

-----------------------------------------------------------------------------

\* cli_init and cli_ping_init: an empty list, no shutdown, ping_count 0.
Init ==
    /\ head = Nil
    /\ next = [n \in Nodes |-> Nil]
    /\ prev = [n \in Nodes |-> Nil]
    /\ ping = [n \in Nodes |-> Garbage]
    /\ live = {}
    /\ pingCount = 0
    /\ lock = Free
    /\ listFreed = FALSE
    /\ scrub = "init"
    /\ scrubNow = 0
    /\ shutdown = FALSE
    /\ focus \in Fds
    /\ skipPrompt = FALSE
    /\ cli = "idle"
    /\ cmd = NoCmd
    /\ net = NoReply
    /\ now = 0
    /\ clockSteps = 0
    /\ out = [c \in Fds |-> <<>>]
    /\ issued = {}
    /\ cmds = 0

\* After exit(1) no thread runs: the process ends in a final state.
Next ==
    \/ ScrubberLock \/ ScrubberSelectReturn \/ ScrubberExpire
    \/ \E c \in Fds, ip \in IPs :
          \/ Dispatch(c, "ping", ip, 1)
          \/ \E n \in 0..MaxFlood : Dispatch(c, "flood", ip, n)
    \/ \E c \in Fds : Dispatch(c, "shutdown", NoIP, 0) \/ Dispatch(c, "other", NoIP, 0)
    \/ Request \/ Notify \/ SetSkip \/ ParserPrompt
    \/ DestroySignal \/ DestroyFinish \/ Exit
    \/ \E ip \in IPs \ SelfIPs, s \in Seqs : ReplyArrives(ip, s)
    \/ ReplyMatch
    \/ Tick \/ StepBack

\* Threads that can run are eventually scheduled, select() returns, and
\* the clock advances; commands and replies need not come.
Fairness ==
    /\ WF_vars(ScrubberLock) /\ WF_vars(ScrubberSelectReturn) /\ WF_vars(ScrubberExpire)
    /\ WF_vars(Request) /\ WF_vars(Notify) /\ WF_vars(SetSkip) /\ WF_vars(ParserPrompt)
    /\ WF_vars(DestroySignal) /\ WF_vars(DestroyFinish) /\ WF_vars(Exit)
    /\ WF_vars(ReplyMatch) /\ WF_vars(Tick)

Spec == Init /\ [][Next]_vars /\ Fairness

-----------------------------------------------------------------------------
(* Properties.                                                             *)

PingRec == [fd : Fds, ip : IPs, seq : Seqs]
Line2 == [k : {"PING", "REPLY", "TIMEOUT", "PROMPT", "SELF", "WILL", "BYE", "RESP"},
          ip : IPs \cup {NoIP}, seq : Seqs]

TypeOK ==
    /\ head \in Nodes \cup {Nil}
    /\ next \in [Nodes -> Nodes \cup {Nil}]
    /\ prev \in [Nodes -> Nodes \cup {Nil}]
    /\ live \subseteq Nodes
    /\ pingCount \in 0..MaxRequests
    /\ lock \in {Free, "scrubber", "destroy"}
    /\ scrub \in {"init", "expire", "select", "condwait", "signaled", "done"}
    /\ cli \in {"idle", "request", "notify", "skip", "prompt", "destroy",
                "offwait", "offwoken", "raised", "exited"}
    /\ focus \in Fds
    /\ out \in [Fds -> Seq(Line2)]
    /\ issued \subseteq PingRec

\* The pointer code keeps ping_list a well-formed list sorted by expiry:
\* walking next from head visits every allocated ping_t exactly once and
\* ends in NULL, each cell but the head has prev pointing at the cell
\* before it, and expiry times never decrease along the list (insertion in
\* cli_ping_request, unlinking in cli_ping_handle_reply, popping in the
\* scrubber, under a clock that may step back).
PingListIntact ==
    LET L == ListNodes IN
    /\ Len(L) = Cardinality(live)
    /\ ToSet(L) = live
    /\ \A i \in 2..Len(L) : prev[L[i]] = L[i - 1]
    /\ \A i, j \in 1..Len(L) : i < j => ping[L[i]].expire <= ping[L[j]].expire

\* Pings that expire at the same instant stay on ping_list in the order
\* they were sent (ping_count order): cli_ping_request inserts a new ping
\* only before a cell that is_later than it, so equal expiries keep their
\* arrival order through every insert, unlink and pop, and the scrubber
\* times them out, and reports them, in the order they were sent.
EqualExpiryKeepsSendOrder ==
    LET L == ListNodes IN
    \A i, j \in 1..Len(L) :
        (i < j /\ ping[L[i]].expire = ping[L[j]].expire) => ping[L[i]].seq < ping[L[j]].seq

Outcomes(r) == {i \in 1..Len(out[r.fd]) :
                    /\ out[r.fd][i].k \in Outcome
                    /\ out[r.fd][i].ip = r.ip /\ out[r.fd][i].seq = r.seq}
Pending(r) == \E n \in live : ping[n].fd = r.fd /\ ping[n].ip = r.ip /\ ping[n].seq = r.seq

\* Every registered ping is either still on ping_list with no REPLY or
\* TIMEOUT written for it, or off the list with exactly one of them written
\* to its fd (the scrubber, the reply handler and cli_ping_request race on
\* it); only cli_ping_destroy drops a ping silently.
EachPingAnsweredOnce ==
    \A r \in issued :
        /\ Cardinality(Outcomes(r)) <= 1
        /\ Pending(r) => Outcomes(r) = {}
        /\ (~Pending(r) /\ ~listFreed) => Outcomes(r) # {}

\* Every ping the scrubber is told about is eventually answered, by a
\* REPLY or a TIMEOUT line, unless the router shuts down first.
PingEventuallyAnswered ==
    \A r \in PingRec : (r \in issued) ~> (Outcomes(r) # {} \/ shutdown)

\* The tracker implements the abstract PingSet: the pings on ping_list are
\* the pending set, and a ping is answered once a REPLY or TIMEOUT line for
\* it has been written.  Every step of the three threads either registers
\* one ping unique by (ip, seq) (ping_count), answers one pending ping
\* (unlink or pop together with cli_ping_feedback), drops them all
\* (cli_ping_destroy), or leaves both sets alone.
PendingPings == {[fd |-> ping[n].fd, ip |-> ping[n].ip, seq |-> ping[n].seq] : n \in live}
Abstract == INSTANCE PingSet WITH
    Pings <- PingRec,
    pending <- PendingPings,
    answered <- {r \in issued : Outcomes(r) # {}}
ImplementsPingSet == Abstract!Spec

\* cli_shutdown returns and the process exits once shutdown is requested
\* (cli_ping_destroy waits for the scrubber to stop).
ShutdownCompletes == shutdown ~> Exited

\* On every connection the "PING <ip>" notice of a ping comes before its
\* REPLY or TIMEOUT line (spec §8 scenario A).
PingNoticeBeforeOutcome ==
    \A c \in Fds : \A i \in 1..Len(out[c]) :
        out[c][i].k \in Outcome =>
            \E j \in 1..(i - 1) : out[c][j] = PingLine("PING", out[c][i].ip, out[c][i].seq)

\* A connection that never sent a ping gets one prompt per command: a
\* prompt never directly follows another prompt there.  Ping results are
\* written to the connection that owns the ping together with a fresh
\* prompt (spec §4.3) and never into another connection's output (§5).
NoPromptForOthersPing ==
    \A c \in Fds :
        (\A i \in 1..Len(out[c]) : out[c][i].k # "PING") =>
            \A i \in 1..(Len(out[c]) - 1) :
                out[c][i].k = "PROMPT" => out[c][i + 1].k # "PROMPT"

=============================================================================
