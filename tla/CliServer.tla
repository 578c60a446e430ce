----------------------------- MODULE CliServer -----------------------------
(***************************************************************************)
(* The CLI server (cli/cli_main.c) and the output focus of cli/cli.c.      *)
(*                                                                         *)
(* The accept thread hands each client the lowest free descriptor and     *)
(* starts a session thread.  A session reads until a newline, then takes  *)
(* parser_lock, points the output focus (fd, fd_alive, pverbose) at itself *)
(* and runs one command; the parser's closing prompt and its return value *)
(* (the focus still alive) decide whether the session goes on.            *)
(*                                                                         *)
(* Ping results come from a feedback thread that stands for the scrubber  *)
(* and the reply handler of cli_ping.c: it writes the result to the fd    *)
(* saved in the ping, then calls cli_send_prompt() on the global focus    *)
(* without parser_lock.  How the tracker orders and matches pings is      *)
(* PingTracker.tla; here a pending ping is its id and its fd.             *)
(*                                                                         *)
(* Before any of this the main thread starts the router (sr_main.c,      *)
(* sr_base.c): it reads the interface file into the interface table that  *)
(* cli_ping_handle_self searches, starts the network thread, and calls    *)
(* cli_main, which binds the CLI port.                                     *)
(*                                                                         *)
(* A step under parser_lock that does not block is one action; the parser *)
(* runs the handler in one step and returns in another, so the feedback  *)
(* thread can run between them, as it can in the code.                    *)
(***************************************************************************)
EXTENDS Naturals, Sequences, FiniteSets, FiniteSetsExt

CONSTANTS
    NumConns,     \* clients that connect, numbered in accept order
    NumFds,       \* descriptors accept() can hand out
    MaxBuf,       \* CLI_MAX_BUF, counted in reads: the buffer's ceiling
    MaxPings,     \* bound on cli_ping_request calls
    MaxCmds,      \* bound on commands dispatched
    FloodCounts,  \* counts a ping_flood command may carry
    IntfFile,     \* the IP column of the interface file, line by line
    Addrs,        \* the addresses a ping command may name
    Unset,        \* what the never-written interface[0].ip may hold
    RouterMaxInterfaces  \* ROUTER_MAX_INTERFACES (sr_router.h:30)

\* num_interfaces starts at 1 and router_add_interface has no bound check:
\* a file of RouterMaxInterfaces lines writes past the array.
ASSUME Len(IntfFile) < RouterMaxInterfaces

Conns == 1..NumConns
Fds == 1..NumFds
None == 0         \* parser_lock free; pverbose NULL; the static fd before any focus
Kinds == {"show", "bad", "intf_set", "manip", "verbose_on", "verbose_off", "exit", "ping", "flood", "shutdown"}
\* router_t.interface[ROUTER_MAX_INTERFACES] (sr_router.h 30-36)
IntfIdx == 0..(RouterMaxInterfaces - 1)

VARIABLES
    sess,       \* each client's session thread: new, first, welcome, loop, cmd1, cmd,
                \* ret1, retLive, retDead (returned, before the checks),
                \* hung (blocked on ping_list_lock for good), closed
    fdOf,       \* client->fd
    peer,       \* the client's end of the socket: open or gone
    used,       \* client->state.used, counted in reads
    verbose,    \* client->verbose
    parser,     \* holder of parser_lock
    focus,      \* fd of cli.c
    fdAlive,    \* fd_alive of cli.c
    pverbose,   \* pverbose of cli.c: the client whose flag it points at
    skip,       \* skip_next_prompt
    shutdown,   \* router_shutdown
    acc,        \* the main thread: init, intf, cli, then the accept loop, done
    numIntf,    \* router->num_interfaces
    intfIp,     \* router->interface[i].ip
    exited,     \* the process has ended
    pending,    \* pings registered and not yet answered: [id, fd]
    owner,      \* history: owner[i] is the client whose command sent ping i
    fb,         \* the feedback thread: idle, prompt (result written), write
    fbFd,       \* the fd its cli_send_str read from the focus
    got,        \* history: ids of the ping results each client received
    why,        \* history: why each session ended
    quit,       \* history: the client sent the exit command
    cmds        \* history: commands dispatched

vars == <<sess, fdOf, peer, used, verbose, parser, focus, fdAlive, pverbose,
          skip, shutdown, acc, numIntf, intfIp, exited, pending, owner, fb, fbFd, got, why,
          quit, cmds>>

Live(c) == sess[c] \notin {"new", "closed"}
Holders(f) == {c \in Conns : Live(c) /\ fdOf[c] = f}
\* writenstr(f, ...) succeeds while f is open and its client is still there
WriteOK(f) == \E c \in Holders(f) : peer[c] = "open"
FreeFds == Fds \ {fdOf[c] : c \in {d \in Conns : Live(d)}}

-----------------------------------------------------------------------------
(* Reading a line (socket_helper is not in src/; its results are the ones *)
(* cli_client_handle_request switches on).                                 *)

\* read_search: a read brings part of a line, the rest of a line, EOF or an
\* error; bytes read are counted in used.
ReadSearch(chunk) ==
    CASE chunk = "line" -> 0 [] chunk = "part" -> -3
      [] chunk = "eof" -> 1 [] chunk = "error" -> -1
Chunks(c) == IF peer[c] = "open" THEN {"part", "line"} ELSE {"eof", "error"}
NewUsed(c, chunk) == IF chunk \in {"part", "line"} THEN used[c] + 1 ELSE used[c]

\* Mutant: the ceiling test one read late.
GrowIfFullLate(u) == IF u > MaxBuf THEN 2 ELSE 0

\* search_state_grow_if_full: 2 once the buffer is at its ceiling.
GrowIfFull(u) == IF u >= MaxBuf THEN 2 ELSE 0

\* cli_client_handle_request lines 53-58: a full buffer overrides the read.
HandleRet(c, chunk) ==
    IF GrowIfFull(NewUsed(c, chunk)) \in {2, -1} THEN -2 ELSE ReadSearch(chunk)

\* Mutant: EOF (case 1) taken for a client still alive.
HandleAliveOnEof(ret) == ret \in {-3, 1}

\* Lines 63-97 for every result but 0: only a partial line keeps the client.
HandleAlive(ret) == ret = -3
Reason(ret) == CASE ret = -2 -> "overflow" [] ret = -1 -> "error"
                 [] ret = 1 -> "eof" [] OTHER -> "none"

\* What cli_client_handler_main does with the result res of a request:
\* the first call's result is ignored and the buffer reset (lines 120-121);
\* later, exit(1) if router_shutdown is set (134-136), cleanup and thread
\* exit if !res (140-144), else read again.
AfterRequest(c, res, u, reason) ==
    IF sess[c] \in {"first", "ret1"}
    THEN /\ sess' = [sess EXCEPT ![c] = "welcome"]
         /\ used' = [used EXCEPT ![c] = 0]
         /\ UNCHANGED <<exited, why>>
    ELSE IF shutdown
    THEN /\ exited' = TRUE
         /\ used' = [used EXCEPT ![c] = u]
         /\ UNCHANGED <<sess, why>>
    ELSE /\ sess' = [sess EXCEPT ![c] = IF res THEN "loop" ELSE "closed"]
         /\ used' = [used EXCEPT ![c] = u]
         /\ why' = IF res THEN why ELSE [why EXCEPT ![c] = reason]
         /\ UNCHANGED exited

\* A request that dispatches nothing: partial line, full buffer, EOF, error.
ReadNoLine(c, chunk) ==
    /\ ~exited
    /\ sess[c] \in {"first", "loop"}
    /\ chunk \in Chunks(c)
    /\ HandleRet(c, chunk) # 0
    /\ AfterRequest(c, HandleAlive(HandleRet(c, chunk)), NewUsed(c, chunk),
                    Reason(HandleRet(c, chunk)))
    /\ UNCHANGED <<fdOf, peer, verbose, parser, focus, fdAlive, pverbose, skip,
                   shutdown, acc, numIntf, intfIp, pending, owner, fb, fbFd, got, quit, cmds>>


-----------------------------------------------------------------------------
(* The handlers of cli.c, run by the session c that holds parser_lock     *)
(* right after cli_focus_set (fd_alive TRUE, fd and pverbose its own).    *)

\* cli_focus_set (cli.c 116-120): the fd and verbose flag handlers use.
FocusSet(c) == [fd |-> fdOf[c], pverbose |-> c]

\* cli_send_str (cli.c 71-75) right after cli_focus_set: fd_alive stays
\* TRUE unless the write fails.
SendStr(c) == fdAlive' = WriteOK(fdOf[c])

\* cli_ping_request, once per ping (cli_ping.c 103-111): the ping keeps
\* the requesting fd and the address; its PING notice is written with
\* writenf, whose failure touches nothing.
Register(c, a, n) ==
    /\ Len(owner) + n <= MaxPings
    /\ owner' = owner \o [i \in 1..n |-> c]
    /\ pending' = pending \cup {[id |-> Len(owner) + i, fd |-> fdOf[c], addr |-> a] : i \in 1..n}

\* Mutant: the scan stops one entry short (i < num_interfaces - 1).
HandleSelfShort(a) == \E i \in 0..(numIntf - 2) : intfIp[i] = a

\* cli_ping_handle_self (cli.c 367-381): the address is one of
\* interface[0 .. num_interfaces-1], interface[0] included.
HandleSelf(a) == \E i \in 0..(numIntf - 1) : intfIp[i] = a

\* cli_ping and cli_ping_flood (cli.c 384-406): an own address is answered
\* by cli_ping_handle_self with one line; otherwise the pings are sent and
\* the next prompt skipped.  A flood first writes "Will ping" with
\* writenf, whose failure clears fd_alive.
CliPing(c, a, n, isFlood) ==
    IF HandleSelf(a)
    THEN SendStr(c) /\ UNCHANGED <<skip, pending, owner>>
    ELSE /\ fdAlive' = (~isFlood \/ WriteOK(fdOf[c]))
         /\ Register(c, a, n)
         /\ skip' = TRUE

\* cli_shutdown (cli.c 408-413): router_shutdown, then cli_ping_destroy
\* drops every pending ping (its wait is PingTracker's) and returns still
\* holding ping_list_lock, then raise(SIGINT).  No SIGINT handler is
\* installed in src/: the default action may end the process at once.
CliShutdown(c) ==
    /\ SendStr(c)
    /\ shutdown' = TRUE
    /\ pending' = {}
    /\ exited' \in BOOLEAN

\* The show handlers (cli.c 159-291: cli_show_all, cli_show_ip,
\* cli_show_opt_verbose, cli_show_ospf ...), cli_date, cli_traceroute and
\* cli_send_parse_error (128-146) only write lines to the focus.
CliShow(c) ==
    /\ SendStr(c)
    /\ UNCHANGED <<verbose, skip, shutdown, exited, pending, owner, quit>>

\* router_lookup_interface_via_name (sr_router.c 94-98) always returns NULL.
RouterLookupInterfaceViaName == "NULL"

\* The manip handlers (cli.c 293-351) are empty but cli_manip_ip_intf_set,
\* which finds no interface and answers "... is not a valid interface".
CliManip(c, intfSet) ==
    /\ fdAlive' = IF intfSet /\ RouterLookupInterfaceViaName = "NULL"
                  THEN WriteOK(fdOf[c]) ELSE TRUE
    /\ UNCHANGED <<verbose, skip, shutdown, exited, pending, owner, quit>>

\* cli_opt_verbose (cli.c 419-436): *pverbose takes the requested value,
\* with a line saying whether it changed.
CliOptVerbose(c, on) ==
    /\ verbose' = [verbose EXCEPT ![FocusSet(c).pverbose] = on]
    /\ SendStr(c)
    /\ UNCHANGED <<skip, shutdown, exited, pending, owner, quit>>

\* cli_exit (cli.c 362-365): "Goodbye!", then fd_alive = FALSE.
CliExit(c) ==
    /\ fdAlive' = FALSE
    /\ quit' = [quit EXCEPT ![c] = TRUE]
    /\ UNCHANGED <<verbose, skip, shutdown, exited, pending, owner>>

\* Once cli_shutdown has run, ping_list_lock is held for good (cli_ping.c
\* 64-73: destroying the held mutex fails with EBUSY).  A command that
\* then locks it blocks forever under parser_lock: a second cli_shutdown
\* at cli_ping_destroy (cli_ping.c 62), a ping or a non-empty flood to a
\* remote address at cli_ping_request (cli_ping.c 88).
BlocksOnPingLock(k, a, n) ==
    /\ shutdown
    /\ \/ k = "shutdown"
       \/ k = "ping" /\ ~HandleSelf(a)
       \/ k = "flood" /\ ~HandleSelf(a) /\ n > 0

\* What such a command has done before it blocks: cli_shutdown's line
\* (cli.c 409), or ping_flood's "Will ping" line (cli.c 399-400).
Blocked(c, k) ==
    /\ fdAlive' = IF k = "ping" THEN TRUE ELSE WriteOK(fdOf[c])
    /\ UNCHANGED <<verbose, skip, shutdown, exited, pending, owner, quit>>

\* The parser (not in src/) runs the handler of the command on the line.
Handler(c, k, a, n) ==
    \/ k \in {"show", "bad"} /\ CliShow(c)
    \/ k \in {"intf_set", "manip"} /\ CliManip(c, k = "intf_set")
    \/ k = "verbose_on" /\ CliOptVerbose(c, TRUE)
    \/ k = "verbose_off" /\ CliOptVerbose(c, FALSE)
    \/ k = "exit" /\ CliExit(c)
    \/ /\ k \in {"ping", "flood"}
       /\ CliPing(c, a, IF k = "ping" THEN 1 ELSE n, k = "flood")
       /\ UNCHANGED <<verbose, shutdown, exited, quit>>
    \/ k = "shutdown" /\ CliShutdown(c) /\ UNCHANGED <<verbose, skip, owner, quit>>

\* cli_client_handle_request case 0 (cli_main.c 86-90): a whole line has
\* arrived; lock parser_lock, cli_focus_set, and the parser runs one
\* command (the parser consumes the line).
ReadLine(c, k, a, n) ==
    /\ ~exited
    /\ sess[c] \in {"first", "loop"}
    /\ peer[c] = "open"
    /\ HandleRet(c, "line") = 0
    /\ parser = None
    /\ cmds < MaxCmds
    /\ parser' = c
    /\ focus' = FocusSet(c).fd
    /\ pverbose' = FocusSet(c).pverbose
    /\ IF BlocksOnPingLock(k, a, n) THEN Blocked(c, k) ELSE Handler(c, k, a, n)
    /\ sess' = [sess EXCEPT ![c] = IF BlocksOnPingLock(k, a, n) THEN "hung"
                                   ELSE IF sess[c] = "first" THEN "cmd1" ELSE "cmd"]
    /\ used' = [used EXCEPT ![c] = 0]
    /\ cmds' = cmds + 1
    /\ UNCHANGED <<fdOf, peer, acc, numIntf, intfIp, fb, fbFd, got, why>>

\* cli_parser_handle_client (not in src/) ends each command with
\* cli_send_prompt and returns whether the focus is still alive.
ParserReturns(alive) == alive

\* cli_send_prompt (cli.c 152-157) in one step: fd_alive after it.  The
\* prompt is written unless skip_next_prompt is set; the flag is cleared.
SendPrompt == fdAlive /\ (skip \/ WriteOK(focus))

\* The parser's closing cli_send_prompt, its return value and the unlock
\* (cli_main.c 90-92).  The session keeps the value it returns (ret1 for
\* the first request, whose value is ignored); other sessions may take
\* parser_lock before it runs the loop's checks.
CmdReturn(c) ==
    /\ ~exited
    /\ sess[c] \in {"cmd1", "cmd"}
    /\ fdAlive' = SendPrompt
    /\ sess' = [sess EXCEPT ![c] =
                  IF sess[c] = "cmd1" THEN "ret1"
                  ELSE IF ParserReturns(SendPrompt) THEN "retLive" ELSE "retDead"]
    /\ skip' = FALSE
    /\ parser' = None
    /\ UNCHANGED <<fdOf, peer, used, verbose, focus, pverbose, shutdown, acc, numIntf,
                   intfIp, exited, pending, owner, fb, fbFd, got, why, quit, cmds>>

\* cli_client_handler_main after a request that ran a command (lines
\* 120-121 for the first, 131-144 for the others).
AfterCmd(c) ==
    /\ ~exited
    /\ sess[c] \in {"ret1", "retLive", "retDead"}
    /\ AfterRequest(c, sess[c] # "retDead", used[c],
                    IF sess[c] = "retDead" THEN "dead" ELSE "none")
    /\ UNCHANGED <<fdOf, peer, verbose, parser, focus, fdAlive, pverbose, skip, shutdown,
                   acc, numIntf, intfIp, pending, owner, fb, fbFd, got, quit, cmds>>

\* Lines 124-128: the welcome line and the first prompt, under parser_lock.
Welcome(c) ==
    /\ ~exited
    /\ sess[c] = "welcome"
    /\ parser = None
    /\ focus' = FocusSet(c).fd
    /\ pverbose' = FocusSet(c).pverbose
    /\ fdAlive' = WriteOK(fdOf[c])
    /\ skip' = FALSE
    /\ sess' = [sess EXCEPT ![c] = "loop"]
    /\ UNCHANGED <<fdOf, peer, used, verbose, parser, shutdown, acc, numIntf, intfIp, exited,
                   pending, owner, fb, fbFd, got, why, quit, cmds>>

-----------------------------------------------------------------------------
(* Start-up, on the main thread: main (sr_main.c) calls                   *)
(* sr_init_low_level_subystem, then cli_main.                              *)

cliVars == <<sess, fdOf, peer, used, verbose, parser, focus, fdAlive,
             pverbose, pending, owner, fb, fbFd, got, why, quit, cmds>>

\* router_init (sr_router.c 16-45), reached from sr_init_instance through
\* sr_integ_init: no interface yet, but the count starts at 1.
RouterInit == numIntf' = 1

\* sr_init_low_level_subystem up to the interface file (sr_base.c
\* 133-259): the singleton test, the options, sys_thread_init and
\* sr_init_instance, which creates and initialises the router.
SrInit ==
    /\ acc = "init"
    /\ RouterInit
    /\ acc' = "intf"
    /\ UNCHANGED <<intfIp, skip, shutdown, exited, cliVars>>

\* router_add_interface (sr_router.c 100-137): the entry at index
\* num_interfaces is filled and enabled, and the count goes up.
RouterAddInterface(a) ==
    /\ intfIp' = [intfIp EXCEPT ![numIntf] = a]
    /\ numIntf' = numIntf + 1

\* sr_read_intf_from_file (sr_interface.c 12-59), one line per step: a
\* line whose address or mask inet_aton rejects ends the process (die).
ReadIntfLine(wellFormed) ==
    /\ acc = "intf"
    /\ ~exited
    /\ numIntf <= Len(IntfFile)
    /\ IF wellFormed
       THEN RouterAddInterface(IntfFile[numIntf]) /\ UNCHANGED exited
       ELSE exited' = TRUE /\ UNCHANGED <<numIntf, intfIp>>
    /\ UNCHANGED <<acc, skip, shutdown, cliVars>>

\* The rest of sr_init_low_level_subystem (sr_base.c 260-313): hw setup,
\* the user and host names (a gethostname failure returns before the
\* network thread starts, and main goes on), the lwip transport, status
\* RUNNING and the network thread, none of which the CLI reads.
StartNetwork ==
    /\ acc = "intf"
    /\ ~exited
    /\ numIntf = Len(IntfFile) + 1
    /\ acc' = "cli"
    /\ UNCHANGED <<numIntf, intfIp, skip, shutdown, exited, cliVars>>

\* main (sr_main.c 42-60): once cli_main returns CLI_ERROR, it prints
\* and returns, and the process ends.
MainOnCliResult(bound) == IF bound THEN acc' = "loop" /\ UNCHANGED exited
                          ELSE exited' = TRUE /\ UNCHANGED acc

\* cli_main up to the accept loop (cli_main.c 148-187): parser_lock,
\* cli_init (router_shutdown and skip_next_prompt FALSE, cli_ping_init),
\* then socket and bind, either of which may fail.
CliMain(bound) ==
    /\ acc = "cli"
    /\ ~exited
    /\ shutdown' = FALSE
    /\ skip' = FALSE
    /\ MainOnCliResult(bound)
    /\ UNCHANGED <<numIntf, intfIp, cliVars>>

-----------------------------------------------------------------------------
(* The accept thread, the clients, and the feedback thread.               *)

\* cli_main lines 188-210: while !router_shutdown, accept() hands the next
\* client the lowest free descriptor; a client record with an empty buffer
\* and a session thread (verbose FALSE, line 110) follow.
Accept ==
    /\ ~exited
    /\ acc = "loop"
    /\ ~shutdown
    /\ FreeFds # {}
    /\ \E c \in Conns :
          /\ sess[c] = "new"
          /\ \A d \in 1..(c - 1) : sess[d] # "new"
          /\ fdOf' = [fdOf EXCEPT ![c] = Min(FreeFds)]
          /\ sess' = [sess EXCEPT ![c] = "first"]
          /\ used' = [used EXCEPT ![c] = 0]
          /\ verbose' = [verbose EXCEPT ![c] = FALSE]
    /\ UNCHANGED <<peer, parser, focus, fdAlive, pverbose, skip, shutdown, acc, numIntf, intfIp,
                   exited, pending, owner, fb, fbFd, got, why, quit, cmds>>

\* Lines 188 and 213-214: accept() interrupted after router_shutdown is
\* set; cli_main returns CLI_SHUTDOWN and main returns.
AcceptShutdown ==
    /\ ~exited
    /\ acc = "loop"
    /\ shutdown
    /\ acc' = "done"
    /\ exited' = TRUE
    /\ UNCHANGED <<numIntf, intfIp, sess, fdOf, peer, used, verbose, parser, focus, fdAlive,
                   pverbose, skip, shutdown, pending, owner, fb, fbFd, got,
                   why, quit, cmds>>

\* A client closes its end; reads then see EOF and writes fail.
Hangup(c) ==
    /\ ~exited
    /\ Live(c)
    /\ peer[c] = "open"
    /\ peer' = [peer EXCEPT ![c] = "gone"]
    /\ UNCHANGED <<sess, fdOf, used, verbose, parser, focus, fdAlive, pverbose,
                   skip, shutdown, acc, numIntf, intfIp, exited, pending, owner, fb, fbFd, got,
                   why, quit, cmds>>

\* cli_ping_feedback (cli_ping.c 161-176), called by the scrubber or the
\* reply handler once ping p is off the list: the REPLY or TIMEOUT line
\* goes to p's saved fd, whichever client holds that fd now.
FbOutcome(p) ==
    /\ ~exited
    /\ ~shutdown
    /\ fb = "idle"
    /\ pending' = pending \ {p}
    /\ got' = [c \in Conns |->
                 IF c \in Holders(p.fd) /\ peer[c] = "open"
                 THEN got[c] \cup {p.id} ELSE got[c]]
    /\ fb' = "prompt"
    /\ UNCHANGED <<sess, fdOf, peer, used, verbose, parser, focus, fdAlive,
                   pverbose, skip, shutdown, acc, numIntf, intfIp, exited, owner, fbFd, why,
                   quit, cmds>>

\* cli_ping_feedback line 177: cli_send_prompt() without parser_lock.  It
\* tests skip_next_prompt and fd_alive and takes fd, the focus of now ...
FbPrompt ==
    /\ ~exited
    /\ fb = "prompt"
    /\ IF ~skip /\ fdAlive
       THEN fb' = "write" /\ fbFd' = focus /\ UNCHANGED skip
       ELSE fb' = "idle" /\ skip' = FALSE /\ UNCHANGED fbFd
    /\ UNCHANGED <<sess, fdOf, peer, used, verbose, parser, focus, fdAlive,
                   pverbose, shutdown, acc, numIntf, intfIp, exited, pending, owner, got, why,
                   quit, cmds>>

\* ... and writes the prompt there; a failed write clears fd_alive,
\* whichever session the focus has moved to since (cli.c 73-74, 156).
FbWrite ==
    /\ ~exited
    /\ fb = "write"
    /\ fdAlive' = (fdAlive /\ WriteOK(fbFd))
    /\ skip' = FALSE
    /\ fb' = "idle"
    /\ UNCHANGED <<sess, fdOf, peer, used, verbose, parser, focus, pverbose,
                   shutdown, acc, numIntf, intfIp, exited, pending, owner, fbFd, got, why,
                   quit, cmds>>

-----------------------------------------------------------------------------

\* The process at the start of main: the statics of cli.c (cli.c 17-30)
\* are zero, and the router's interface table is not yet written.
Init ==
    /\ sess = [c \in Conns |-> "new"]
    /\ fdOf = [c \in Conns |-> None]
    /\ peer = [c \in Conns |-> "open"]
    /\ used = [c \in Conns |-> 0]
    /\ verbose = [c \in Conns |-> FALSE]
    /\ parser = None
    /\ focus = None
    /\ fdAlive = FALSE
    /\ pverbose = None
    /\ skip = FALSE
    /\ shutdown = FALSE
    /\ acc = "init"
    /\ numIntf = 0
    /\ \E u \in Unset : intfIp = [i \in IntfIdx |-> u]
    /\ exited = FALSE
    /\ pending = {}
    /\ owner = <<>>
    /\ fb = "idle"
    /\ fbFd = None
    /\ got = [c \in Conns |-> {}]
    /\ why = [c \in Conns |-> "none"]
    /\ quit = [c \in Conns |-> FALSE]
    /\ cmds = 0

Next ==
    \/ SrInit \/ StartNetwork
    \/ \E ok \in BOOLEAN : ReadIntfLine(ok) \/ CliMain(ok)
    \/ Accept \/ AcceptShutdown
    \/ \E c \in Conns :
          \/ Hangup(c) \/ CmdReturn(c) \/ AfterCmd(c) \/ Welcome(c)
          \/ \E chunk \in {"part", "line", "eof", "error"} : ReadNoLine(c, chunk)
          \/ \E k \in Kinds, a \in Addrs, n \in FloodCounts : ReadLine(c, k, a, n)
    \/ \E p \in pending : FbOutcome(p)
    \/ FbPrompt \/ FbWrite

\* Runnable threads are eventually scheduled and a read of a closed socket
\* returns; clients, commands, replies and timeouts need not come.
Fairness ==
    /\ \A c \in Conns :
          /\ WF_vars(ReadNoLine(c, "eof"))
          /\ WF_vars(CmdReturn(c))
          /\ WF_vars(AfterCmd(c))
          /\ WF_vars(Welcome(c))
    /\ WF_vars(FbPrompt) /\ WF_vars(FbWrite)

Spec == Init /\ [][Next]_vars /\ Fairness

-----------------------------------------------------------------------------
(* Properties.                                                             *)

TypeOK ==
    /\ sess \in [Conns -> {"new", "first", "welcome", "loop", "cmd1", "cmd", "ret1",
                           "retLive", "retDead", "hung", "closed"}]
    /\ fdOf \in [Conns -> Fds \cup {None}]
    /\ used \in [Conns -> 0..MaxBuf]
    /\ parser \in Conns \cup {None}
    /\ focus \in Fds \cup {None}
    /\ pending \subseteq [id : 1..MaxPings, fd : Fds, addr : Addrs]
    /\ owner \in Seq(Conns) /\ Len(owner) <= MaxPings
    /\ fb \in {"idle", "prompt", "write"}
    /\ numIntf \in 0..RouterMaxInterfaces
    /\ intfIp \in [IntfIdx -> Addrs \cup Unset]

\* While the router runs, a client that hangs up has its session end and
\* its descriptor closed (cli_client_cleanup): EOF from read_search ends
\* the loop of cli_client_handler_main, whatever else is running.  After
\* router_shutdown nothing is promised: a ping or a second shutdown may
\* then block under parser_lock (BlocksOnPingLock), and if SIGINT did not
\* end the process every other session waits for parser_lock with it.
ClientGoneReleased ==
    \A c \in Conns : peer[c] = "gone" ~> (sess[c] = "closed" \/ exited \/ shutdown)

\* Pinging one of the router's own addresses (a line of the interface
\* file) never registers a ping (spec §8, self-ping short-circuit):
\* cli_ping_handle_self must scan every entry router_add_interface filled,
\* and none of the entries it scans may make the ping look remote.
SelfPingNotSent ==
    \A p \in pending : \A i \in 1..Len(IntfFile) : p.addr # IntfFile[i]

\* A ping's REPLY or TIMEOUT line reaches only the client whose command
\* sent the ping (spec §4.3: the ping names its connection), even after
\* that client has gone and accept() has given its fd to another client.
ResultsReachOwner ==
    \A c \in Conns : \A i \in got[c] : owner[i] = c

\* A session ends only for a fault of its own connection (spec §7): its
\* client quit, hung up, overflowed its buffer or failed a read.  The
\* parser ends it when fd_alive is FALSE after a command, so nothing but
\* its own client may clear fd_alive during its command.
ClosedOnlyForOwnFault ==
    \A c \in Conns : why[c] = "dead" => quit[c] \/ peer[c] = "gone"

=============================================================================
