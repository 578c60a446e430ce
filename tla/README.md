# TLA+ models of the P33 software router CLI (SW_stub)

This directory holds TLA+ models of the concurrent parts of `src/SW_stub`, and
the TLC configurations that check them. `PROJECT.json` lists the components,
runs, mutants, findings and hazards. It also maps each definition to the C
lines it models.

## The system and how its parts interact

| Part | Source | Concurrency |
|---|---|---|
| CLI server | `cli/cli_main.c` | An accept loop, plus one thread per client session. Each session reads a line, takes `parser_lock`, sets the output focus (`cli_focus_set`) and runs the parser, which calls a handler of `cli.c`. |
| CLI handlers | `cli/cli.c` | They write to the focus fd (`cli_send_str`, guarded by `fd_alive`). `cli_send_prompt` writes a prompt unless `skip_next_prompt` is set. `cli_ping` and `cli_ping_flood` call the ping tracker and set `skip_next_prompt`. `cli_shutdown` sets `router_shutdown`, then calls `cli_ping_destroy`. |
| Ping tracker | `cli/cli_ping.c` | `ping_list` is a doubly-linked list sorted by expiry and guarded by `ping_list_lock`. Three threads use it: the command thread (`cli_ping_request`), the packet thread (`cli_ping_handle_reply`) and the scrubber thread (`cli_ping_scrubber_main`). The scrubber sleeps on `ping_list_cond`, times pings out, and answers `cli_ping_destroy` through `ping_scrubber_off_cond`. A ping's result goes to the ping's own fd, followed by `cli_send_prompt()` on the *global* focus fd. |
| Time and address helpers | `sr_common.c` | `time_add_usec`, `is_later`, `time_passed`; `ones`, the MAC helpers, and the formatters `ip_to_string`, `mac_to_string`, `subnet_to_string` and `my_snprintf` (all pure). `sr_interface.c` formats the show lines with them. |
| Work queue | `sr_work_queue.c` | A producer/consumer queue with worker threads and a grace-period shutdown. |
| Router, interfaces, base, I/O extensions, debug | `sr_router.c`, `sr_interface.c`, `sr_base.c`, `sr_main.c`, `sr_*_extension*.c`, `debug.c` | `main` runs start-up on one thread: the router, the interface table from the interface file, and the network thread. It then calls `cli_main`. The rest is stub packet handling, raw I/O and logging. |

The parser, scanner and `socket_helper` are not in `src/`. What the models
need from them is taken from the spec and marked `spec_modelled`:

- the parser's closing prompt and its return value (whether the focus is still alive);
- the command set;
- the results of `read_search`;
- `search_state_grow_if_full`;
- `writenstr` failing once the peer has gone.

## Modules

### `PingTracker.tla`

This module models the ping tracker together with the parts of `cli.c` it
drives. `MCPingTracker.tla` fixes its model values: fds `c1` and `c2`, a remote
address and an own address.

The state mirrors the C variables:

| Model | C |
|---|---|
| `head`, `next`, `prev`, `ping`, `live` | The pointer structure of `ping_list`, over a heap of `MaxRequests` cells. A freed cell keeps its stale contents. |
| `pingCount` | `ping_count` |
| `lock` | Who holds `ping_list_lock` between steps: the scrubber across its expiry loop, or `cli_ping_destroy` for good once it has freed the list. |
| `scrub` | The scrubber's program counter: `init`, `expire`, `select`, `condwait`, `signaled` or `done`. |
| `scrubNow` | The scrubber's `now`. |
| `shutdown` | `router_shutdown` |
| `focus` | The `fd` of `cli.c` |
| `skipPrompt` | `skip_next_prompt` |
| `cli`, `cmd` | The command thread's program counter and the handler's locals. |
| `net` | A reply inside `cli_ping_handle_reply`. |
| `now` | `gettimeofday()`, which may step back. |
| `out` | The lines written to each fd. |

There are also two history variables: `issued` and `cmds`.

A locked region that does not block is one step. Because `parser_lock`
serializes commands, one command thread stands for all sessions. Its
`Dispatch(c, kind, ip, n)` sets the focus to session `c` and runs one
command: `ping`, `flood` of n, `shutdown` or `other`.

The actions, and the code each one stands for:

| Action | Code |
|---|---|
| `Request` | `cli_ping_request` up to the unlock: seq and expiry, then `InsertSorted` (lines 119-147), then the signal. |
| `Notify` | The `PING` line after the unlock. |
| `SetSkip` | `skip_next_prompt = TRUE` |
| `ParserPrompt` | The parser's closing `cli_send_prompt`. |
| `DestroySignal`, `DestroyFinish` | `cli_ping_destroy`. It wakes from `pthread_cond_wait` with the lock retaken, frees the cells and never unlocks. `pthread_mutex_destroy` of the held mutex fails with EBUSY (glibc), and the result is ignored, so `DestroyFinish` leaves `lock = "destroy"`. A reply that passed the unlocked shutdown test then blocks at line 188. |
| `Exit` | `exit(1)` in the session loop. |
| `ScrubberLock`, `ScrubberSelectReturn`, `ScrubberExpire` | The scrubber's loop, one step per lock acquisition or expired ping. |
| `ReplyArrives`, `ReplyMatch` | `cli_ping_handle_reply`: the unlocked shutdown test, then the matching and `Unlink` under the lock. |
| `Tick`, `StepBack` | The wall clock. |

Replies may name any remote address and any sequence number, so they can be
late, duplicated or unmatched.

### `CliServer.tla`

This module models the CLI server of `cli_main.c` with the handlers of
`cli.c`, over `NumConns` clients and `NumFds` descriptors. It is the
session-level counterpart of `PingTracker`. The ping list is abstracted to a
set of pending results (`pending`, `owner`, with the fd saved in each ping).
Any of these results may be delivered at any time by the reply thread or the
scrubber, through `FbOutcome`, `FbPrompt` and `FbWrite`.

| Model | C |
|---|---|
| `sess[c]` | Where client c's thread is: `new`, `first`, `cmd1`, `welcome`, `loop`, `cmd`, then `ret1`, `retLive` or `retDead` (back from the parser, lock released, with the value it returned), `hung` (blocked on `ping_list_lock` for good, under `parser_lock`), and `closed`. |
| `fdOf`, `used` | `client->fd` and `client->state.used` |
| `peer[c]` | Whether the remote end is `open` or `gone`. This is the environment. |
| `parser` | The holder of `parser_lock`. |
| `focus`, `fdAlive`, `pverbose`, `skip`, `shutdown` | `fd`, `fd_alive`, `pverbose`, `skip_next_prompt` and `router_shutdown` of `cli.c`. |
| `verbose[c]` | `client->verbose` |
| `acc` | The main thread: `init`, `intf`, `cli`, then the accept loop (`loop`), and `done`. |
| `numIntf`, `intfIp` | `router->num_interfaces` and `router->interface[i].ip` |
| `fb`, `fbFd` | The feedback thread inside `cli_ping_feedback` → `cli_send_prompt` (it has read `fd` but not yet written). |
| `acc`, `exited` | The accept loop, and `exit(1)` or the SIGINT default. |
| `got`, `why`, `quit`, `cmds` | History: which results reached each client, why a session ended, and whether the client sent `exit`. |

The actions are:

- Start-up, in `main`'s order:
  - `SrInit`: `sr_init_low_level_subystem` up to the file, with `router_init`, which sets `num_interfaces = 1`.
  - `ReadIntfLine`: one line of the interface file. A well-formed line goes to `router_add_interface` at index `num_interfaces`; a malformed one ends the process through `die`.
  - `StartNetwork`: the rest of start-up, ending with the network thread.
  - `CliMain`: `cli_init`, then socket and bind. On failure, `main` returns and the process ends.
- `Accept`: the lowest free fd goes to the next client.
- `ReadNoLine`: a read that ends without dispatch. The results are a partial
  line (-3), EOF (1), an error (-1), or the buffer at its ceiling (-2, from
  `search_state_grow_if_full`).
- `ReadLine`: a complete line. Under `parser_lock` it sets the focus and runs
  one handler, `Handler`: `show`/`bad` (output only), `intf_set` and `manip`
  (`RouterLookupInterfaceViaName` is `NULL`), `verbose_on`/`verbose_off`,
  `exit`, `ping` and `flood`, and `shutdown`. For `ping` and `flood`, `HandleSelf` searches
  `interface[0 .. num_interfaces-1]` as `cli_ping_handle_self` does. That
  includes `interface[0]`, which is never written. `Init` lets its address be
  either one no command names, or the remote one (`Unset` in
  `MCCliServer.tla`).
- `CmdReturn`: the parser's closing prompt, the unlock, and the return of
  `fd_alive`.
- `AfterCmd`: the session loop after that request. `AfterRequest` is the
  loop's test of `router_shutdown` and of the result, with cleanup. This is
  a separate step because between the unlock (cli_main.c:92) and the test
  (line 134) another session may take `parser_lock` and run a command, a
  second `shutdown` included.
- After the first `shutdown`, `ping_list_lock` stays held (see
  `DestroyFinish` above). `BlocksOnPingLock` is a command that then locks it:
  a second `shutdown` (cli_ping.c:62), or a ping or non-empty flood to a
  remote address (cli_ping.c:88). `ReadLine` runs only what precedes the
  lock (`Blocked`) and leaves the session `hung`, holding `parser_lock`.
- `Welcome`: the welcome and prompt after the discarded first read.
- `AcceptShutdown`: the accept loop ends.
- `Hangup`: a client disconnects. This is the environment.

### `PingSet.tla`

This is the abstract ping tracker of the spec. It holds a set of pending
pings, unique by (ip, seq). Each ping is answered once, or dropped by the
teardown. `PingTracker` instantiates it with:

- `pending` as the (fd, ip, seq) of the live cells;
- `answered` as the issued pings that have an outcome.

It checks `ImplementsPingSet == Abstract!Spec` in `ping_tracker_live`.

### `TimeUtil.tla`

This module models the `struct timeval` arithmetic: `time_add_usec`,
`is_later`, and the scrubber's `select()` timeout (cli_ping.c 259-265). One
second is `USecPerSec` units, so carries happen within a few steps. Its
actions follow one ping's timestamps: `Arm` (cli_ping.c 108-111), `Elapse`
(time passing between two `gettimeofday()` calls) and `Expire` (the `is_later`
test of line 235).

### `AddrUtil.tla` and `SrCommon.tla`

`AddrUtil` models the address helpers of `sr_common.c` as operators:
`ones` (the Hacker's Delight bit count, 135-143), `subnet_to_string` (the
octets it prints and the count after the `/`, 145-166), `is_valid_mac`, and
`mac_hi`, `mac_lo`, `mac_set_hi`, `mac_set_lo` and `mac_is_zero` (84-106).
TLC's integers stop at 2^31, so a `uint32` is a record of two 16-bit
halves. `ShrW`, `AndW`, `AddW` and `SubW` are the C operators on it, and
they wrap modulo 2^32. An `addr_ip_t` holds the octets in network order, as
the little-endian host reads them (`IpValue`). `mac_lo`'s `octet[2]<<24` is
computed in `int` and overflows for an octet of 0x80 or more. The x86 build
wraps it, and the conversion to `uint32` makes it exact again. That is what
`MacLo` returns. The module ends with the reference definitions: a recursive
`PopCount`, the mask of a `/n` prefix, and the sample inputs.

`SrCommon` extends `TimeUtil` with a variable `probe`. `probe` is one input
to the address helpers, chosen in the initial state and never changed, so
each property below is checked as a state invariant on every input.
`SrCommon` also extends `StrFormat`.

### `StrFormat.tla`

`StrFormat` models the text that is formatted into fixed buffers. It covers:

- `ip_to_string`, `mac_to_string` and `subnet_to_string` (sr_common.c
  109-166), each into its `STRLEN_*` buffer (sr_common.h 23-29);
- `my_snprintf` (178-191);
- the show formatters of `sr_interface.c` (61-91), into the lengths
  `sr_interface.h` documents (55-56);
- the session thread's name, `"CLI Worker %u"` in a `char[22]`
  (cli_main.c 107-111).

The only thing about a text that the properties look at is whether it is
cut short, so a text is just its length:

- `%u` prints `DecLen` characters, and `%X` prints `HexLen`;
- `%-ws` pads to width w (`Pad`);
- `vsnprintf` into a buffer of size n stores min(len, n-1) characters and
  returns len (`Snprintf`).

`my_snprintf` turns a count that reaches the size into 0.

### `WorkQueue.tla` and `WorkQueueFIFO.tla`

`WorkQueue` models `sr_work_queue.c`. `MCWorkQueue.tla` supplies the two
worker threads of `NUM_WORKER_THREADS`.

| Model | C |
|---|---|
| `head`, `tail`, `next` | The `work_t` list. |
| `done`, `workers` | `wq->done`, `wq->workers` |
| `wpc`, `held` | Each worker's place in `wq_wait_for_work`: `top`, `wait`, `woken`, `work`, `exiting` (the lock is held after the decrement) or `exited`. |
| `ppc` | The producer between its unlock and `pthread_cond_signal`. |
| `dpc`, `timeLeft`, `lockDestroyed` | `wq_destroy`'s progress. |
| `runs`, `discarded` | History variables. |

The actions are:

- `Enqueue`, then `EnqueueSignal`;
- `WorkerLock`: the locked loop test, then either wait, take the head
  (`Take`), or count this worker out;
- `WorkerUnlock`;
- `WorkerFinish`: `func_do_work` and `myfree`;
- `SpuriousWakeup`;
- `DestroyLock`, `DestroyBroadcast`, `DestroyWait`.

`WorkQueueFIFO` is the abstract queue that spec.md promises. Items are taken
in order, each once, and on stop the queued items are discarded.
`WorkQueue` instantiates it with the refinement mapping below and checks
`ImplementsFIFO == FIFO!Spec`:

- `q` is the chain from `head`;
- `taken` is the cells held by working workers;
- `finished` is the cells with `runs > 0`;
- `stopped` is `done`.

## Runs

| Run | Result | What it shows |
|---|---|---|
| `ping_tracker_safety` | pass, 3.3M states | `PingListIntact`: `ping_list` stays well formed and sorted, and its cells are exactly the allocated ones. `EachPingAnsweredOnce`: every ping gets exactly one REPLY or TIMEOUT, none while it is pending, and none is lost. `EqualExpiryKeepsSendOrder`: pings that expire at the same tick stay on the list in the order they were sent, so the scrubber times them out in that order. It needs `is_later` to be strict where `cli_ping_request` looks for its insertion point; a non-strict one puts a new ping before the earlier ones with its expiry. All three hold under every interleaving of the three threads, with duplicated or late replies and a clock that steps back. The bounds are three requests (one flood of 3), so inserts and unlinks happen at the head, in the middle and at the tail, and `MaxTime = 2`. |
| `ping_tracker_live` | pass | `PingEventuallyAnswered`: under the fairness below, every registered ping is eventually answered, unless shutdown comes first. `ImplementsPingSet`: the detailed list refines `PingSet`. A shutdown may follow the command while pings are pending and a reply is in flight, so the teardown is part of both. |
| `cli_sessions` | pass, 525k states | `ClientGoneReleased`: while the router runs, a client that hangs up always has its session end and its fd closed, or the process exits. This holds with partial lines, read errors, a full buffer, every command kind, and ping results racing the sessions. It breaks if EOF is treated like a partial line. `SelfPingNotSent`: a ping to an address of the interface file is never registered (spec §8). `cli_ping_handle_self` must scan every entry that `router_add_interface` filled, from index 0 up to `num_interfaces - 1`. The property claims nothing after `router_shutdown`. TLC finds that the process can then stop without ending: a `shutdown` on the discarded first read is not followed by the test at cli_main.c:134; if `raise(SIGINT)` does not end the process, a ping on the other session blocks on the held `ping_list_lock` under `parser_lock`, and the first session waits for `parser_lock` at its welcome. No run is given to this hang. |
| `cli_fd_reuse` | violation | `ResultsReachOwner` fails. Client 1 pings and hangs up, and its session closes fd 1. `accept` gives fd 1 to client 2, and ping 1's REPLY or TIMEOUT is written to client 2 (cli_ping.c:169). |
| `cli_focus_race` | violation | `ClosedOnlyForOwnFault` fails. The feedback thread reads the focus of a client that has gone. Another session's `cli_focus_set` runs, then the failed prompt write clears `fd_alive`. That session's parser returns FALSE, and its connection is closed (cli.c:74, cli_ping.c:177). This contradicts spec §7. |
| `ping_shutdown_hangs` | violation | `ShutdownCompletes` fails. `cli_ping_destroy` signals once, then waits without a predicate. A scrubber that has not reached `pthread_cond_wait` loses the signal, or signals `off_cond` before anyone waits. Either way `cli_shutdown` never returns (cli_ping.c:64, 274, 277). |
| `ping_notice_order` | violation | `PingNoticeBeforeOutcome` fails. The `PING` notice is written after the unlock, so a REPLY or TIMEOUT can come before it. This contradicts spec §8 scenario A. |
| `ping_prompt_misdirected` | violation | `NoPromptForOthersPing` fails. The prompt after a ping result goes to the focus fd, which is the last session to run a command, not the ping's owner. This contradicts spec §4.3 and §5. |
| `time_helpers` | pass | `ExpireIsSendPlusWait`: `time_add_usec` normalises and adds exactly. `IsLaterIsTimeOrder`: `is_later` is the strict order of the microsecond values, which justifies `PingTracker` using integer ticks. Run on `SrCommon`, over 625 inputs: `OnesIsPopCount`, where `ones` equals a reference popcount on every prefix mask in either byte order, on single bits and on every byte value in every position. `SubnetShowsPrefix`: `subnet_to_string` prints `ceil(n/8)` octets (one for /0) and the count n, or `<catch-all>` for 0/0. `MacHiLoRoundTrip`: `mac_set_hi`/`mac_set_lo` give back the MAC that `mac_hi`/`mac_lo` read, high octets included. `MacIsZeroIsNotValid`: `mac_is_zero` holds exactly when `is_valid_mac` does not. `AddrStringsNotTruncated`: no address text is cut short. "255.255.255.255", a MAC's 17 characters and "255.255.255.255/32" fill their buffers exactly, NUL included. `MySnprintfReportsFit`: a non-zero result of `my_snprintf` is the number of characters stored, and the whole text is there. A text that fits with its NUL is reported, and one that fills the buffer exactly is not. `ShowTextFitsDocumentedLength`: the interface header fits its documented length exactly (54 characters and the NUL in 55). So do an interface line with any name of up to 31 characters, the neighbour header, and the worker name for any fd. |
| `wq_safety` | pass | `QueueIntact`: `tail` is the last cell until destroy. `ImplementsFIFO`: the refinement above. `ItemEventuallyHandled`: every enqueued item is handled or discarded. These hold with two workers, spurious wakeups, the signal after the unlock, and `wq_destroy` at any point. |
| `wq_destroy_drain` | violation | `DrainOnDestroy` fails. `pthread_mutex_destroy` runs while a worker has not exited, either after the grace period or right after the last worker's decrement, while it still holds the lock. This contradicts spec §8 ("worker count reaches zero within the grace period"). |
| `scrub_timeout_sign` | violation | `ScrubTimeoutInRange` fails. The timeout is `now - expire`, which is negative while the head is pending, so `select()` returns EINVAL and the scrubber spins. This is the open question of spec §9. |

Every property of a passing run has a mutant in `PROJECT.json`: a plausible
bug in the mapped code that TLC must catch. The mutants are:

- the sequence number taken after the increment;
- a missing `prev` fix-up in the unlink;
- a reply that reports a ping but leaves it on the list;
- a lost `pthread_cond_signal`;
- a missing carry in `time_add_usec`;
- a non-strict `is_later`;
- `ones` without its last fold (`x += x >> 16`);
- `subnet_to_string` comparing with `<` instead of `<=`;
- `mac_set_lo` shifting octet 3 by 8 instead of 16;
- `mac_is_zero` reading only the first four octets;
- `wq->workers` initialised one short;
- a dequeue that does not clear `tail`;
- an enqueue that pushes at the head;
- a lost `pthread_cond_signal` in `wq_enqueue`;
- `ping_count` not incremented, so two pending pings share a sequence number;
- `search_state_grow_if_full` testing `>` instead of `>=`;
- EOF treated as "no newline yet".
- `cli_ping_handle_self` scanning one entry short;
- the session loop not testing `router_shutdown`.

## Bounds

- **Requests**: `MaxRequests` bounds the requests, and the heap, at 2 or 3.
  `ping_count` keeps its 16-bit modulus, but the wrap is not reachable (see
  hazards).
- **Commands**: `MaxCmds` is 1 in the safety run, because a flood of 3
  already produces every list shape. It is 2 where a second command matters:
  shutdown after a ping, or a second session. `ShutdownAfterCmds` lets a
  shutdown follow the `MaxCmds` commands. It is `TRUE` only in
  `ping_tracker_live`, where two requests keep this affordable, and it lets
  a teardown meet pending pings and a reply in flight. A flood of 3 in
  the safety run gives three pings the same expiry, so ties in
  `InsertSorted` occur.
- **Clock**: `MaxTime` stops the clock only once no ping is pending, so
  every ping can still expire. `MaxClockSteps = 1` allows one backward step,
  which is enough to insert before an existing head.
- **Wait**: `WaitTicks = 1`.
- **Work queue**: two workers (the real `NUM_WORKER_THREADS`), three
  enqueues (enough to find a queue of two behind a working worker), and a
  grace period of two sleeps instead of five. The length of the grace period
  only changes how many steps the violation needs.

- **CLI server** (`MCCliServer.tla`): a one-line interface file, two ping
  addresses, and two clients with two fds, so an fd is reused and two
  sessions interleave. `MaxBuf = 2` reads reach the buffer ceiling. `MaxCmds = 3`
  commands in all, one ping, and floods of 0 or 1.

Deadlock is not checked in the PingTracker or CliServer runs. In CliServer
the system stops after `exit(1)` or once every client has gone. The model really can stop,
through the shutdown hang, after `exit(1)`, or with a session hung on the held `ping_list_lock`; the first hang is its own run.

## Fairness

Weak fairness is assumed for:

- every step of the scrubber;
- `select()` returning;
- the command thread's continuation steps, which run without waiting on
  input once a handler has started;
- the reply thread's matching, once a reply is received;
- the clock advancing.

In `WorkQueue`, every worker step and the signal and destroy steps that
follow a call are weakly fair. In `CliServer`, these are weakly fair:

- a session's read returning EOF once its peer has gone (the socket is closed, so `read` returns);
- `CmdReturn`, `AfterCmd` and `Welcome`, which never wait on the client;
- the feedback thread's two steps.

No fairness is assumed for new commands (`Dispatch`), for reply arrival
(replies may be lost), for the clock stepping back, for `wq_enqueue`, or for the call of `wq_destroy`. Threads that are
runnable are eventually scheduled by the OS, and this is all the fairness
assumes.

## Not modelled

- **An interface file of four or more lines**: `router_add_interface`
  (sr_router.c:100-137) writes `interface[num_interfaces]` with no bound
  check. `num_interfaces` starts at 1, so a fourth line writes past
  `ROUTER_MAX_INTERFACES`. This is sequential start-up, which a unit test
  reaches; `CliServer` excludes it with an `ASSUME`.
- **The network thread's loop** (sr_base.c 360-384): its read methods only
  return 1, and the status is only ever `RUNNING`, so it never reaches
  `sr_destroy_instance`. Argument parsing and log-file naming are formatting.
- **Packet handling and I/O extensions** (`sr_router.c`, `sr_*_extension*.c`):
  stubs, or raw socket I/O, with no shared state besides the ping replies.
  Those replies are modelled as arrivals in `PingTracker`.
  The read loops `sr_mininet_read_packet` and `sr_cpu_input` select over
  `interface[0 .. num_interfaces-1]`. Two hazards are recorded for them
  without a property, because what they hand on goes to `sr_integ_input`,
  which is not in `src/`:
  - `interface[0]` is never written, and the mininet loop does not test
    `enabled` before `FD_ISSET`;
  - the mininet loop hands a `len` of 0 or -1 on.
- **`debug.c`**: logging under `print_mutex`, a lock no other lock is taken
  under. It does not change program state. The helpers it calls with
  content, `ip_to_string`, `mac_to_string` and `subnet_to_string`, are modelled in
  `AddrUtil` and `StrFormat`.
- **The rest of `sr_common.c`**: `make_ip_addr` and `make_mac_addr`
  (`inet_aton` and copies), `time_to_string` (a locked `ctime`: an unsigned
  count of seconds stays within four-digit years, so the text always fits
  `STRLEN_TIME`), and the allocation wrappers, which die on failure. None
  of them has state of its own. The show formatters that
  `intf_neighbor_to_string` and `intf_hw_to_string` would build on are a
  stub, and hardware registers built only in CPU mode, respectively.
- **An enqueue racing `wq_destroy`** (the stale `tail`): no producer is in `src/`.
- **A process stopped without ending after shutdown** (cli.c:411,
  cli_main.c:88): `CliServer` reaches it, as described under `cli_sessions`,
  but no run checks a property that it breaks.
- **The composition of `CliServer` with the detailed `PingTracker`**: it is
  too large for TLC at useful bounds. Each module abstracts the other's side:
  - `PingTracker` has one command thread;
  - `CliServer` has a set of pending results.
