# A TLA+ model of vsp

vsp lets clients in networks without UDP use Cloudflare WARP: a **pool server**
(`src/app.py`) keeps up to `NUM_WARPS` WARP identities connected and serves requests through
them, an **edge** (`src/edge.py`) is the local forward proxy that tunnels to the pool over
HTTPS, and both share a small websocket codec (`src/wscodec.py`). Both programs are single
asyncio event loops; `warp-svc` and `warp-cli` run outside.

The modules here model both programs but for their reports and debugging tools, TLC checks
them on small instances, and TLAPS proves the main safety results for every size.

    tlc -config pool_recovery.cfg WarpPool      # any run of PROJECT.json
    tlapm WarpPool_proofs.tla                   # any *_proofs module

## Inventory

| Component | State | Operations | What must hold |
|---|---|---|---|
| registration scheduler (`app.py` 1017-1075) | `registered_now`, its place in the loop, `last_reg_ts` | start-up burst, announcement, paced loop, retry loop | every warp is registered in the end; registrations are paced and charged to the budget |
| boot and heal tasks (1076-1133) | `ready`, `fail_count`, `last_heal`, one coroutine per boot | boot, count failures, delete and re-register a stale identity | heals are earned; overlapping tasks of a warp do not hide it; a failed heal is contained |
| manager (429-487) | `active`, `ready_event`, `lock` | `rotate`, `_reverify`, `healthy` | the event is set while a warp is ready; rotation goes round the ring |
| request hold (439-450 and its callers) | each request: waiting, woken, connecting | wait, time out, choose a warp | nobody sleeps through a ready warp; every request is answered |
| `/relay` and the edge's tunnel (`app.py` 842-908, `edge.py` 216-268) | four streams, five coroutines | handshake, frames, pieces, teardown | in order, complete, and ended |
| forward proxy (`app.py` 525-554, 959-1015) | two streams, three tasks | copy both ways, hang up | in order, no early hang-up |
| daemon start (`app.py` 170-251) | `_daemons`, the socket file | spawn, wait for the socket, configure, poll | one daemon per warp; a warp without one gets one; every call ends |
| websocket codec (`wscodec.py`) | none | encode, read a frame | the reader inverts the encoder at every length |
| `/fetch` (`app.py` 330-426, 582-623) | none besides the hold | one HTTP exchange in a thread | the request intact; an answer that is the origin's, whole where the framing can tell |
| edge plain HTTP, passthrough (`edge.py` 42-213) | none | one request, one response, `read_full` | what the pool says is understood wherever it is cut; every exchange ends |
| health and status cache, debug endpoints, header parsing, tokens, packaging | caches, a key file | reports, operator's commands | (not modelled, see below) |

How they interact: the scheduler, `retry_unready`, the boots, the verifications and the
request handlers are coroutines of one loop. They share `WarpInstance.ready`, `fail_count`,
`last_heal`, `Manager.active`, `Manager.ready_event` and the global `last_reg_ts`, and no
lock but `Manager.lock`, which only `rotate` takes. Every `await` (an executor call, a
sleep, the event) lets the others run, so what was read before it may be stale after it. The
file `reg.json` of a warp is written and removed by `warp-svc`, possibly long after the
command that asked for it was given up, and survives a restart; everything else is lost with
the process, which docker restarts (`--restart unless-stopped` in `Justfile`).

The hard behaviours, with their lines, are the `hazards` of `PROJECT.json`: overlapping
boots of a warp, checks before an await and writes after it, heals that fail halfway,
restarts that forget the budget or leave a socket file, starts of a daemon that overlap or
time out, commands that land after somebody gave them up, wake-ups that race with timeouts,
streams cut or reset anywhere, and directions of a tunnel that end at different times.

## The modules

    Indices          Least(S): "the first warp that ..."
    ReadyBoard       abstract: readiness, event, active warp
      Hold           requests on top of the board
    WarpPool         the pool in detail        implements ReadyBoard
      PoolAudit      WarpPool + two history variables
      ServingPool    WarpPool + the requests   implements Hold
    Daemon           ensure_daemon of one warp
    Relay            a tunnel through edge and pool
    WsCodec          the bytes of its frames
    Fetch            a plain request through edge and pool
    ForwardProxy     the pool's own proxy
    *_proofs         theorems

**WarpPool.** One action is what one coroutine does between two awaits. `sched.pc` is the
place of `registration_scheduler`: `start`, in the burst (`initDaemon`, `initNew`,
`initPoll`), in the loop (`sleep`, `loopDaemon`, `loopNew`), `done`. The end of the burst
announces the healthy warps, spawns the boots and enters the loop in the same step as the
await that precedes it returns, as the code does. `SchedulerDies` is an exception that
`ensure_daemon` does not catch (the fallback log file, `app.py` 192-195): the scheduler is a
task nobody awaits, so it ends; in the burst it takes the announcement and the retry loop
with it. The same in a `boot_one` is `BootRaises`. `task[<<w, s>>].at` is the place of a
`boot_one` task: `boot` (`ensure_daemon`, `ensure_proxy_mode` and `poll_until_connected`,
three awaits between which no shared variable is written), `delete` and `new` (the two
commands of `heal_stale`), `reboot` (the poll after a heal). `second` tells which of the two
heal checks of `boot_one` it came through, `age` is the time since `now` was read in
`heal_stale`, which becomes `last_heal` only after the commands. `late` holds the
registration commands that nobody waits for any more, because `run_cli` gave them up at its
timeout or the process died (`MayLinger`, `CrashRestart`), and that `warp-svc` may still
carry out (`LateLands`). `reopening` is the executor call `rotate` makes under its lock;
`recheck` counts the `_reverify` tasks that have been created (`queued`) and that poll
(`polling`). Timestamps are ages: `regAge`, `healAge`; `Tick` advances all of them and the
scheduler's sleep, saturating where the code can no longer tell the difference, so time
needs no bound. A restart returns to the initial values except `reg` and `late`, so restarts
need no bound either.

**PoolAudit** adds two history variables that no step reads: the time since the loop last
registered a warp, kept across restarts, and the boots of each warp that failed since a boot
of it last connected at once or a heal of it ended. The latter is what the code takes for
the record of an identity: connecting in the poll after a heal, in a verification or in the
burst does not clear `fail_count`, and does not clear the history either.

**ReadyBoard** is what the rest of the server may assume of the pool: a warp goes up (and
sets the event, once the burst is over), goes down (the event stays), is taken out for
verification (the event is cleared with the last), the active warp advances to the nearest
healthy one ahead on the ring. `Ahead` is a reference definition by distance on the ring;
the code's loop over sorted indices (`Successor`) is proved to agree with it.

**Hold** puts requests on the board. `Event.set` wakes a request, which resumes later: in
between the board may change, or the timeout may strike first. With Python 3.12 and later
(the image has 3.13) `wait_for` on a set event does not suspend, so `Arrive` decides at
once. A timer that is due may fire late; nothing makes it fire before the next tick.
**ServingPool** runs the requests on the real pool and is proved to implement Hold.

**Daemon** is one warp's `ensure_daemon`: the processes that exist, the one that listens on
the socket file, the file itself, the entry in `_daemons` (`tracked`), and calls that may
overlap, since a retried boot does not wait for an earlier one. The environment lets a
daemon bind, hang, die in order (the file goes) or by a kill (the file stays); three kinds
of restart differ in what they leave: the container's (files but no processes), the
program's on a host (both), and a new container (neither). `due` says whether somebody comes
back to the warp: the scheduler while it is not registered, `retry_unready` while it is
registered and not ready. It is lost when the warp becomes ready, when a heal leaves it
without a registration, or when the coroutine dies, and comes back with a verification that
fails or a restart (`Turn`, `Forget`). `mishap` is a history variable: since the processes
were last all gone, a start has overlapped another, timed out on a process that was alive,
or left one behind. `WarpPool` takes from here that a start succeeds or fails; its `calm`
includes that starts succeed, and Daemon says when they do not.

**Relay** numbers bytes in the order they are sent. A reader takes any non-empty prefix of a
stream. The stream from pool to edge keeps frame headers as items of their own, because the
edge reads its beginning as HTTP text and may take payload for a header. With
`ClientPipelines` the client does not wait for the answer to its CONNECT, and `ReadWithHead`
is what the edge drops of it. The edge gives up a handshake at any time (its 15 s against
the pool's hold and dial). `ClientReset` is the reset of a client that has gone: it fails
`_p2c`'s write and is also the end of what `_c2p` could still read. `LinkCut` resets the
connection of edge and pool: of what is under way only a beginning arrives, which may end
inside a frame, writes are lost until one of them fails, and reads end.

**WsCodec** is `encode_frame` and `read_frame` as operators on sequences. A byte of the
header is a number, a byte of the payload or mask the set of its bits, so that XOR is the
symmetric difference. It has no state and no run: its one claim is a theorem about all
inputs.

**Fetch** follows one request that is no CONNECT: the edge reads it, asks the pool with
`pool_fetch` (or passes a request for a path through), the pool holds it, `fetch_blocking`
sends it in slices of `SEND_CHUNK`, which the tune action may change between two of them,
and reads the answer, and the edge's `read_full` reads what the pool says. Messages are
sequences of tokens (start line, framing header, blank line, chunk sizes, line ends, bytes);
the origin chooses framing, chunks and where its stream stops; the pool's own answer may be
re-framed by the TLS front in between, and cut. `read_full` is modelled loop by loop, with
reads that cut the stream anywhere.

**ForwardProxy** has the three copying tasks of the pool's own proxy and `StreamReader`'s
rule that only one `read` may wait; one that was woken may find that another has taken what
woke it. `chunked_write` suspends after each piece, for `drain` and its pause; meanwhile the
others run.

### What was abstracted

- Warp-cli commands return anything the code tells apart, at any time: success, failure,
  rate limit (as a failure). `RegistrationLands` while the command runs, and
  `RegisterResult` then includes success; `LateLands` after it was given up. A command that
  does not linger when it ends has been carried out or never will be.
- A poll succeeds only with a registration. `BOOT_RETRY_SEC` is dropped: a retry round may
  come at any time.
- In WarpPool daemon start and proxy mode are part of the await they belong to, with the
  outcomes true, false and, for the start, an exception.
- Daemon: a call that returns True at once, or that cannot create its directories, changes
  nothing and is no step. Process numbers are recycled; a process may be forgotten once it
  neither listens nor is tracked nor waited for.
- A client or an origin of Relay may end its stream; the client may also be gone altogether,
  and the connection between edge and pool may be reset. Resets by the origin are not
  modelled, nor is a peer that vanishes without a reset: `/relay` has no timeout for it.
- In ForwardProxy a `drain` takes any time but not for ever, and `_copy`'s writes to the
  client go out at once, whole.
- In Relay frames reach the pool whole (`read_frame` awaits all of one) and lossless; the
  latter is `FrameRoundTrip`.
- Fetch: `Transfer-Encoding` is exactly `chunked`, chunk sizes have no leading zeros or
  extensions, JSON parses when it is whole, the manager's paths are `/health` and `/rotate`.
  A stalled origin counts as a reset, since each operation on its socket has a timeout; a
  reset that comes after all that `fetch_blocking` reads (`Complete`: the line after the
  last size, or all bytes of the length) is not noticed. TLS and SOCKS are part of the step
  that dials. `app.py` 383 reads `SEND_CHUNK` twice in one expression; CPython switches
  threads at calls and backward jumps, of which there is none between the two, so a slice
  has one size.

## The runs

| Run | Module | Shows |
|---|---|---|
| `pool_overlap` | PoolAudit | with two boots of a warp at a time: `IdentitiesAreCharged`, `StrandedOnItsOwn`, `SchedulerPaced`, `HealsAreEarned` |
| `pool_recovery` | WarpPool | types, `NoHiddenWarp`, refinement of ReadyBoard, with rotation and verification interleaved with boots, heals and restarts; liveness: `PoolFills` |
| `pool_restart` | WarpPool | with commands that land late: `StrandedOnItsOwn`; liveness: `RestartRevives` |
| `hold` | Hold | nobody waits while a warp is ready; a request is resolved by the board of that moment (`ResolvedByTheBoard`); every request is answered |
| `relay` | Relay | order and completeness in both directions; the tunnel ends, also when the connection of edge and pool is cut or the client resets its own |
| `forward` | ForwardProxy | order piece by piece, no early hang-up of a tunnel, both sides end together |
| `daemon` | Daemon | `OneDaemon`, `CutOffForGood`; liveness: `DaemonComesUp`, `CallsEnd` |
| `fetch` | Fetch | `AnswerIsOrigins`, `RequestIntact`, `ReadAsSaid`; liveness: `ExchangeEnds` |
| `hold_refused`, `relay_server_first`, `forward_get`, `daemon_restart` | | the program disagrees with its documents (next section) |

Bounds, and why they are enough:

- `NumWarps = 2`: the properties relate a warp to "some other healthy warp" (the sibling of
  a heal, the last one taken out, the next on the ring); with two warps each of these exists
  or not. What two warps cannot show is the order of the ring among three or more: with two,
  the wrong healthy warp is the active one, and taking it changes nothing. That is
  `PoolImplementsBoard`'s part, which is proved for every size, like the rest of the safety
  of readiness.
- `InitialBurst = 1`: one warp comes through the burst, the other through the loop. The
  proofs cover larger bursts.
- `RegInterval` is 1, and 2 in `pool_restart`: the code compares ages with one threshold
  each, so at the interval and below it are both reached. `HealCooldown` is 0, which never
  holds a heal back and so allows more heals and overlaps than any cooldown, and 1 in
  `pool_restart`, where the comparison is made. The case of a machine that has been up for
  less than the cooldown is covered by the proofs, which hold for every cooldown.
- `StaleThreshold` is 3 in `pool_overlap` and 2 in `pool_restart`, where a boot's failure is
  counted twice and the threshold is passed on either count, and 1 in `pool_recovery`, where
  heals start at once.
- `TaskSlots = 2` in `pool_overlap`: two overlapping boots, which can be in different steps
  of a heal; 1 elsewhere. `MaxRechecks` is 1 in `pool_recovery`, where rotation and
  verification run, and 0 elsewhere: a verification touches neither an identity nor a count
  of failures, so what the other two check is not about it, and with both the states are too
  many. That verification disturbs none of it is in the proofs, which have no such bound.
- `MaxLate = 2` in `pool_restart`: a deletion and a registration may both be outstanding, in
  either order; 0 elsewhere, where a command that was given up is never carried out. That
  late landings are harmless to overlapping boots is in the proofs.
- Hold: two requests, timeout 2. ForwardProxy: three bytes each way, pieces of one. Relay:
  three bytes each way, pieces of two, so that a frame is cut into pieces and a read into
  frames; the client waits for the answer to its CONNECT, the origin for its first byte.
- Daemon: two calls and four processes, enough for one process that listens, one in the
  table and one that each call spawns. `daemon_restart` needs one call and two processes.
- Fetch: `MAX_FETCH_BYTES` is 2, `SEND_CHUNK` 2 or 3 for each slice, so that the head (one
  item) and a body of two leave in one slice or in two that differ in size; the bodies up to
  4 bytes up and 3 down: empty, one chunk, two chunks, at the limit and above it, refused by
  the pool's own check (base64 turns 3 bytes into 4) and by `fetch_blocking`'s. Two bytes of
  JSON can be whole, cut, or chunked in two.
- `CHECK_DEADLOCK FALSE` in Relay, ForwardProxy and Fetch, whose connections end, and in
  Daemon, where a warp that is served in a calm environment needs nothing more.

Fairness: `WF` of each coroutine's steps, because the event loop runs whatever is ready and
every await in the code is bounded by a timeout of a command, a poll or a sleep; of `Tick`,
because time passes; of `RegistrationLands` only when calm; late landings are owed to
nobody. In Daemon `WF` of a call's own steps and of the event loop's hearing of an exit; of
a new call only while somebody comes back to the warp (`due`), since the retry loop turns
only to registered warps that are not ready and the scheduler only to those it has not
registered; and of a daemon's binding or exiting only when calm. In Relay each coroutine
goes on while it has something to read. In Fetch both programs do, and the origin answers or
is timed out; nothing makes the link between edge and pool speak, which is why
`ExchangeEnds` excuses a link that falls silent. `calm` is the hypothesis of the liveness
properties of WarpPool and Daemon: from some moment on, never revoked, `warp-svc` answers
every call well, has no given-up command left, and the process is not restarted. Without it
nothing need ever connect. Nothing is assumed of clients and origins, and in `hold` nothing
of the pool.

What the passing runs say that is not obvious from the code: a warp whose heal fails after
its deletion is **stranded**: it has no registration but is in `registered_now`, so the loop
skips it, and `retry_unready` requires a registration. `StrandedOnItsOwn` shows that the
program does nothing about it: a restart helps, or a registration that had been given up and
that `warp-svc` completes after all (and that nobody charges to the budget). `PoolFills`
shows that every other warp recovers by itself, unless the scheduler has died of an
exception (**unattended**: nobody is left to register it), `RestartRevives` that a restart
revives all.

A warp whose socket file is there while nobody listens is **cut off**: `ensure_daemon` takes
the file for a daemon, unless it knows a process that has exited. `CutOffForGood` shows that
this lasts through any number of calls and container restarts. `DaemonComesUp` shows that a
warp somebody keeps coming back to gets its daemon unless it is cut off. Not every warp is:
one that counts as ready while its daemon dies, a stranded one, and all that a dead retry
loop or scheduler leaves unattended are never given to `ensure_daemon` again. Two daemons of
one warp are possible, and `OneDaemon` says exactly how: only if starts overlapped, timed
out, or left a process behind.

`AnswerIsOrigins` names the truncations that pass for complete answers: a stream that ends
in the head, and a body of given length or up to the end of the stream that is shorter than
the origin's (`f.read` returns what there is). A chunked body is never cut silently.

## Where the program and its documents disagree

| Run | Document | Program |
|---|---|---|
| `hold_refused` | README.md:66, "Seconds to hold requests while no warp is ready" | the event stays set when the last warp fails a boot or a poll: refused at once |
| `relay_server_first` | README.md:13, "`/relay` (websocket TCP bridge)" | the edge drops what arrives with the handshake response |
| `forward_get` | README.md:11-12, "forward proxy on `:8080` (`GET` + `CONNECT`)" | two tasks read the client's stream; the second fails and the relay hangs up |
| `daemon_restart` | entrypoint.sh:21, "app supervises warp-svc on demand"; README.md:30, "autorestart" | a socket file that a restarted container still has passes for a daemon, and none is started |

Each such run checks one property that states the document and ends with a counterexample.

Nine more have no run of their own. Each is stated by a property of its module which, put
into the named configuration in the place of its properties, TLC refutes; what holds in its
stead is in the last column.

| Property | Put into | Document | Program | What holds |
|---|---|---|---|---|
| `SharedBudget` | `pool_overlap` | README.md:10-11, "+1 per 8h shared budget — re-registrations consume the same budget" | a heal looks at the budget before its commands and marks it after them, the scheduler does not look after its sleep: two registrations within an interval | `SchedulerPaced`, `IdentitiesAreCharged` |
| `StaleAfterThreshold` | `pool_overlap` | README.md:68, "Failed boots before an identity counts as stale" | `boot_one` counts a failed boot twice | `HealsAreEarned`: half of them |
| `HealsApart` | `pool_overlap`, `HealCooldown = 1` | README.md:69, "Min interval between heal re-registrations per warp" | `last_heal` is written after the commands: two boots of a warp both pass the cooldown | |
| `EveryWarpServes` | `pool_restart` | README.md:65, "Pool size (registrations stagger: 1 at boot, +1 per 8h shared budget)" | an exception of `ensure_daemon` (`app.py` 195) ends the scheduler, which nobody awaits | `PoolFills` |
| `OneForAWarp` | `daemon` | README.md:14-15, "Daemons start lazily (1 at first, more as registrations arrive)" | overlapping tasks, or a call after one that timed out, start two daemons of one warp | `OneDaemon` |
| `UpInOrder` | `relay`, `ClientPipelines = TRUE` | README.md:13, 16-17, "websocket TCP bridge" | the edge drops what it has read after the head of a CONNECT (`edge.py` 133, 148) | with `FALSE` |
| `BodyInOrder` | `forward` | README.md:11-12, "forward proxy on `:8080` (`GET` + `CONNECT`)" | two tasks read and write a plain request's body in turn, and pieces of one mix with what the other has read | `InOrder` of tunnels |
| `MethodKept` | `fetch`, `Methods = {"GET"}` | README.md:16-17, "forward proxy ... Plain HTTP goes via pool `/fetch`" | `pool_fetch` drops the method: a GET reaches the origin as a POST | |
| `RetryMeansUnsent` | `fetch` | README.md:66, "while no warp is ready, then `502 + Retry-After: 5`" | the edge asks for another try after any answer that is not ok (`edge.py` 166-168), also of a request that the origin has got whole | |

Two have no property either:

- A path that is passed through (`edge.py` 187-213) gets its body without chunk framing
  under a head that still says `chunked`, when the front before the pool has chunked it.
  `ReadAsSaid` is about the body that was read.
- A request whose body is close to `MAX_FETCH_BYTES` is refused with 413, since the limit
  (`app.py` 948) is compared with the JSON that carries it in base64.

## The proofs

All are by TLAPS, for every value of the constants that satisfies the assumption of its
module (`PoolAssumption`, `NumWarpsAssumption`, `HoldAssumption`, `DaemonAssumption`,
`RelayAssumption`, `ForwardAssumption`, `FetchAssumption`: sizes, bounds and intervals are
natural numbers, the pool, a slice and the pool's JSON are not empty). Every safety property
that a passing run checks is a theorem. Three theorems or groups have a hypothesis besides:
those of the pool with the requests assume `HoldTimeout`'s type, `DownwardsInOrder` assumes
`~ServerSpeaksFirst`, and `UpwardsInOrder` `~ClientPipelines`; the previous section has what
refutes the other cases.

The readiness of warps, `ReadyBoard_proofs`, `WarpPool_proofs`, `Hold_proofs`:

- `LeastOf` and what it rests on: a non-empty finite set of integers has a least element,
  which `Least` picks. By well-foundedness of strict inclusion on finite sets.
- `BoardIsSafe`: the board keeps its types and `NoHiddenWarp`, which are inductive together.
- `PoolTypes`: `TypeOK` is inductive. The conjunct `sched.pc = "sleep" => registeredNow #
  Warps` is there for `Wake`, which picks the next warp to register: without it the least
  element of an empty set might be taken. It holds since the head of the loop sleeps only
  when a warp is missing, and only the scheduler changes `registered_now`.
- `PoolImplementsBoard`: step by step. A poll that settles a warp is `Up` or `Down`; the end
  of the burst is `Announce`; `RecheckStart` is `TakeOut`; `Rotate` is `Advance`, where
  `SuccessorHealthy` compares the code's choice with the distance on the ring; a restart is
  `Restart`; everything else leaves the board alone.
- `PoolNeverHidesAWarp`: `NoHiddenWarp` of the pool from `BoardIsSafe`, instantiated, and
  the refinement.
- `HoldTypes`: types, and that who goes on to connect has a warp. It bounds no time: a timer
  that is due may fire late.
- `RequestsSeeThePresent`: a request resumes with the board of that moment, not of the one
  it was woken in, so the warp it gets is ready, and it is the active one if that is.
- `NoRequestSleeps`: the invariant is `WaitsOnCleared`, a request waits only while the event
  is cleared. `NoWaitWhileReady` is not inductive by itself; it follows from
  `WaitsOnCleared` and the board's `NoHiddenWarp`.

Identities and their budget, `WarpPool_proofs`, `PoolViews_proofs`:

- `EveryIdentityIsCharged`: a registration command is one of the scheduler or of a heal, and
  a step ends at most one of them (`SameHeals`, `OthersKeepCalls` for the steps that end
  none). The step that ends it with an identity sets `last_reg_ts`, or takes the heal of a
  warp whose other heal still runs, in which case no command of the warp has ended.
- `StrandingLasts`: the invariant is `WorksOnMissing`, the scheduler works only on warps
  that it does not count as registered. A stranded warp is counted, so the scheduler cannot
  touch it; `boot_one` and `retry_unready` want a registration, and no heal of it runs. What
  is left besides a restart is a registration in `late`, which the theorem names.
- `SchedulerIsPaced`: the invariant `PacedInv` says that the rest of the sleep and the time
  since the loop's last registration make up an interval, and that before the loop the
  budget is free or younger than that registration. The latter is what a restart needs,
  which resets the budget.
- `HealsWereEarned`: the invariant `Counted`, `fail_count` is at most twice the failed
  boots. `boot_one` counts a failure twice at most, in two steps or in one, and both numbers
  are reset by the same steps: a boot that connects at once and the end of a heal. That the
  other ways to connect reset neither is why the theorem does not speak of failures since
  the warp last connected.
- `ServingImplementsHold`, `ServingNeverSleeps`: a step of the pool is a step of the board
  or leaves it alone; in the latter case nobody is woken, by `WaitsOnCleared`, so the step
  is a stutter of Hold. No run checks this refinement: the composition is proved, and TLC
  runs it in `hold_refused`.

Daemon starts, `Daemon_proofs`:

- `DaemonTypes`: `TypeOK` is inductive; that a tracked or awaited process exists needs that
  numbers in use are not recycled (`Available`).
- `OneDaemonAlways`: the invariant is `~mishap => Regular`. Without a mishap at most one
  call is under way (`Single`); while it spawns no daemon runs (`Alone`); one that serves
  has its socket file (`Bound`); and one that runs either is what the checks will find, with
  the file there and the table naming it or nothing, or is tracked and waited for (`Known`).
  So no call starts a second one beside it.
- `StaysCutOff`: no call can begin, and nothing else puts a listener behind the file.

Streams, `Relay_proofs`, `ForwardProxy_proofs`:

- `FrameRoundTrip`: `read_frame` of an encoded frame and anything after it returns the frame
  and leaves the rest, for every length below 2^64, with or without a mask. The length field
  is read back by `ShortRoundTrip` and `LongRoundTrip` (digits to base 256), the mask by
  `MaskTwice`, and `ReadExactly` peels header, length, mask and payload off the stream.
- `UpwardsInOrder`: the invariant `UpInv` follows the stream through its five places. What
  the origin has, the slice that is being written, the frames under way and what the edge
  has not read are runs of consecutive bytes, each of which begins where the one before ends
  (`Chained`). Once the link is cut, or the client's reset has emptied what the edge had not
  read, the chain may end early; it has no gaps.
- `DownwardsInOrder`: the invariant `DownInv`. The stream from pool to edge is `Framed`:
  each header stands before the bytes it announces, up to the end of the stream, and it is
  `Complete` while the link is up. The conjunct `Quiet` says that during the handshake
  nothing is in that stream but the response, which is where `~ServerSpeaksFirst` is needed:
  the edge reads the response up to its end and drops what came with it.
- `ForwardInOrder`: the invariant `NothingLost`: what was received, then what
  `chunked_write` has not written yet, and then what is still to be read, is what was sent;
  upwards in a tunnel only, where one task reads the client.
- `TunnelHangsUp`: the invariant `Ends`: in a tunnel no second task reads the client, so a
  copier is done only because its stream has ended, the one of the origin after all of it
  has been copied, and the tunnel is closed because one of the two is done.

Plain requests, `Fetch_proofs`:

- `FetchTypes`: `Types` is inductive. That what the edge reads is made of `Pieces` bounds
  every length it waits for.
- `RequestsArriveInOrder`: the invariant `RequestInv`: what the origin has got, and then
  what is unsent, is the request, however the slices change in size; before the first slice
  it has got nothing; the pool says ok only when nothing is unsent.
- `AnswersAreUnderstood`: the invariants `Quiet` (before the pool has answered there is
  nothing to read) and `Heard`: of an answer that left the pool whole, the place in
  `read_full` tells what is left of it, read or not. In the head it is a whole message
  (`InHead`); after it the rest of the body (`InExact`); between chunks the body has the
  first bytes and the chunks of the others are left (`InSize`); in a chunk, the rest of it
  and the chunks after it (`InData`); at the end the body is whole (`InJudge`). Every action
  of the edge takes one of these to the next, wherever reads cut the stream, because each
  loop finds its mark (blank line, line end, length) at the same place as in the whole
  stream (`FindInHead`, `Consume`).
- `AnswersAreTheOrigins`: the invariant `AnswerInv`: the origin's items are the beginning of
  a message, what the pool says is their body, and the client's is the pool's. `Lists` says
  of tokens which bytes they have in order; it is kept by concatenation (`ListsJoin`) and by
  cutting (`ListsBegin`), and `BodyListed` computes the body from it. A chunked message ends
  with a size of 0 and its line behind all its bytes (`LastAfter`, `LastParts`), so one that
  has the size is whole.

Only model-checked, because it is liveness, which this prover does not reach: `PoolFills`,
`RestartRevives`, `EveryRequestAnswered`, `DaemonComesUp`, `CallsEnd`, `ExchangeEnds`,
`DownDelivered`, `UpDelivered`, `TunnelEnds` and `EndsTogether`.

## Not modelled

- `status_refresher`, `GET /health`: a report nothing reads back.
- The debug endpoints: they run arbitrary `warp-cli` commands by hand.
- `read_headers`, `parse_target`, tokens, TLS settings: single messages, no state.
- The websocket handshake's texts, base64 and JSON: formatting of single messages.
- Docker files, recipes and probes.

## Plan

Done: every module above, and a proof of every safety property that a passing run checks.
What is left is an abstract specification of a byte stream with two ends, which Relay and
ForwardProxy both implement: its order is proved of each, its refinement is not stated yet.
