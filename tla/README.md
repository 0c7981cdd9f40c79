# TLA+ models of OrbotLibrary

OrbotLibrary embeds the Tor client in an Android app. The app talks to a small
facade (`OrbotManager`), the facade to an Android service (`TorService`), and the
service starts the `tor` daemon through a shell, drives it over its control port,
starts an HTTP proxy next to it and, on rooted devices, redirects traffic with
iptables or, without root, with a VPN. Behind the VPN names are resolved by pdnsd, a
caching DNS server in C that is built with the library. This directory holds TLA+
models of those parts, the TLC runs that check them and TLAPS proofs of every safety
property the runs check.

## Inventory

| Part | State it keeps | Operations | How it interacts |
|---|---|---|---|
| Control connection (`TorControlConnection.java`) | `waiters`, the parse threads, their stored exception, the event handler | `sendAndWaitForResponse` under every command, `shutdownTor`, `launchThread`, `react`/`readReply`/`handleEvent` | called by all threads of the service; calls back `TorEventHandler` on the parse thread |
| Tor service (`TorService.java`, `TorEventHandler.java`) | per instance: `mCurrentStatus`, `conn`, `mShell`, `mShellPolipo`, `isTorUpgradeAndConfigComplete`, the executor, the receiver | intents (start, status, HUP, new identity, exit node, transparent proxy, flush, VPN), `onCreate`, `onDestroy`, connectivity changes | launches Tor through the root shell, owns the control connection, broadcasts its status |
| OrbotManager (`OrbotManager.kt`) | `torStatus`, registered receivers, the handler's queue | `startTor`, `stopTor`, `reconnectTor`, exit node, bridges, identity | sends intents, receives local broadcasts |
| Root shell (`RootCommands`: `Shell.java`, `Command.java`) | the list of commands, write and read positions, `close` | `add`, the writer and reader threads, `waitForFinish` with its timeout | used by the service, the transparent proxy and polipo |
| VPN manager (`OrbotVpnManager.java`, `Tun2Socks.java`) | the tunnel interface and its descriptor, the SOCKS bypass thread, the tun2socks thread | start, stop, revoke | uses the SOCKS server and pdnsd |
| Transparent proxy (`TorTransProxy.java`) | a shell; the rules live in the kernel | enable and disable for all apps or per app, tethering, flush | called by the service's threads |
| SOCKS server (`jsocks`: `ProxyServer.java`, `UDPRelayServer.java`) | per session: two sockets, two pipe threads, a mode, a last-read time | CONNECT, BIND, UDP ASSOCIATE, abort | used by the VPN manager |
| pdnsd: cache lock (`cache.c`) | readers and writers inside and pending, the suspension of readers | read, write, timed, yielded and soft locks | under every use of the cache |
| pdnsd: cache (`cache.c`, `hash.c`) | entries by name, record sets by type, the list by age, sizes, the disk file | add, look up, delete, invalidate, empty, purge, save, load | filled by queries, the configuration and pdnsd-ctl |
| pdnsd: query engine (`dns_query.c`) | per server a socket, a message, a state; the best answer so far | ask servers in batches over UDP and TCP, judge replies, retry, cancel | run by answering threads; fills the cache, asks for server tests |
| pdnsd: resolver (`dns_query.c`) | the recursion: names, servers, hops | resolve from the cache, the configured servers and the name servers found | calls the query engine, and itself |
| pdnsd: answering threads (`dns_answer.c`) | places for threads, sockets, the reply in the making | receive, check, compose, cut, send | call the resolver |
| pdnsd: server data (`servers.c`, `servers.h`, `conff.c`) | sections, addresses, up or down, time of the last test, users of the data | tests, marks, changes, reload, root discovery | the status thread, queries and pdnsd-ctl at once |
| pdnsd: control socket (`status.c`, `pdnsd-ctl.c`) | the command under way | add, negate, delete, invalidate and empty records; mark and change servers, reload | one thread beside those of the queries, on the cache and the server data |
| pdnsd: configuration (`conf-parser.c`, `conf-lex.c`) | none of its own | parsing | produces the inputs of the others |
| netcipher, installers, preferences, sample app | files and preferences | copying, reading | no state machine of their own |

What is hard here is concurrency without locks. `TorService` shares `conn` and
`mCurrentStatus` between the main thread, three pool threads, the thread of
`onCreate`, the stop thread, one thread per connectivity change and the parse
thread; destroying the service ends none of them, and the next `startService`
makes a second instance next to them. Outside the process there is a daemon that
survives it, may die, may be slow, and answers a protocol in which replies carry
no number. In pdnsd it is concurrency with hand-made locks, C's manual ownership of
sockets and memory over dozens of error paths, a recursion that the servers of the
network direct, and accounting (sizes, lists, counts of threads and users) kept by
increments on every path.

For each part, correctness means:

- control connection: a reply reaches the caller whose command it answers, once;
  callers do not wait for ever while Tor lives and one thread parses; with two
  parse threads, no caller is answered twice and callers are answered in order;
- Tor service: the announced status describes Tor; one daemon, owned by the
  current instance; stopping ends; intents are served; a surviving daemon is found;
- OrbotManager: its status follows the service's and never sticks;
- root shell: commands run in order, each finishes or the shell is closed;
- VPN, SOCKS: descriptors and sockets are closed once and by their owner;
- cache lock: a writer is alone, no thread sleeps for ever, the exit does not hang;
- cache: list and sizes agree with the table, the size is bounded, local records
  stay, records that exclude one another do not meet;
- query engine: sockets and messages have one owner, the best answer is used,
  silent servers are tested, every query ends;
- resolver: it ends, comes back to no server and no name, respects local records;
- answering threads: the limits hold, a thread gives everything back, replies fit
  their size and say what is true;
- server data: nothing in use is freed, no test that is due is lost.

## Modules

### ControlConnection, ReplyChannel

`ControlConnection` has one action per stretch of code between two monitor
operations. `pc` and `waiterOf` are the callers; `monitor` and `lock`
the two Java monitors (`this`, held for a whole call including the wait, and
`waiters`, held from the write to `addLast` and while `react` takes a waiter).
`waiters` and `responses` are the list and the `Waiter.response` fields, `parsers`
the parse threads with what each has read of a reply ("half": some lines of it,
"block": it is inside a data block, "full": all of it; "ended": `react` returned;
"failed": `parseThreadException` is set; "crashed": it died of an unchecked exception).
`Enter`, `Write`, `WriteFails`, `Queue`, `Return`, `Interrupt` are
`sendAndWaitForResponse` (a caller that is refused because `parseThreadException` is set
changes nothing: `Enter` is then disabled); `ReadStatusLine`, `ReadDataLine`,
`ReadShortLine`, `MisreadDataLine`, `HandleEvent`, `HandOver`, `EndOfStream` are `react`
with `readReply`, one line at a time, and `handleEvent`, of which only its exceptions are
kept; `ShutdownTor` and `LaunchThread` are the methods of those names. Tor is external:
it answers in order, in one line or several, emits events, obeys HALT, dies with any
suffix of its output lost. Command ids are history: no guard reads them, because the
protocol has none.

There may be more than one parse thread. `launchThread` starts one whether or not there
is one already, and `TorService` sets `conn` (`TorService.java:1094`) before it calls
`launchThread` on it (1095): a command of another thread in between finds no thread and
starts one in `checkThread`. The threads then read one `BufferedReader`, line by line, and
take from one list of waiters. `Doubled` names that state. What is lost in it: a reply may
be split between the threads, or misread, and two replies may be handed over in either
order, so a caller may get another caller's reply or wait for ever. What is left: no
waiter is answered twice, and waiters leave the list in the order in which they came.

`ReplyChannel` is the promise to the callers: a queue of calls answered oldest
first, each once, each with its own answer, until the reply to a HALT ends it; once two
threads parse, each still once and oldest first, but with any answer (`AnyAnswer`).
`ControlConnection` implements it under the mapping in `Channel`.

### TorService

`svc` is the sequence of service instances with their fields, `cur` the one
Android sends intents to, `tasks` every thread and queued intent of every
instance with a program counter. One action is the code between two accesses to
shared fields, so the races the Java code has are the model's interleavings.
`StartService`, `OnDestroy`, `ProcessKilled`, `ConnectivityChange` are Android's
callbacks; `RouterRuns`, `Route` are `mExecutor` and `IncomingIntentRouter`;
`Configure`, `FoundExisting` the thread of `onCreate`; `StartGuard` to
`ExecTimesOut` and `StartEnds` are `startTor` with `runTorShellCmd`; `ConnectLoop` to
`GetInfo` are `initControlConnection`, run by both; `CircuitBuilt` and `AnnounceOn` are
`TorEventHandler.circuitStatus` on the parse thread; `StopBegin` to `StopEnd` are
`stopTorAsync`; the rest are the other intents. The control connection appears
through what ControlConnection shows of it: a command is answered, refused before
authentication, fails, or hangs when Tor is gone (`CommandFails`). `Faults` selects what
may go wrong.

Launching takes several steps because the shell is a thread of its own. `mShell.add`
refuses a command once the shell is closed, and is called twice: for the test of the
configuration (`Verify`, `Verified`) and for `tor` itself (`AddTor`). What was accepted is
in `launches` until the shell runs it (`RunTor`), and it does so although `onDestroy` has
closed it meanwhile, the waiting thread has given up after its timeout (`ExecTimesOut`) or
the process has died. `tor`, `launches` and `online` are external.

Connecting takes two steps, `Connect` and `LaunchThread`, and `parsers` is 2 when a
connection has got two parse threads between them: a command on it may then fail or hang
though Tor lives (`Split`). `addEventHandler` is `synchronized`, so a thread that hangs in
it keeps the others out (`Handling`). A HUP does not check `conn`: the
`NullPointerException` (`TorService.java:487`) goes through the pool thread to Android's
handler and ends the process (`RereadConfigCrashes`).

### ServiceStatus

What anyone who follows the service may rely on, with the threads, the daemon and
the connection taken away: an instance has a status, was asked to start or not, is
subscribed to a Tor daemon or not, and lives or not. STARTING takes a start
intent, ON a subscription, and only a destroyed instance announces STOPPING and
OFF. It is used twice: `TorService` implements it under the mapping `Followed`
(`KeepsStatusPromise`), and `OrbotManager` runs against it. Composing the facade
with `TorService` itself would multiply two large state spaces; through
`ServiceStatus` the two are joined by a refinement that is checked and proved.

### OrbotManager

The facade runs on the main thread. `StartTor`, `StopTor`, `ReconnectTor` and
`Request` are the calls of the app; a call that the code refuses with an exception
is a disabled action. `calls` are the `startService` and `stopService` calls on
their way, carried out in order by `ServiceCall`; `casts` are the broadcasts that
`LocalBroadcastManager` has queued, each with the number of registrations it goes
to (`startTor` registers the receiver again at every call), and `messages` the
queue of `messageHandler`. The service's threads make an intent with a status
(`Speak`, `SendCallbackStatus`) and send it in a step of its own
(`SendBroadcast`), because nothing keeps two threads from overtaking each other
between the two. The death of the process is left out here: the facade lives in
the same process and dies with it.

### RootShell, SerialExecutor

`RootShell` is one shell: callers in `add` and `waitForFinish`, the input thread
(`WriteCommand`, `WriteExit`, `WriteUnread`, `InputEnds`), the output thread (`ReadToken`,
`ReadLine`, `ReadNothing`, `BreakOnClose`, `EndOfOutput`, `Terminate`), and the
external shell process, which reads commands one at a time and may be killed. A command
may leave a process behind (`Leaves`), and the command of a shell that is killed may
outlive it: both hold the shell's pipes (`held`), print lines that no command is waiting
for, and keep the output thread in `readLine` after the shell is gone, since that returns
null only when nobody has the other end. `close` is read without
the lock, as in the code. `SerialExecutor` is the promise: commands run one at a
time in the order they were added, and the code that is reported for one is the
code it ended with. `ran` is history.

### PdnsdCacheLock

The read/write lock that `cache.c` builds from a mutex and two condition variables.
What runs under `lock_mutex` is one step; a thread asleep in a condition variable is
first woken (signalled, broadcast to, timed out or spuriously) and tests again when
it has the mutex. `Threads` read and write, `Control` is the thread of pdnsd-ctl, which
takes the timed lock and yields it in `empty_cache`, `main` is the main thread after
its signal: it takes the soft locks, which give up after a number of tries and wake
nobody, and exits. `TestWriteAlone` and the other definitions marked as mutants are
not part of the model: they are plausible mistakes the properties are tried against.

### PdnsdCache

The operations are functions on `cache`, a record of the table (`ent`), the list
`rrset_l` (`list`), `cache_size`, `ent_num` and `insert_sort`; each keeps the names it
has in the code (`insert_rrl`, `purge_cache`, `add_cache`, `del_cache`,
`invalidate_record` ...). What one write lock covers is one step; `lookup` is the gap
between the read lock and the write lock of `lookup_cache`, `sweep` the position of
`empty_cache` between two hash buckets. `ExitPurge`, `WriteDisk`, `Crash` and
`Restart` are the life of the disk cache. An allocation of `add_cache` may fail at
each set (`Failures`). `doomed`, `wrecked` and `aged` are history.

The commands of the control socket that change the cache are actions with the names of
their cases in `status_thread`, which takes one at a time (`Command`). `CTL_ADD` of a
wildcard first sets DF_WILD on the name it is for, under a lock of its own, and refuses
if that name is not there; `ctl` is the record it has still to add, and `AddWildcard`
adds it whatever became of the name in between. `CTL_NEG` negates a name or a type,
`CTL_RECORD` deletes or invalidates, `CTL_EMPTY` hands the names its rules select
(`Selected`, first match decides) to the sweep. The start adds `Local`, the records of
the configuration, wildcards in the same way (`AddLocal`), and then reads the disk.

### PdnsdQuery

One call of `p_recursive_query`. `st` holds the `query_stat_t` of each server with its
socket and buffers as resources that can be leaked or given back twice; `loop` is the
position in the function (start a batch, poll, go through what is ready, cancel, use
what was saved). Replies are records of what the code looks at: the header, the
sections and, for each record, whether it can be read, is malformed, cut or of another
type. `p_query_sm` with both transports, `p_exec_query` with its retries and the
sorting of sections, `save_query_result`, `p_cancel_query` and the tests at the end
are modelled; system calls have every outcome they may have.

### PdnsdResolve

The mutual recursion of `p_dns_cached_resolve`, `p_recursive_query`, `auth_ok` and
`r_dns_cached_resolve` as a stack of frames. A frame has the servers to ask, the name
servers an answer told and those already tried; the servers that were asked for the
same name further out (`qslist`) and the names asked for further out (`qhlist`) are
what the code's two checks for circles read. Servers answer as `World` says; records
age and servers go up and down between steps.

### PdnsdAnswer

The two server threads and a thread per request. `held` are the buffers and the
socket a thread has pushed a cleanup handler for, or holds without one. `process_query`
is the code's cascade of checks as an operator on the message; of `compose_answer`,
`Hop` is one name resolved (questions and their aliases, in order, marking in `sva` what
could be added again), `Authority` one step through the list `exts` (`ar` in the code) of
what to add to the authority section, `NextHost` and `NextAddress` a host looked up for
the additional section and one of its addresses, added if it fits. Sizes count records.
`CloseSocket` is the end of a server thread, `NotCreated` a thread that could not be made.

### PdnsdServers

`servers` are the sections with their addresses; `lock` is `servers_lock`, which the
status thread keeps over several steps and lets go in a test or in root discovery.
`Created` to `Wake` are `servstat_thread`, with `retest` and `uptest`; `test_onquery`
to `sched_server_test` the query threads; `CTL_SERVER` and `CTL_CONFIG` the commands of
pdnsd-ctl: a section is named by index, by label or with all others (`Targets`), then
`mark_servers`, or for a single section `change_servers`, or `reload_config_file` runs,
the last two with their wait for exclusive access;
`MainCreates` and `MainAssigns` the two steps in which `main` starts the thread.
Whether a thread still has a pointer into freed data is kept in `stale`.

The parts of pdnsd meet through what each shows of itself: `PdnsdCache` runs what a
write lock of `PdnsdCacheLock` covers in one step; `PdnsdResolve` uses of the query
engine one server's answer at a time, and of the cache that its records may go at any
time; `PdnsdAnswer` takes from the resolver any of the results `Resolve` lists, the -1
of the query engine included; `PdnsdServers` takes from the engine the outcome of a
test and the `sched_server_test` calls that `PdnsdQuery` records in `tests`.

### MC modules

`MCControlConnection`, `MCTorService`, `MCRootShell` and `MCOrbotManager` are the
instances of the runs; `MCRootShell` adds the symmetry of the callers, used where
only safety is checked. `MCPdnsdCache`, `MCPdnsdQuery`, `MCPdnsdResolve`,
`MCPdnsdAnswer` and `MCPdnsdServers` define names, records, messages, servers and
configurations, chosen so that every branch is taken.

## Runs

| Run | What it shows |
|---|---|
| `control` | two callers, three commands, one event, HALT, death of Tor, one or two parse threads: `IInv` (the queues and the lines of the stream line up, replies match, while one thread parses; no waiter is answered twice, whatever parses), `HeadReplyFindsItsWaiter`, `ImplementsChannel`, and `CallReturns`: a waiting caller returns while Tor lives and one thread parses |
| `service_safety` | two instances, four tasks, timeouts of the shell, late cookies, process deaths: `IInv` (ON needs a subscription), `LaunchedByCurrent` (a daemon comes up only by a command that a shell accepted from the current instance), and `KeepsStatusPromise` |
| `service_liveness` | `StopCompletes`, `IntentsServed` with a failing configuration, a port that does not open, a dying Tor, a HUP without a connection and changing connectivity |
| `service_restart` | `AdoptsSurvivor`: the restarted service takes over the running Tor, in a race with start intents, unless that race makes two parse threads |
| `shell` | two callers, three commands, timeouts, a closing and a dying shell, processes left behind, stray output: `IInv` (pipes and threads line up), `IsSerial`, and, unless a command or a process left behind never ends (`Occupied`), `CommandsFinish`, `CloseEnds` |
| `manager` | three calls, all requests, two instances: `IInv` (with `ListenerIsTold`), `OnIsReal`, `StoppedMeansNoService` |
| `cache_lock` | four query threads, the control thread, the exit: `Exclusion`, `WaitersServed` (`PendingCounted`, `SuspensionEnds`, `NoLostWakeup`), `ExitEnds` |
| `cache` | answers, local records, lookups, emptying, failing allocations, exits, crashes, restarts: `Accounted` (`SizesExact`, `ListExact`, `ListSorted`, `NoEmptyEntry`, `SizeBounded`), `NoConflict`, `EmptyComplete`, `LocalKept` |
| `query` | a configured server and one found on the way, eleven kinds of reply, both transports: `ResourcesOwned` (`Owned`, `Pollable`, `NothingLeft`; one double free excepted, "refreed"), `RightAnswer` (`BestUsed`, `RejectedUnused`), `ServersSpared` (`Tested`, `SendsBounded`), `AllAsked`, `Ends` |
| `resolve` | two domains whose name servers depend on one another: `NoCircle` (`HopsLeft`, `NoCycle`), `NotAskedTwice`, `LocalFirst`, `QueryEnds` |
| `answer` | three requests, two faults, one place and one in the queue: `ThreadsAccounted` (`PlacesExact`, `AllCounted`, `LastServerExits`, `NothingHeld`), `KeepsToLimit`, `RepliesTrue` (`NoStorm`, `NoDoubles`, `AuthorityTrue`, `CodeConveyed`), `ThreadsEnd` (unless a TCP client does not read its reply) |
| `servers` | five configurations, a query thread, the status thread, one command: `DataGuarded` (`UsersCounted`, `NothingFreedInUse`, `NoLostBroadcast`), `ThreadAwake` (`PromptTest`, `PeriodicServed`, `InterruptionEnds`), `TestsDone` |

Names in parentheses are parts of the invariant before them, each stated on its own in
the module; the invariants also hold each module's `TypeOK`. The theorems below about
`TypeOK`, `ReplyMatches`, `AnsweredOnce`, `OnMeansSubscribed`, `TokenMatches` and
`ListenerIsTold` follow from the `IInv` that is checked.

All runs pass. Each property is stated in words at its definition.

### Where code and text disagree

The models contain behaviour that contradicts a sentence of the repository or that a
reader would not expect. The properties above do not claim the contrary.

- Control connection: when the stream ends between two replies, `react` returns
  (`TorControlConnection.java:311`; "nothing received so far, can exit cleanly", line
  137) and wakes no waiter: a caller in `getResponse` waits for ever with the
  connection's monitor (`EndOfStream` with a caller waiting).
- Control connection: it may get two parse threads (`TorControlConnection.java:277` starts
  one unconditionally; see ControlConnection above). Replies may then be split, misread,
  or given to the wrong caller, and callers may wait for ever while Tor lives. Every
  claim about order excepts this (`Doubled`; `parsers` = 2 in `TorService`).
- Tor service: `killAllDaemons` halts Tor only over `conn`; a stop between the launch
  and the connection announces OFF ("All tor-related services and daemons are stopped",
  `TorServiceConstants.java:113`) with Tor running. So does a stop while the command that
  starts Tor is still in the shell's list: `Shell.java:216-235` writes and runs what was
  added before `close`, and the daemon comes up after `onDestroy` with nobody to stop it.
- Tor service: `circuitStatus` reads the status and announces ON in a step of its own, so
  a late ON may overwrite the STOPPING or OFF of a stop. The threads of two connectivity
  changes may overtake each other and leave `DisableNetwork` at the older value
  (`TorService.java:1352`). ON is announced by the first circuit, before `startTor` has
  run polipo; polipo outlives every stop.
- Tor service: a HUP while `conn` is null ends the process, with every intent that is
  queued: `requestTorRereadConfig` catches only `IOException` (`TorService.java:487`).
- Root shell: the output thread compares its index with the size of the list and then
  reads `close`, unlocked; a command added and a close between the two make it break
  off ("break on close after last command", `Shell.java:264`) with that command unread.
  `add` reads `close` before it takes the lock, so a command can join a closed shell.
  One that joins when the output thread has ended is never told anything; only the
  timeout of its caller ends it.
- Root shell: "terminated" (`Shell.java:299`) is reached when the output ends, not when
  the shell does. A process that the shell started and that outlives it keeps the output
  thread in `readLine`, and the commands left over unfinished. polipo in the foreground
  of `mShellPolipo` also keeps that shell from ever reading the `exit` that `close` makes
  the input thread write: neither the shell nor its threads end. `CommandsFinish` and
  `CloseEnds` except such a process (`Occupied`).
- Facade: a message posted before `stopTor` is handled after it, and `startTor` then
  refuses ("Tor is already running") with nothing running; a broadcast made with OFF and
  sent after the one with ON makes `stopTor` refuse ("Tor isn't running").
- Cache: "Do not clobber local records" (`cache.c:1922`) looks only at record sets, so
  a negative answer from a server replaces an entry that the configuration negated.
  `invalidate_record` changes stamps in place, after which the list is no longer
  "sorted by age" (`ListSorted` holds until then). A record that was not to be cached
  gets `min_ttl` when it comes back from disk. A failed allocation can leave an empty
  entry that `purge_cache` does not reach (`wrecked`). So can a name negated with
  pdnsd-ctl: a negative set that a query brings in later ends the negation but leaves
  DF_LOCAL, and once `add_cache` has deleted that set for one it then refuses
  (`cache.c:1946-1953`) the entry is empty and, being local, is never purged.
- Query engine: `p_recursive_query` may return -1 or any code of a server, though
  `dns_query.c:3470` says "RC_NAMEERR or RC_SERVFAIL indicates a resolve error"; -1
  reaches `compose_answer`, and the client is told code 15.
- Query engine: a server that was asked once before, and asked again over TCP, may
  announce a reply of length 0. `realloc_or_cleanup` (`dns_query.c:785-791`, called at
  963) then calls `realloc` with that length, which frees the buffer and returns NULL, and
  frees it again. `Owned` excepts that buffer, and nothing else ("refreed").
- Resolver: a timed-out entry is to be used "when no new one is available"
  (`dns_query.c:3532`); it is used only for SERVFAIL.
- Answers: messages that are too short or have another opcode or bits in Z are answered
  before the check that is to discard replies (`dns_answer.c:1210`). `NoStorm`, which is
  about what pdnsd itself sends, holds. A NAMEERR reply gets its OPT record without a
  size check. An alias loop is followed, and sent, `MAX_HOPS` + 1 times. "Check if
  already added; no double additionals" (`dns_answer.c:668`) misses one record: answers of
  type SOA are not marked (`dns_answer.c:568`), so the SOA record asked for in one
  question is sent again as the authority for the next; `NoDoubles` excepts it.
- Answers: `tcp_qtimeout` bounds how long a TCP client may take to send its query; nothing
  bounds how long it takes to read the reply, which `write_all` (`dns_answer.c:1954`)
  sends over a blocking socket. A client that does not read a reply larger than the
  socket's buffer keeps its place among `proc_limit` for ever, and with all places so
  taken the queued requests never get one. `ThreadsEnd` excepts these (`WaitsForClient`).
- Server data: a wait in root discovery that times out frees the addresses found and
  stays in its loop (`servers.c:403`), so they are freed again. In that wait the thread
  is not counted as a user: a reload frees the section it is at, and new queries can
  keep it waiting for ever. `main` starts the thread without the lock and may store its
  id after it has ended; nobody starts it again then. With `root_server=discover` and
  `interval=ontimeout` the thread ends when no server is up and no command brings it
  back. A mark or retest made during a test is overwritten by the result. `Astray`,
  `Discovering` and `Crashed` name these states where a property has to except them.

### Bounds and fairness

Bounds. Three commands and two callers are what it takes for an interrupted
caller's waiter, a caller behind it and a HALT to be outstanding together; one
event is enough to stand between two replies. Two parse threads (`MaxParsers`) and two
commands (`MaxShared`) split a reply and swap two of them. Deadlock checking is off
in `control`: the commands are used up, or Tor is gone and whoever waits for a reply waits
for ever. For the service, two instances are
a start, a stop and a start again, or a restart after a kill; four tasks hold two
starts next to the thread of `onCreate` and a stop. `MaxTries` stands for the 3
and 100 connection attempts of the code, `PoolSize` for its 3 pool threads: the
smaller values exhaust them with fewer tasks. `MaxGen` is the number of daemons;
a launch beyond it fails, which a launch may do anyway. `service_restart` has start
intents only: they are what races with `findExistingTorDaemon`. The service runs turn
deadlock checking off because a stopped service really stops. Three commands are
what a shell needs for one that was read, one that runs and one still to be
written; two unread lines hold a token and a stray line in either order. For the
facade, three calls are a start, a stop or reconnect, and a third in the middle of
what those two left behind; `MaxPending` bounds broadcasts and messages together,
and two of them can already be out of order.

Four query threads are what it takes for `SUSP_THRESH` to suspend a reader (three
writers pending next to it); two tries stand for the tries of a soft lock. Three names
(a domain, a name in it, its wildcard) and the four kinds of types that exclude or
tolerate one another make every case of `add_cache`; four operations fill the cache
past its limit of ten units and leave one for what is to be observed. A record is
stamped now or one tick ago and the clock makes one more, which lets the short ones
expire and the others live. No allocation fails while an entry is there that one has
already failed for. Two servers, one at a time, make a batch, a second batch, an
answer put aside and a better one; `MaxStray` is one reply to be ignored or one partial
read. With two domains that depend on one another and two hops, both checks for
circles and the end of the hops are met; two queries show what the first left in the
cache. Three requests fill the one place and the queue of one and have one dropped;
`MAX_HOPS` = 1 makes an alias loop of two and its end. One command of pdnsd-ctl meets
the status thread in every state; `PINGREPEAT` = 2 has a first and a last try. The sets
of messages, replies and answers have one member for each branch of the code.

Fairness. Threads that can run are scheduled by the JVM; Tor, while up, answers
what it reads (`control`), and in the service model a halted Tor exits
and a running one writes its cookie and builds circuits. Nothing is assumed of
callers, Android, connectivity or the death of Tor, and in the service model nothing of
the shell: whoever waits for a command of it does so with a timeout. For the shell, the
input and output threads are scheduled and a shell that is idle reads its input; its
commands and what they leave behind may never end, and nobody's timeout is relied on. The
facade has no liveness property: `torStatus` can
stick, as said above. In pdnsd, threads that can run do; whoever waits for a mutex gets
it in the end (strong fairness in `PdnsdServers`, where other threads take it again and
again), tests and polls end because they have timeouts, and a TCP client that stops
sending is cut off by its own, but one that does not read its reply is not: `Send` is
fair only over UDP. No fairness is assumed of clients, servers, pdnsd-ctl, failures or
the clock. `ExitEnds` needs only the main thread to run. `Ends` and
`QueryEnds` need the one thread of the query. `TestsDone` assumes that
`pthread_create` succeeds. Where a call can hang for
ever, it may (`hung`).

## Proofs

`ControlConnectionProofs` proves, for any set of callers and any bounds,
`TypeCorrect`, `Invariance`, `RepliesFindTheirWaiters`, `RepliesMatch`,
`WaitersAnsweredOnce` and `ConnectionImplementsChannel`. None of the properties is
inductive: that the oldest reply belongs to the oldest waiter follows from how
four queues line up. `IInv` says it in two halves.

One half holds with any number of parse threads: the lock is held exactly between the
write and `addLast` (`LockInv`), waiters queue in the order of their commands
(`WaitersOrdered`), and answered waiters are older than queued ones and have one answer
each (`AnswerInv`). `WaitersAnsweredOnce` and the steps of `ReplyChannel` after `Double`
rest on it alone.

The other half, `LinedUp`, holds until there is a second parse thread (`Doubled`): unread
commands and replies are in the order of the commands (`CommandsOrdered`,
`RepliesOrdered`); what is on the wire is awaited, no older waiter awaits in vain, and
while Tor lives nobody does (`MatchInv`), which with `LockInv` is why a reply cannot
overtake its waiter; the reply to HALT is the last (`HaltInv`); the lines still to be read
fit what the parser is inside of (`StreamInv`), so that it misreads none and does not end
while Tor lives (`ParserInv`). `OrderStep` proves the first half for every action,
`LinedStep` the second with one lemma per action. `RepliesFindTheirWaiters`,
`RepliesMatch` and the rest of the refinement follow from `HeadMatches`.

`TorServiceProofs` proves, for any intents, faults and bounds, `Invariance`,
`TypeCorrect`, `OnIsSubscribed` and `OnlyCurrentLaunches`. `IInv` adds to the types
that an open shell belongs to the current instance (`ShellInv`) and that whoever is
about to announce ON has a subscription (`SubscribedInv`). `TaskStep` handles every
step of one task, whatever field it sets; the other lemmas cover the command that a shell
runs, new tasks, new instances and the death of the process. `OnlyCurrentLaunches` is what
closing the shell gives: no command to launch Tor is accepted after `onDestroy`, and each
accepted one is run at most once. When it is run is not bounded, so a daemon may still come
up later (see above).

It also proves the refinement `Spec => KeepsStatusPromise`. Besides `IInv` this needs
that a thread that still runs belongs to a living instance and that a stop thread
belongs to a destroyed one, whose number is never current again (`TaskInv`,
`CurrentLives`): this is why STOPPING and OFF can only come from a destroyed
instance although any thread may outlive it. A thread's step either leaves what a
follower sees, or is one subscription or one announcement (`ThreadRecord`,
`RecordRefines`); `StartService`, `OnDestroy` and `ProcessKilled` are `Create` or
`Deliver`, `Destroy` and `Killed`.

`RootShellProofs` proves, for any callers, codes and bounds, `Invariance`,
`TokensMatch` and `ShellIsSerial`. `InputInv` says where each command is: the ones
that ended, the one that runs, the ones in the pipe and the ones not yet written
are the list, in order. `OutputInv` says that the unread tokens are those of the
commands from the reader's index on, without a gap; `CodeInv` that a token carries
the code its command ended with and that a reported code is that code. The token
that comes next then belongs to the command the output thread is at, which is what
the code checks only by comparing numbers.

`OrbotManagerProofs` proves `Invariance`, `OnNeedsSubscription`, `ListenerFollows`
and `StopLeavesNoService`. `OnInv` extends
the claim about `torStatus` to everything that carries a status on its way there;
`LastIsStop` says that with the receiver unregistered, and no request
made since, the last call under way is `stopService`, since `stopTor` sends its status request before it.

`PdnsdCacheProofs` proves `Invariance`, `WriterIsAlone` and `WaitersAreServed` for
any number of threads. `LockInv` says that the two lock variables are the numbers of
threads inside, the soft lock's and the exit's included. That no sleeper is forgotten
needs to know who will end a suspension: `SuspInv` says that suspended readers wait for
a writer, or for one who waits *without a timeout*. Only the control thread's
wait can time out, and it leaves the suspension as it is. `WakeInv` says
who will signal: over a taken lock a writer inside, over a free one somebody woken,
and if all of those are readers, one that will not be suspended when it tests.

The same module proves of `PdnsdCache`, for any names, types, answers, local records,
sizes, ttls and bounds, `CacheAccounted`, `CacheNoConflict`, `CacheEmptied` and
`CacheLocalKept`. The operations are folds: over the types of an entry, the sets of an
answer, the list, the file, the records of the configuration. A fold is first turned into
the sequence of its steps (`PurgeAllSteps`, `ReplaceSetsSteps`, `ReadAllSteps` ...), and
what holds before and after each step then holds at the end by `Induction`, which the
module proves from the well-foundedness of the numbers (library theorems that take an
operator could not be used). Sums over entries and sets are treated in the same way.

The inductive invariant is `CacheIInv`. `Ledger` holds the books. It says more than
`Accounted` in three places: every *entry* contains nothing it could not have been given
(`Compatible`); the *disk file* contains only what such entries become on disk
(`DiskFile`), since what is in the cache today may come back after a restart; and the
bound holds without the entries an allocation has failed for (`InBounds`), so that it
holds again as soon as they are gone. Inside an operation the books are out of order: while
a set is put into an entry the list lacks it (`Lists` says what it lacks), and while
`add_cache` changes an entry its size is out of `cache_size`; the lemmas about the smaller
operators say how far. `Clerks` holds the types of the other variables, `Sweeping` that
what `empty_cache` must still empty is in the buckets it has not reached.

Of purging the proofs need three facts (`Purged`, `NoneEmptied`): it only takes away, it
leaves the local sets, and it leaves no entry without sets behind, because `PurgeOldest`
deletes the entry with its last set. That `purge_cache` reaches its bound needs that the
list is the whole of what can be purged: after a turn for each element, either the cache
is small enough or the list is empty.

What the proofs showed of the code: two records that exclude one another do stay apart,
but only among what comes in different calls, since `add_cache` (`cache.c:1748`) checks a
set against the entry that is there and not a new entry against itself; and an entry
without sets can also stay when an answer that says nothing is added to a name whose sets
have just timed out (`purge_cent` with `delete` 0, then nothing to put in). `NoConflict`
and `NoEmptyEntry` name these cases.

`PdnsdResolveProofs` proves, for any names, servers, referrals and hops, `Invariance`,
`RecursionEnds`, `DepthBounded`, `ServersAskedOnce` and `LocalStays`. The invariant
is about the stack of frames: the hops fall by one with each
frame; everything asked for further out is in `qh` or is the same question
(`Remembered`), which is why the next query for an address is a new one; the servers
`auth_ok` has collected avoid those that any list of the same question has asked
(`Collected`), and so does the list made of them (`AskedOnce`); a name the configuration
defines never gets beyond the lookup, and its entry stays in the cache (`CacheInv`).
`DepthBounded` bounds the C stack: never more than `MAX_HOPS + 1` frames.

The same module proves of `PdnsdQuery`, for any number of servers, any batches, replies
and configurations, `QueryOwnsItsResources`, `QuerySettlesForTheBest`,
`QuerySparesServers` and `QueryAsksAll`. `QueryInv` says what a server's state means for
its socket, message and buffer (`Owns`; the buffer that `realloc_or_cleanup` frees twice
only where the server is not waited for any more), and that no server is between two waits but the
one in hand (`ProgressInv`), which is why `p_cancel_query` and the timeout need to look at
waiting states only. `Remaining` counts, from the transport, the recursion bit and EDNS a
server is at, what may still be sent to it: with what was sent it never exceeds five.
`Started` says which servers the batches have reached, wherever the loops are. `AnswerInv`
says that what is put aside has the greatest quality so far (`quals`) and holds nothing a
reject list excludes, `AliveInv` that the entries and lists alive are those of the reply in
hand, of what is put aside and of what is used. There is one lemma for each state of
`p_query_sm`, each judgement of a reply and each loop; most reduce to `ServerKept`, which
needs of a step only what it does to the one server it handles.

`PdnsdServersProofs` proves `Invariance`, `DataIsGuarded` and `StaysOn` for any threads,
configurations, addresses and commands. `Locked` names, for every place a thread can be
at, whether it owns `servers_lock`: whoever is in the middle of something does, except
in the four waits and uses that let go of it. `Counted` gives the counters exactly.
With the lock, and no user counted, a command that has access is alone with the data
(`StaleInv`): only discovery's wait, which `servers.c` does not count as a use, can find its
section gone. `PassInv` and `TestInBounds` keep a pass and its tests within what is
left of the sections: a change of one section's addresses does not shorten the list,
and a reload waits for the tests. `StartInv` says when the thread's id may
lie. `StaysOn` is `ThreadAwake`: a test that was asked for finds the thread awake or
signalled, a section tested at intervals finds it running, and an interruption is never
slept over. Only the end of a pass puts the thread to sleep or ends it, so `KeepInv` says
what the pass knows by then: `keep_testing` is set for every section tested at intervals
that it has passed, unless sections were replaced under it, which interrupts the pass. `SigInv` says that a
query can owe a signal only while it has the lock. The two races in which the thread is
lost (`Astray`) are the only exceptions. There is one lemma per action, for each half.

`PdnsdAnswerProofs` proves `Invariance`, `ThreadsAreAccounted`, `RepliesFit` and
`RepliesAreTrue` for any messages, names, cache contents, results of the resolver, limits
and failures. One half of `IInv` is about threads: what a request holds is what the
handlers of its place free (`Held`), a request without a thread is in the hands of exactly
one server thread (`ServerInv`), requests come in order (`InOrder`), and the counters are
the numbers of threads, `procs` only until the process is to end (`Counted`). The
other half follows an answer in the making (`Making`): every record of the answer that
could come again is in `sva`, and what is added later is looked up there (`Remembered`),
hence `Distinct` and `Apart`; the sections are filled one after the other and the
additional one only as far as there is room (`Staged`), so that a successful reply that
must be cut has none; `aa` lasts while all is local. A reply is `Ready` before it is cut
and `Limited` after. There is one lemma for each thing added and one for each action.

The assumptions are the named `ASSUME`s of the modules: types of the constants,
`None` not being a caller, codes differing from "none" and "lost", finitely many
threads that differ from the control and status threads (`LockAssumption`,
`ServersAssumption`), that what the configuration defines is marked as local and
that a server's error is one (`ResolveAssumption`), and that an entry of the cache has no
record twice in a set and a negative answer is a code of 4 bits or -1
(`AnswerAssumption`), that `Nothing` is no answer (`NothingAssumption`) and that replies and
servers have the fields the code reads (`QueryAssumption`), and that what is added to the
cache has names, flags, types and records of the model, and the numbers of the
configuration are integers (`CacheAssumption`).

Every invariant and every action property that a run checks is so proved, and the
refinements with them. The liveness properties (`CallReturns`, `StopCompletes`,
`IntentsServed`, `AdoptsSurvivor`, `CommandsFinish`, `CloseEnds`, `ExitEnds`, `Ends`,
`QueryEnds`, `ThreadsEnd`, `TestsDone`) need fairness and are checked by TLC only.

## Not modelled

The text of control commands and replies, torrc generation and bridge lists,
notifications and logging, hidden-service names, the iptables commands, polipo and the
VPN (their intents take a pool thread as `status` does and change nothing the model
has), what event handlers do with an event, file installation. Failing root commands in `stopTorAsync` and a
half-written cookie file are left out. The facade's setters that only write
preferences and the percentage parsed from log lines are left out as well.

Of pdnsd: the parser of the configuration file, the commands of pdnsd-ctl as text (and
SOURCE, INCLUDE and EVAL, which add records one by one as ADD does), pings and
interface tests (outcomes in `PdnsdServers`), the wire format of names and records (a reply is what the code finds in it), the dump of the
cache and the statistics, `add_reverse_cache`, which only builds entries, the start as a
daemon and the change of user. Numbers that only set a timeout are abstracted to the
timeout happening or not.

The VPN manager hands its descriptor to native code that is not in the repository. The
SOCKS server is still to be modelled. netcipher, the sample app and the content
providers have no state machine worth a model.

## Plan

Done: `ControlConnection` with `ReplyChannel`, `TorService` with `ServiceStatus`,
`OrbotManager`, `RootShell` with `SerialExecutor`; of pdnsd `PdnsdCacheLock`,
`PdnsdCache`, `PdnsdQuery`, `PdnsdResolve`, `PdnsdAnswer` and `PdnsdServers`. The pdnsd
modules declare no `RECURSIVE` operator, so that theorems can be stated about them.
Next, in this order:

1. `SocksSession`: the pipes, BIND and abort of `ProxyServer`. Abstract
   specification: a session whose sockets are closed once.
2. `VpnManager`: tunnel, bypass and tun2socks threads of `OrbotVpnManager`.
3. Configuration: `setConf`, bridge lines, torrc, the iptables sequences of
   `TorTransProxy`.
