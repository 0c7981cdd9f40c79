----------------------------- MODULE TorService -----------------------------
(***************************************************************************)
(* The Android service that owns the Tor daemon (TorService.java with      *)
(* TorEventHandler.circuitStatus): its instances, the threads each of them *)
(* runs, and the fields those threads share without any lock               *)
(* (mCurrentStatus, conn, the shells).  A thread is a task; one action is  *)
(* one stretch of code between two accesses to shared state.               *)
(*                                                                         *)
(* Destroying the service does not end its threads, and the next           *)
(* startService makes a new instance with fields of its own, so tasks of   *)
(* several instances run at once, against one Tor daemon.                  *)
(***************************************************************************)
EXTENDS Naturals, Sequences, FiniteSets

CONSTANTS Intents,       \* what the app asks for: a subset of AllIntents, "stop"
          Faults,        \* what may go wrong: a subset of AllFaults
          PoolSize,      \* threads of mExecutor (3 in the code)
          MaxInstances,  \* bound: service instances created
          MaxTasks,      \* bound: Android adds an intent or a thread up to here
          MaxTries,      \* attempts to connect (3 in onCreate, 100 in startTor)
          MaxGen         \* bound: a Tor launched beyond it fails

\* The intents about polipo, the transparent proxy and the VPN do nothing with what is
\* modelled here: like "status", they take a thread of mExecutor.
AllIntents == {"start", "status", "hup", "newnym", "exit"}
AllFaults  == {"config",    \* torUpgradeAndConfig throws
               "launch",    \* tor --verify-config or tor itself fails
               "cookie",    \* the control port opens before the cookie is written
               "giveup",    \* the control port does not open in maxTries seconds
               "death",     \* the Tor daemon dies by itself
               "kill",      \* Android kills the process of the service
               "network"}   \* connectivity comes and goes

ASSUME IntentAssumption == Intents \subseteq AllIntents \cup {"stop"}
ASSUME FaultAssumption  == Faults \subseteq AllFaults
ASSUME BoundAssumption  == /\ PoolSize \in Nat \ {0} /\ MaxInstances \in Nat
                           /\ MaxTasks \in Nat /\ MaxGen \in Nat /\ MaxTries \in Nat

VARIABLES
  cur,      \* the instance that receives intents, 0 if the service is not running
  svc,      \* the instances made so far: their fields
  tasks,    \* the threads and the queued intents of all instances
  tor,      \* external: the Tor daemon
  launches, \* external: tasks whose tor command a shell has accepted and not run
  online    \* external: the device has connectivity

vars == <<cur, svc, tasks, tor, launches, online>>
env  == <<tor, launches, online>>

Statuses == {"OFF", "STARTING", "ON", "STOPPING"}

\* conn and events name the daemon, by generation, that the control connection
\* and the event subscription go to; 0 is null.  auth is how far conn got: Tor
\* refuses a command before AUTHENTICATE and closes the connection.  parsers: conn
\* has no parse thread, one, or more (2).
NewService == [status |-> "OFF", conn |-> 0, auth |-> "no", parsers |-> 0,
               events |-> 0, ready |-> FALSE,
               shell |-> TRUE, built |-> FALSE,
               receiver |-> TRUE, alive |-> TRUE]

Task(i, k, p, a) == [inst |-> i, kind |-> k, pc |-> p, arg |-> a]

PoolKinds == AllIntents
TaskIds   == 1..Len(tasks)

Init ==
  /\ cur = 0 /\ svc = <<>> /\ tasks = <<>>
  /\ tor = [gen |-> 0, up |-> FALSE, halting |-> FALSE, cookie |-> FALSE,
            network |-> TRUE]
  /\ launches = {} /\ online = TRUE

-----------------------------------------------------------------------------
(* Shorthand for the steps of task t.                                      *)

At(t, kinds, p) == /\ t \in TaskIds
                   /\ tasks[t].kind \in kinds /\ tasks[t].pc = p
Self(t)    == svc[tasks[t].inst]
Set(t, f, v) == svc' = [svc EXCEPT ![tasks[t].inst][f] = v]
Goto(t, p) == tasks' = [tasks EXCEPT ![t].pc = p]
Fork(t, p, new) == tasks' = Append([tasks EXCEPT ![t].pc = p], new)
Room(n)    == Len(tasks) + n <= MaxTasks
Linked(g)  == g # 0 /\ tor.up /\ g = tor.gen

\* A command on conn.  null: NullPointerException.  Not authenticated: an error
\* reply.  Tor gone: the write fails, or the call waits for ever (CallReturns of
\* ControlConnection holds only while Tor lives, and while one thread parses).
Open(t)        == Linked(Self(t).conn) /\ Self(t).auth # "closed"
ConnNull(t)    == Self(t).conn = 0
ConnReplies(t) == Open(t) /\ Self(t).auth = "yes"
ConnRefuses(t) == Open(t) /\ Self(t).auth = "no"
ConnGone(t)    == ~ ConnNull(t) /\ ~ Open(t)

\* What two parse threads leave of a reply may be an exception, or nothing.
Shared(t)      == Self(t).parsers = 2
Split(t, p, h) == Shared(t) /\ \E q \in {p, h} : Goto(t, q)

\* Tor obeys, and the thread that asked goes on at next.
Answered(t, next, p, h) == ConnReplies(t) /\ (Goto(t, next) \/ Split(t, p, h))
\* The command fails: the thread goes to p, or waits for ever, at h.
CommandFails(t, p, h) ==
  \/ ConnNull(t) /\ Goto(t, p) /\ UNCHANGED svc
  \/ ConnRefuses(t) /\ (Goto(t, p) \/ Split(t, p, h)) /\ Set(t, "auth", "closed")
  \/ ConnGone(t) /\ UNCHANGED svc /\ \E q \in {p, h} : Goto(t, q)

-----------------------------------------------------------------------------
(* Android: the service is created, given intents, destroyed, killed.      *)

\* startService: onCreate if there is no instance (its thread is task "config"),
\* then onStartCommand queues the intent's router on mExecutor.
StartService(k) ==
  /\ k \in Intents \cap AllIntents
  /\ IF cur # 0
     THEN /\ Room(1)
          /\ tasks' = Append(tasks, Task(cur, k, "queued", MaxTries))
          /\ UNCHANGED <<cur, svc>>
     ELSE LET i == Len(svc) + 1 IN
          /\ i <= MaxInstances /\ Room(2)
          /\ cur'   = i
          /\ svc'   = Append(svc, NewService)
          /\ tasks' = tasks \o <<Task(i, "config", "config", MaxTries),
                                 Task(i, k, "queued", MaxTries)>>
  /\ UNCHANGED env

\* Mutant: onDestroy does not close mShell.
OnDestroyOpen ==
  /\ "stop" \in Intents /\ cur # 0 /\ Room(1)
  /\ tasks' = Append(tasks, Task(cur, "stop", "begin", 0))
  /\ cur'   = 0
  /\ UNCHANGED <<svc, env>>

\* stopService: onDestroy starts the stop thread and closes mShell.
OnDestroy ==
  /\ "stop" \in Intents /\ cur # 0 /\ Room(1)
  /\ tasks' = Append(tasks, Task(cur, "stop", "begin", 0))
  /\ svc'   = [svc EXCEPT ![cur].shell = FALSE]
  /\ cur'   = 0
  /\ UNCHANGED env

\* The process dies; Tor is a daemon and survives, and so do the commands that its
\* shells have in their pipes.  START_STICKY: a running service is created again,
\* with no intent.
ProcessDies ==
  /\ LET i    == Len(svc) + 1
         gone == [t \in TaskIds |-> [tasks[t] EXCEPT !.pc = "done"]]
         lost == [j \in 1..Len(svc) |-> [NewService EXCEPT !.alive = FALSE,
                                                           !.shell = FALSE]]
     IN IF cur = 0
        THEN tasks' = gone /\ svc' = lost /\ cur' = 0
        ELSE /\ tasks' = Append(gone, Task(i, "config", "config", MaxTries))
             /\ svc'   = Append(lost, NewService)
             /\ cur'   = i
  /\ launches' \in SUBSET launches
  /\ UNCHANGED <<tor, online>>

ProcessKilled ==
  /\ "kill" \in Faults /\ svc # <<>> /\ Len(svc) < MaxInstances /\ Room(1)
  /\ ProcessDies

\* CONNECTIVITY_ACTION: mNetworkStateReceiver of every instance that has not
\* unregistered it, the destroyed ones included; the preferences let it put Tor
\* to sleep.  With its conn null nothing is asked of Tor.
ConnectivityChange ==
  /\ "network" \in Faults
  /\ LET told == {i \in 1..Len(svc) : /\ svc[i].alive /\ svc[i].receiver
                                      /\ svc[i].status # "OFF"}
         asks == {i \in told : svc[i].conn # 0}
     IN /\ Room(1) /\ Cardinality(asks) <= 1   \* bound: one instance asks at a time
        /\ tasks' = IF asks = {} THEN tasks
                    ELSE Append(tasks, Task(CHOOSE i \in asks : TRUE, "net", "call",
                                            IF online THEN 0 ELSE 1))
  /\ online' = ~ online
  /\ UNCHANGED <<cur, svc, tor, launches>>

\* mExecutor runs the oldest queued intent of the instance when a thread is free;
\* the router spins until isTorUpgradeAndConfigComplete.
Busy(i) == {t \in TaskIds : /\ tasks[t].inst = i /\ tasks[t].kind \in PoolKinds
                            /\ tasks[t].pc \notin {"queued", "done"}}

RouterRuns(t) ==
  /\ At(t, PoolKinds, "queued")
  /\ Cardinality(Busy(tasks[t].inst)) < PoolSize
  /\ \A u \in 1..(t - 1) : tasks[u].inst = tasks[t].inst => tasks[u].pc # "queued"
  /\ Goto(t, "spin")
  /\ UNCHANGED <<cur, svc, env>>

\* The action of the intent; replyWithStatus only reads.
Routed(t, kinds) == At(t, kinds, "spin") /\ Self(t).ready

Route(t) ==
  /\ Routed(t, PoolKinds \ {"start"})
  /\ Goto(t, CASE tasks[t].kind = "status" -> "done"
               [] tasks[t].kind = "newnym" -> IF ConnNull(t) THEN "done" ELSE "call"
               [] tasks[t].kind = "exit"   -> IF ConnNull(t) THEN "done" ELSE "conf"
               [] OTHER                    -> "call")
  /\ UNCHANGED <<cur, svc, env>>

-----------------------------------------------------------------------------
(* onCreate's thread: torUpgradeAndConfig, then findExistingTorDaemon.     *)

Configure(t) ==
  /\ At(t, {"config"}, "config")
  /\ \/ Set(t, "ready", TRUE) /\ Goto(t, "connect")
     \/ "config" \in Faults /\ UNCHANGED svc /\ Goto(t, "done")
  /\ UNCHANGED <<cur, env>>

\* Mutant: the daemon that was found is not announced.
FoundExistingSilent(t) ==
  /\ At(t, {"config"}, "found")
  /\ Goto(t, "done")
  /\ UNCHANGED <<cur, svc, env>>

FoundExisting(t) ==
  /\ At(t, {"config"}, "found")
  /\ IF ConnNull(t) THEN UNCHANGED svc ELSE Set(t, "status", "ON")
  /\ Goto(t, "done")
  /\ UNCHANGED <<cur, env>>

-----------------------------------------------------------------------------
(* startTor.                                                               *)

\* Only STOPPING and ON turn a start away: a second start during STARTING goes on.
StartGuard(t) ==
  /\ Routed(t, {"start"})
  /\ \/ Self(t).status = "STOPPING" /\ Goto(t, "done")
     \/ /\ Self(t).status = "ON"
        /\ IF ConnNull(t) THEN Goto(t, "done")
           ELSE Fork(t, "done", Task(tasks[t].inst, "net", "call", 1))
     \/ Self(t).status \in {"OFF", "STARTING"} /\ Goto(t, "announce")
  /\ UNCHANGED <<cur, svc, env>>

StartAnnounce(t) ==
  /\ At(t, {"start"}, "announce")
  /\ Set(t, "status", "STARTING") /\ Goto(t, "launch")
  /\ UNCHANGED <<cur, env>>

\* Mutant: a command on a closed shell is not refused, it waits.
VerifyWaits(t) ==
  /\ At(t, {"start"}, "launch") /\ Self(t).shell
  /\ Goto(t, "verify")
  /\ UNCHANGED <<cur, svc, env>>

\* runTorShellCmd.  mShell.add refuses a command once close was called, with an
\* exception that ends startTor; writing the configuration may throw as well.
Verify(t) ==
  /\ At(t, {"start"}, "launch")
  /\ \/ Self(t).shell /\ Goto(t, "verify")
     \/ (~ Self(t).shell \/ "launch" \in Faults) /\ Goto(t, "done")
  /\ UNCHANGED <<cur, svc, env>>

\* The exit code of tor --verify-config.
Verified(t) ==
  /\ At(t, {"start"}, "verify")
  /\ \/ Goto(t, "verified")
     \/ "launch" \in Faults /\ Goto(t, "done")
  /\ UNCHANGED <<cur, svc, env>>

\* mShell.add again, for tor itself.  What the shell has accepted it also writes
\* and runs after close.
AddTor(t) ==
  /\ At(t, {"start"}, "verified")
  /\ \/ Self(t).shell /\ Goto(t, "run") /\ launches' = launches \cup {t}
     \/ ~ Self(t).shell /\ Goto(t, "done") /\ UNCHANGED launches
  /\ UNCHANGED <<cur, svc, tor, online>>

TorStarted(t) ==
  /\ At(t, {"start"}, "running")
  /\ Goto(t, "connect")
  /\ UNCHANGED <<cur, svc, env>>

\* waitForFinish does not wait longer than its timeout, which closes mShell for
\* good; the command stays where it is.
ExecTimesOut(t) ==
  /\ \E p \in {"verify", "run", "running"} : At(t, {"start"}, p)
  /\ Set(t, "shell", FALSE) /\ Goto(t, "done")
  /\ UNCHANGED <<cur, env>>

\* The shell runs the tor command of task t, which may have given up, its instance
\* may be destroyed and its process dead.  Tor holds a lock on its data directory:
\* a second daemon exits at once.  Without exit code 0 runTorShellCmd returns false,
\* and startTor goes on without connecting.
Tells(t, p) == IF At(t, {"start"}, "run") THEN Goto(t, p) ELSE UNCHANGED tasks

RunTor(t) ==
  /\ t \in launches /\ launches' = launches \ {t}
  /\ \/ /\ ~ tor.up /\ tor.gen < MaxGen
        /\ tor' = [tor EXCEPT !.gen = @ + 1, !.up = TRUE, !.halting = FALSE,
                              !.network = TRUE,
                              !.cookie = (@ \/ "cookie" \notin Faults)]
        /\ Tells(t, "running")
     \/ /\ tor.up \/ "launch" \in Faults \/ tor.gen = MaxGen
        /\ UNCHANGED tor /\ Tells(t, "polipo")
  /\ UNCHANGED <<cur, svc, online>>

\* runPolipoShellCmd, whatever runTorShellCmd returned, the transparent-proxy rules
\* and the onion names.
StartEnds(t) ==
  /\ At(t, {"start"}, "polipo")
  /\ Goto(t, "done")
  /\ UNCHANGED <<cur, svc, env>>

-----------------------------------------------------------------------------
(* initControlConnection, on the start task and on onCreate's thread.      *)

Connectors == {"start", "config"}

\* while (conn == null && attempt++ < maxTries)
ConnectLoop(t) ==
  /\ At(t, Connectors, "connect")
  /\ IF ConnNull(t) /\ tasks[t].arg > 0
     THEN tasks' = [tasks EXCEPT ![t].pc = "socket", ![t].arg = @ - 1]
     ELSE Goto(t, "cookie")
  /\ UNCHANGED <<cur, svc, env>>

\* Mutant: ON is announced as soon as the control port accepts.
ConnectEager(t) ==
  /\ At(t, Connectors, "socket") /\ tor.up
  /\ svc' = [svc EXCEPT ![tasks[t].inst].conn = tor.gen,
                        ![tasks[t].inst].auth = "no", ![tasks[t].inst].parsers = 0,
                        ![tasks[t].inst].status = "ON"]
  /\ Goto(t, "thread")
  /\ UNCHANGED <<cur, env>>

\* conn is set, for all threads, before its parse thread is launched.
Connect(t) ==
  /\ At(t, Connectors, "socket") /\ tor.up
  /\ svc' = [svc EXCEPT ![tasks[t].inst].conn = tor.gen,
                        ![tasks[t].inst].auth = "no", ![tasks[t].inst].parsers = 0]
  /\ Goto(t, "thread")
  /\ UNCHANGED <<cur, env>>

\* conn.launchThread reads conn again: it may be null, or another thread's.  It has
\* to wait for who hangs in a command of that connection.
Hanging(i) == \E u \in TaskIds : /\ tasks[u].inst = i
                                 /\ tasks[u].pc \in {"hung", "handling"}

LaunchThread(t) ==
  /\ At(t, Connectors, "thread")
  /\ \/ ConnNull(t) /\ UNCHANGED svc /\ Goto(t, "refused")
     \/ /\ ~ ConnNull(t) /\ Goto(t, "cookie")
        /\ Set(t, "parsers", IF Self(t).parsers = 0 THEN 1 ELSE 2)
     \/ ~ ConnNull(t) /\ Hanging(tasks[t].inst) /\ UNCHANGED svc /\ Goto(t, "hung")
  /\ UNCHANGED <<cur, env>>

\* The port file is not there yet: sleep, then try again.
NoControlPort(t) ==
  /\ At(t, Connectors, "socket")
  /\ tor.gen = 0 \/ (tor.gen = 1 /\ "giveup" \in Faults)
  /\ Goto(t, "connect")
  /\ UNCHANGED <<cur, svc, env>>

\* The port file is there (a dead Tor leaves it behind), nobody listens.
ConnectFails(t) ==
  /\ At(t, Connectors, "socket")
  /\ tor.gen > 0 /\ (~ tor.up \/ "giveup" \in Faults)
  /\ Goto(t, "refused")
  /\ UNCHANGED <<cur, svc, env>>

\* catch: conn = null, even if another thread has set it meanwhile; sleep, then
\* try again.
ConnectReset(t) ==
  /\ At(t, Connectors, "refused")
  /\ Set(t, "conn", 0)
  /\ Goto(t, "connect")
  /\ UNCHANGED <<cur, env>>

\* if (conn != null), whichever thread set it.  No cookie: conn = null.  Either
\* way the result is -1, and startTor or findExistingTorDaemon gives up.
ReadCookie(t) ==
  /\ At(t, Connectors, "cookie")
  /\ \/ ConnNull(t) /\ UNCHANGED svc /\ Goto(t, "done")
     \/ ~ ConnNull(t) /\ ~ tor.cookie /\ Set(t, "conn", 0) /\ Goto(t, "done")
     \/ ~ ConnNull(t) /\ tor.cookie /\ UNCHANGED svc /\ Goto(t, "auth")
  /\ UNCHANGED <<cur, env>>

\* The first command that Tor obeys, and with checkThread the first parse thread, if
\* launchThread has not come yet.
Accepted(t) == svc' = [svc EXCEPT ![tasks[t].inst].auth = "yes",
                                  ![tasks[t].inst].parsers = IF @ = 0 THEN 1 ELSE @]

\* Mutant: no addEventHandler after authenticate.
AuthenticateOnly(t) ==
  /\ At(t, Connectors, "auth")
  /\ \/ Open(t) /\ Accepted(t) /\ (Goto(t, "info") \/ Split(t, "done", "hung"))
     \/ ~ Open(t) /\ CommandFails(t, "done", "hung")
  /\ UNCHANGED <<cur, env>>

\* authenticate, addEventHandler, getInfo: each reads conn again, and an
\* exception ends startTor or findExistingTorDaemon.
Authenticate(t) ==
  /\ At(t, Connectors, "auth")
  /\ \/ Open(t) /\ Accepted(t) /\ (Goto(t, "events") \/ Split(t, "done", "hung"))
     \/ ~ Open(t) /\ CommandFails(t, "done", "hung")
  /\ UNCHANGED <<cur, env>>

\* addEventHandler is synchronized: a thread that hangs there keeps the others out.
Handling(i) == \E u \in TaskIds : tasks[u].inst = i /\ tasks[u].pc = "handling"

AddEventHandler(t) ==
  /\ At(t, Connectors, "events") /\ ~ Handling(tasks[t].inst)
  /\ \/ Answered(t, "info", "done", "handling") /\ Set(t, "events", Self(t).conn)
     \/ CommandFails(t, "done", "handling")
  /\ UNCHANGED <<cur, env>>

GetInfo(t) ==
  /\ At(t, Connectors, "info")
  /\ \/ /\ UNCHANGED svc
        /\ Answered(t, IF tasks[t].kind = "start" THEN "polipo" ELSE "found",
                    "done", "hung")
     \/ CommandFails(t, "done", "hung")
  /\ UNCHANGED <<cur, env>>

-----------------------------------------------------------------------------
(* TorEventHandler.circuitStatus, on the parse thread: the status is read, *)
(* then ON is sent.                                                        *)

CircuitBuilt(i) ==
  /\ i \in 1..Len(svc) /\ svc[i].alive /\ ~ svc[i].built
  /\ Linked(svc[i].events) /\ tor.network
  /\ svc[i].status = "STARTING"
  /\ svc' = [svc EXCEPT ![i].built = TRUE]
  /\ UNCHANGED <<cur, tasks, env>>

AnnounceOn(i) ==
  /\ i \in 1..Len(svc) /\ svc[i].alive /\ svc[i].built
  /\ svc' = [svc EXCEPT ![i].built = FALSE, ![i].status = "ON"]
  /\ UNCHANGED <<cur, tasks, env>>

-----------------------------------------------------------------------------
(* stopTorAsync, on a thread of its own.                                   *)

StopBegin(t) ==
  /\ At(t, {"stop"}, "begin")
  /\ Set(t, "status", "STOPPING") /\ Goto(t, "halt")
  /\ UNCHANGED <<cur, env>>

\* Mutant: HALT is sent with sendAndWaitForResponse.
KillTorWaits(t) ==
  /\ At(t, {"stop"}, "halt")
  /\ tor' = [tor EXCEPT !.halting = @ \/ ConnReplies(t)]
  /\ (ConnReplies(t) /\ Goto(t, "drop") /\ UNCHANGED svc) \/ CommandFails(t, "drop", "hung")
  /\ UNCHANGED <<cur, launches, online>>

\* killAllDaemons: HALT goes out only over conn, with no wait for a reply; Tor is
\* not looked for otherwise.
KillTor(t) ==
  /\ At(t, {"stop"}, "halt")
  /\ tor' = [tor EXCEPT !.halting = @ \/ ConnReplies(t)]
  /\ IF ConnRefuses(t) THEN Set(t, "auth", "closed") ELSE UNCHANGED svc
  /\ Goto(t, "drop")
  /\ UNCHANGED <<cur, launches, online>>

\* conn = null; then mShellPolipo.close() and the transparent-proxy rules, whose
\* exceptions are caught.
DropConn(t) ==
  /\ At(t, {"stop"}, "drop")
  /\ Set(t, "conn", 0)
  /\ Goto(t, "off")
  /\ UNCHANGED <<cur, env>>

\* STATUS_OFF, unregisterReceiver.
StopEnd(t) ==
  /\ At(t, {"stop"}, "off")
  /\ svc' = [svc EXCEPT ![tasks[t].inst].status = "OFF",
                        ![tasks[t].inst].receiver = FALSE]
  /\ Goto(t, "done")
  /\ UNCHANGED <<cur, env>>

-----------------------------------------------------------------------------
(* The other intents and the threads they start.                           *)

\* requestTorRereadConfig: an IOException falls back to kill.
RequestTorRereadConfig(t) ==
  /\ At(t, {"hup"}, "call") /\ ~ ConnNull(t)
  /\ \/ Answered(t, "done", "done", "hung") /\ UNCHANGED svc
     \/ CommandFails(t, "done", "hung")
  /\ UNCHANGED <<cur, env>>

\* conn is not checked, and nothing catches the NullPointerException: Android's
\* handler ends the process.
RereadConfigCrashes(t) ==
  /\ At(t, {"hup"}, "call") /\ ConnNull(t)
  /\ ProcessDies

\* newIdentity's thread: conn was checked when the thread was made, not again.
Signal(t) ==
  /\ At(t, {"signal"}, "call")
  /\ \/ Answered(t, "done", "done", "hung") /\ UNCHANGED svc
     \/ CommandFails(t, "done", "hung")
  /\ UNCHANGED <<cur, env>>

NewIdentity(t) ==
  /\ At(t, {"newnym"}, "call")
  /\ Fork(t, "done", Task(tasks[t].inst, "signal", "call", 0))
  /\ UNCHANGED <<cur, svc, env>>

\* One setConf("DisableNetwork", ...); any exception ends the sequence.
SetNetwork(t, on, next) ==
  \/ /\ Answered(t, next, "done", "hung") /\ UNCHANGED svc
     /\ tor' = [tor EXCEPT !.network = on]
  \/ UNCHANGED tor /\ CommandFails(t, "done", "hung")

SetTorNetworkEnabled(t) ==
  /\ At(t, {"net"}, "call")
  /\ SetNetwork(t, tasks[t].arg = 1, "done")
  /\ UNCHANGED <<cur, launches, online>>

\* setExitNode: the exit settings, then the network off and on again.
SetExitNode(t) ==
  /\ \/ /\ At(t, {"exit"}, "conf") /\ UNCHANGED tor
        /\ \/ Answered(t, "netoff", "done", "hung") /\ UNCHANGED svc
           \/ CommandFails(t, "done", "hung")
     \/ At(t, {"exit"}, "netoff") /\ SetNetwork(t, FALSE, "neton")
     \/ At(t, {"exit"}, "neton")  /\ SetNetwork(t, TRUE, "done")
  /\ UNCHANGED <<cur, launches, online>>

-----------------------------------------------------------------------------
(* Tor, external.                                                          *)

TorExits ==
  /\ tor.up /\ (tor.halting \/ "death" \in Faults)
  /\ tor' = [tor EXCEPT !.up = FALSE, !.halting = FALSE]
  /\ UNCHANGED <<cur, svc, tasks, launches, online>>

TorWritesCookie ==
  /\ tor.up /\ ~ tor.cookie
  /\ tor' = [tor EXCEPT !.cookie = TRUE]
  /\ UNCHANGED <<cur, svc, tasks, launches, online>>

-----------------------------------------------------------------------------
Android == (\E k \in Intents : StartService(k)) \/ OnDestroy \/ ProcessKilled
           \/ ConnectivityChange

Thread(t) ==
  \/ RouterRuns(t) \/ Route(t) \/ Configure(t) \/ FoundExisting(t)
  \/ StartGuard(t) \/ StartAnnounce(t)
  \/ Verify(t) \/ Verified(t) \/ AddTor(t) \/ TorStarted(t) \/ ExecTimesOut(t)
  \/ ConnectLoop(t) \/ Connect(t) \/ LaunchThread(t) \/ NoControlPort(t) \/ ConnectFails(t)
  \/ ConnectReset(t) \/ ReadCookie(t) \/ Authenticate(t) \/ AddEventHandler(t)
  \/ GetInfo(t) \/ StartEnds(t)
  \/ StopBegin(t) \/ KillTor(t) \/ DropConn(t) \/ StopEnd(t)
  \/ NewIdentity(t) \/ RequestTorRereadConfig(t) \/ Signal(t)
  \/ SetTorNetworkEnabled(t) \/ SetExitNode(t)

Runs == \E t \in TaskIds : Thread(t) \/ RereadConfigCrashes(t)

Events == \E i \in 1..Len(svc) : CircuitBuilt(i) \/ AnnounceOn(i)

Next == Android \/ Runs \/ Events
        \/ (\E t \in launches : RunTor(t)) \/ TorExits \/ TorWritesCookie

Spec == Init /\ [][Next]_vars

\* The threads are scheduled, and the wait for a command of the shell has a timeout;
\* a halted Tor exits, a running one writes its cookie and builds circuits.  Nothing is
\* asked of the shell.  No thread loops for ever, so it is enough that some thread that
\* can run does.
Fairness == /\ WF_vars(Runs)
            /\ WF_vars(Events)
            /\ WF_vars(tor.halting /\ TorExits)
            /\ WF_vars(TorWritesCookie)

FairSpec == Spec /\ Fairness

-----------------------------------------------------------------------------
(* Properties.                                                             *)

Service ==
  [status : Statuses, conn : Nat, auth : {"no", "yes", "closed"}, parsers : 0..2,
   events : Nat,
   ready : BOOLEAN, shell : BOOLEAN, built : BOOLEAN,
   receiver : BOOLEAN, alive : BOOLEAN]

Kinds == AllIntents \cup {"config", "stop", "net", "signal"}
Pcs   == {"queued", "spin", "hung", "done", "config", "found", "announce", "launch",
          "verify", "verified", "run", "running", "polipo", "connect", "socket",
          "thread", "refused", "cookie", "auth", "events", "handling", "info", "begin", "halt",
          "drop", "off", "call", "conf", "netoff", "neton"}
Job  == [inst : Nat, kind : Kinds, pc : Pcs, arg : Nat]
Daemon == [gen : Nat, up : BOOLEAN, halting : BOOLEAN, cookie : BOOLEAN,
           network : BOOLEAN]

EnvOK  == tor \in Daemon /\ launches \in SUBSET Nat /\ online \in BOOLEAN

TypeOK ==
  /\ svc \in Seq(Service) /\ cur \in 0..Len(svc)
  /\ tasks \in Seq(Job)
  /\ \A t \in TaskIds : tasks[t].inst \in 1..Len(svc)
  /\ EnvOK

\* A daemon comes up only by a command that a shell accepted, at most one for each,
\* and a shell accepts it only from a start thread of the instance that receives
\* intents: once onDestroy has closed mShell, the threads of the instance, which run
\* on, launch no daemon but by what was accepted before.
CurrentLaunches ==
  /\ tor'.gen # tor.gen => \E t \in launches : launches' = launches \ {t}
  /\ \A t \in launches' \ launches :
       t \in TaskIds /\ tasks[t].kind = "start" /\ tasks[t].inst = cur

LaunchedByCurrent == [][CurrentLaunches]_vars

\* A status is ON only after this instance has subscribed to the events of a
\* daemon it authenticated to, whichever of its threads did so.
OnMeansSubscribed ==
  \A i \in 1..Len(svc) : svc[i].status = "ON" => svc[i].events # 0

\* The inductive invariant behind the two: an open shell belongs to the current
\* instance, and what is about to announce ON has a subscription already.
ShellInv == \A i \in 1..Len(svc) : svc[i].shell => i = cur

SubscribedInv ==
  /\ OnMeansSubscribed
  /\ \A i \in 1..Len(svc) : svc[i].built => svc[i].events # 0
  /\ \A t \in TaskIds : tasks[t].pc \in {"info", "found"} => Self(t).events # 0

IInv == TypeOK /\ ShellInv /\ SubscribedInv

\* Stopping cannot hang: whatever Tor and the other threads do, a destroyed
\* instance gets to the end of stopTorAsync, where it announces STATUS_OFF and
\* unregisters its receiver, unless its process dies, because shutdownTor does not
\* wait for the reply.
Destroyed(i) == i \in 1..Len(svc) /\ svc[i].alive /\ i # cur

\* The instances there can be: a crash makes one, and takes an intent after a "config".
Instances == 1..(MaxInstances + IF "hup" \in Intents THEN MaxTasks \div 2 ELSE 0)

StopCompletes ==
  \A i \in Instances :
    Destroyed(i) ~> (i \in 1..Len(svc) /\ ~ (svc[i].alive /\ svc[i].receiver))

\* An intent is served, unless the configuration failed (its router spins for
\* ever), all threads of mExecutor wait on a control connection that is gone, or that
\* two parse threads share, or a CMD_SIGNAL_HUP while there is no connection ends the
\* process, with its intents.
Unconfigured(i) == ~ svc[i].ready /\ \A u \in TaskIds :
                     tasks[u].inst = i /\ tasks[u].kind = "config" => tasks[u].pc = "done"
Hung(i) == {u \in TaskIds : /\ tasks[u].inst = i
                            /\ \/ tasks[u].pc \in {"hung", "handling"}
                               \/ tasks[u].pc = "events" /\ Handling(i)}
Crashed(i) == ~ svc[i].alive /\ \E u \in TaskIds : tasks[u].kind = "hup"

Served(t) ==
  LET i == tasks[t].inst
  IN \/ svc[i].alive /\ (tasks[t].pc = "done" \/ t \in Hung(i))
     \/ Crashed(i) \/ Unconfigured(i)
     \/ Cardinality(Hung(i) \cap Busy(i)) = PoolSize

IntentsServed ==
  \A t \in 1..MaxTasks :
    At(t, PoolKinds, "queued") ~> (t \in TaskIds /\ Served(t))

\* A service that Android restarts takes over the Tor daemon that survived it,
\* whatever start intents arrive meanwhile, unless the threads that connect to it
\* give one connection two parse threads.
Restarting(i) == i \in 1..Len(svc) /\ svc[i].alive /\ ~ svc[i].ready /\ tor.up

AdoptsSurvivor ==
  \A i \in Instances :
    Restarting(i) ~> (i \in 1..Len(svc) /\ (\/ svc[i].status = "ON" \/ ~ svc[i].alive
                                            \/ svc[i].parsers = 2))

\* What followers of the status may rely on (ServiceStatus), whatever threads of
\* destroyed instances still do: STARTING takes a start intent, ON a subscription,
\* and only a destroyed instance announces STOPPING and OFF.
Followed == [i \in 1..Len(svc) |->
  [status     |-> svc[i].status,
   asked      |-> \E t \in TaskIds : tasks[t].inst = i /\ tasks[t].kind = "start",
   subscribed |-> svc[i].events # 0,
   alive      |-> svc[i].alive]]

Status == INSTANCE ServiceStatus WITH inst <- Followed

KeepsStatusPromise == Status!ServiceSpec
=============================================================================
