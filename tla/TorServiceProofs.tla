-------------------------- MODULE TorServiceProofs --------------------------
(* Proofs about TorService, for any intents, faults and bounds: who is     *)
(* current and subscribed, and that it implements ServiceStatus.           *)
EXTENDS TorService, TLAPS

\* What a step of task t may do to its instance: s is the new record, p where the
\* task goes.  The other instances and the current one stay.
Moves(t, s, p) ==
  /\ svc'   = [svc EXCEPT ![tasks[t].inst] = s]
  /\ tasks' = [tasks EXCEPT ![t].pc = p]
  /\ cur'   = cur

\* The change keeps the shell closed and the subscription once made.
Keeps(t, s, p) ==
  /\ s \in Service /\ p \in Pcs
  /\ s.shell => Self(t).shell
  /\ Self(t).events # 0 => s.events # 0
  /\ s.status = "ON" => s.events # 0
  /\ s.built => s.events # 0
  /\ p \in {"info", "found"} => s.events # 0

\* The sequences of TypeOK, element by element.
LEMMA Shapes ==
  ASSUME TypeOK
  PROVE  /\ Len(svc) \in Nat /\ Len(tasks) \in Nat
         /\ \A i \in 1..Len(svc) : svc[i] \in Service
         /\ \A t \in TaskIds : tasks[t] \in Job /\ tasks[t].inst \in 1..Len(svc)
         /\ \A t \in TaskIds : Self(t) \in Service
  BY DEF TypeOK, TaskIds, Self

\* What a new connection changes.
LEMMA Connected ==
  ASSUME NEW s \in Service, NEW g \in Nat
  PROVE  LET n == [s EXCEPT !.conn = g, !.auth = "no", !.parsers = 0]
         IN /\ n \in Service /\ n.shell = s.shell /\ n.events = s.events
            /\ n.status = s.status /\ n.built = s.built /\ n.alive = s.alive
<1> DEFINE m == [s EXCEPT !.conn = g, !.auth = "no"]
           n == [m EXCEPT !.parsers = 0]
<1>1. /\ m \in Service /\ m.shell = s.shell /\ m.events = s.events
      /\ m.status = s.status /\ m.built = s.built /\ m.alive = s.alive
  BY DEF Service
<1>2. n = [s EXCEPT !.conn = g, !.auth = "no", !.parsers = 0]
  OBVIOUS
<1> HIDE DEF m
<1>3. /\ n \in Service /\ n.shell = m.shell /\ n.events = m.events
      /\ n.status = m.status /\ n.built = m.built /\ n.alive = m.alive
  BY <1>1 DEF Service
<1> QED  BY <1>1, <1>2, <1>3

\* A step of one task preserves the invariant.
LEMMA TaskStep ==
  ASSUME IInv, NEW t \in TaskIds, NEW s, NEW p,
         Moves(t, s, p), Keeps(t, s, p), EnvOK'
  PROVE  IInv'
<1> DEFINE i == tasks[t].inst
<1>1. i \in 1..Len(svc) /\ s \in Service /\ svc \in Seq(Service)
  BY Shapes DEF IInv, Keeps, TypeOK
<1>2. svc' \in Seq(Service) /\ Len(svc') = Len(svc)
  BY <1>1 DEF Moves
<1>3. /\ svc'[i] = s
      /\ \A j \in 1..Len(svc) : j # i => svc'[j] = svc[j]
  BY <1>1 DEF Moves
<1>4. /\ tasks' \in Seq(Job) /\ Len(tasks') = Len(tasks)
      /\ tasks'[t].pc = p
      /\ \A u \in TaskIds : tasks'[u].inst = tasks[u].inst
      /\ \A u \in TaskIds : u # t => tasks'[u] = tasks[u]
  <2>1. tasks \in Seq(Job) /\ t \in 1..Len(tasks) /\ tasks[t] \in Job /\ p \in Pcs
    BY Shapes DEF IInv, TypeOK, TaskIds, Keeps
  <2>2. [tasks[t] EXCEPT !.pc = p] \in Job
    BY <2>1 DEF Job
  <2>3. tasks' = [tasks EXCEPT ![t] = [tasks[t] EXCEPT !.pc = p]]
    BY DEF Moves
  <2>4. tasks' \in Seq(Job) /\ Len(tasks') = Len(tasks)
    BY <2>1, <2>2, <2>3
  <2>5. tasks'[t] = [tasks[t] EXCEPT !.pc = p]
    BY <2>1, <2>3
  <2>6. tasks'[t].pc = p /\ tasks'[t].inst = tasks[t].inst
    BY <2>5, <2>1 DEF Job
  <2>7. \A u \in 1..Len(tasks) : u # t => tasks'[u] = tasks[u]
    BY <2>1, <2>3
  <2> QED  BY <2>4, <2>6, <2>7 DEF TaskIds
<1>5. TypeOK'
  BY <1>2, <1>4 DEF TypeOK, IInv, TaskIds, Moves
<1>6. ShellInv'
  BY <1>1, <1>2, <1>3 DEF ShellInv, IInv, Moves, Keeps, Self
<1>7. SubscribedInv'
  <2>1. \A j \in 1..Len(svc) : svc[j].events # 0 => svc'[j].events # 0
    BY <1>1, <1>3 DEF Keeps, Self
  <2>2. OnMeansSubscribed'
    BY <1>1, <1>2, <1>3 DEF OnMeansSubscribed, SubscribedInv, IInv, Keeps, Self
  <2>3. \A j \in 1..Len(svc') : svc'[j].built => svc'[j].events # 0
    BY <1>1, <1>2, <1>3 DEF SubscribedInv, IInv, Keeps, Self
  <2>4. ASSUME NEW u \in TaskIds', tasks'[u].pc \in {"info", "found"}
        PROVE  svc'[tasks'[u].inst].events # 0
    <3>1. u \in TaskIds /\ tasks'[u].inst = tasks[u].inst
          /\ tasks[u].inst \in 1..Len(svc)
      BY <1>4, Shapes DEF TaskIds, IInv
    <3>2. CASE u = t
      BY <3>1, <3>2, <2>4, <1>1, <1>3, <1>4 DEF Keeps
    <3>3. CASE u # t
      BY <3>1, <3>3, <2>4, <2>1, <1>4 DEF SubscribedInv, IInv, Self
    <3> QED  BY <3>2, <3>3
  <2> QED  BY <2>2, <2>3, <2>4 DEF SubscribedInv, Self
<1> QED  BY <1>5, <1>6, <1>7 DEF IInv

\* A step that only moves task t.
LEMMA GotoStep ==
  ASSUME IInv, NEW t \in TaskIds, NEW p \in Pcs, Goto(t, p),
         p \in {"info", "found"} => Self(t).events # 0,
         UNCHANGED <<cur, svc>>, EnvOK'
  PROVE  IInv'
<1>1. svc' = [svc EXCEPT ![tasks[t].inst] = Self(t)]
  BY Shapes DEF IInv, TypeOK, Self
<1>2. Keeps(t, Self(t), p)
  BY Shapes DEF IInv, Keeps, SubscribedInv, OnMeansSubscribed, Self
<1> QED  BY <1>1, <1>2, TaskStep DEF Moves, Goto

\* A step that sets one field, as a step of TaskStep.
LEMMA SetMoves ==
  ASSUME IInv, NEW t \in TaskIds, NEW p, Goto(t, p), UNCHANGED cur
  PROVE  /\ \A v : Set(t, "status", v) => Moves(t, [Self(t) EXCEPT !.status = v], p)
         /\ \A v : Set(t, "conn", v)   => Moves(t, [Self(t) EXCEPT !.conn = v], p)
         /\ \A v : Set(t, "auth", v)   => Moves(t, [Self(t) EXCEPT !.auth = v], p)
         /\ \A v : Set(t, "parsers", v) => Moves(t, [Self(t) EXCEPT !.parsers = v], p)
         /\ \A v : Set(t, "events", v) => Moves(t, [Self(t) EXCEPT !.events = v], p)
         /\ \A v : Set(t, "ready", v)  => Moves(t, [Self(t) EXCEPT !.ready = v], p)
         /\ \A v : Set(t, "shell", v)  => Moves(t, [Self(t) EXCEPT !.shell = v], p)
  BY DEF Moves, Set, Goto, Self

\* Setting a field that the invariant does not speak of, or closing the shell.
LEMMA SetKeeps ==
  ASSUME IInv, NEW t \in TaskIds, NEW p \in Pcs \ {"info", "found"}
  PROVE  /\ \A v \in Statuses \ {"ON"} : Keeps(t, [Self(t) EXCEPT !.status = v], p)
         /\ \A v \in Nat : Keeps(t, [Self(t) EXCEPT !.conn = v], p)
         /\ \A v \in {"no", "yes", "closed"} : Keeps(t, [Self(t) EXCEPT !.auth = v], p)
         /\ \A v \in 0..2 : Keeps(t, [Self(t) EXCEPT !.parsers = v], p)
         /\ Keeps(t, [Self(t) EXCEPT !.ready = TRUE], p)
         /\ Keeps(t, [Self(t) EXCEPT !.shell = FALSE], p)
<1>1. /\ Self(t) \in Service
      /\ Self(t).status = "ON" => Self(t).events # 0
      /\ Self(t).built => Self(t).events # 0
  BY Shapes DEF IInv, SubscribedInv, OnMeansSubscribed, Self
<1>2. /\ \A v \in Statuses \ {"ON"} : Keeps(t, [Self(t) EXCEPT !.status = v], p)
      /\ \A v \in Nat : Keeps(t, [Self(t) EXCEPT !.conn = v], p)
      /\ \A v \in {"no", "yes", "closed"} : Keeps(t, [Self(t) EXCEPT !.auth = v], p)
  BY <1>1 DEF Keeps, Service
<1>3. /\ Keeps(t, [Self(t) EXCEPT !.ready = TRUE], p)
      /\ Keeps(t, [Self(t) EXCEPT !.shell = FALSE], p)
      /\ \A v \in 0..2 : Keeps(t, [Self(t) EXCEPT !.parsers = v], p)
  BY <1>1 DEF Keeps, Service
<1> QED  BY <1>2, <1>3

\* The same as steps of a task: an announcement other than ON, a new conn or
\* authentication state, a flag.
LEMMA FieldStep ==
  ASSUME IInv, NEW t \in TaskIds, NEW p \in Pcs \ {"info", "found"},
         Goto(t, p), UNCHANGED cur, EnvOK'
  PROVE  /\ \A v \in Statuses \ {"ON"} : Set(t, "status", v) => IInv'
         /\ \A v \in Nat : Set(t, "conn", v) => IInv'
         /\ \A v \in {"no", "yes", "closed"} : Set(t, "auth", v) => IInv'
         /\ \A v \in 0..2 : Set(t, "parsers", v) => IInv'
         /\ Set(t, "ready", TRUE) => IInv'
         /\ Set(t, "shell", FALSE) => IInv'
<1>1. ASSUME NEW v \in Statuses \ {"ON"}, Set(t, "status", v) PROVE IInv'
  <2>1. Moves(t, [Self(t) EXCEPT !.status = v], p)  BY <1>1, SetMoves
  <2>2. Keeps(t, [Self(t) EXCEPT !.status = v], p)  BY <1>1, SetKeeps
  <2> QED  BY <2>1, <2>2, TaskStep
<1>2. ASSUME NEW v \in Nat, Set(t, "conn", v) PROVE IInv'
  <2>1. Moves(t, [Self(t) EXCEPT !.conn = v], p)  BY <1>2, SetMoves
  <2>2. Keeps(t, [Self(t) EXCEPT !.conn = v], p)  BY <1>2, SetKeeps
  <2> QED  BY <2>1, <2>2, TaskStep
<1>3. ASSUME NEW v \in {"no", "yes", "closed"}, Set(t, "auth", v) PROVE IInv'
  <2>1. Moves(t, [Self(t) EXCEPT !.auth = v], p)  BY <1>3, SetMoves
  <2>2. Keeps(t, [Self(t) EXCEPT !.auth = v], p)  BY <1>3, SetKeeps
  <2> QED  BY <2>1, <2>2, TaskStep
<1>4. ASSUME Set(t, "ready", TRUE) PROVE IInv'
  <2>1. Moves(t, [Self(t) EXCEPT !.ready = TRUE], p)  BY <1>4, SetMoves
  <2>2. Keeps(t, [Self(t) EXCEPT !.ready = TRUE], p)  BY SetKeeps
  <2> QED  BY <2>1, <2>2, TaskStep
<1>5. ASSUME Set(t, "shell", FALSE) PROVE IInv'
  <2>1. Moves(t, [Self(t) EXCEPT !.shell = FALSE], p)  BY <1>5, SetMoves
  <2>2. Keeps(t, [Self(t) EXCEPT !.shell = FALSE], p)  BY SetKeeps
  <2> QED  BY <2>1, <2>2, TaskStep
<1>6. ASSUME NEW v \in 0..2, Set(t, "parsers", v) PROVE IInv'
  <2>1. Moves(t, [Self(t) EXCEPT !.parsers = v], p)  BY <1>6, SetMoves
  <2>2. Keeps(t, [Self(t) EXCEPT !.parsers = v], p)  BY <1>6, SetKeeps
  <2> QED  BY <2>1, <2>2, TaskStep
<1> QED  BY <1>1, <1>2, <1>3, <1>4, <1>5, <1>6

\* Where a command leaves the thread.
LEMMA Outcomes ==
  ASSUME NEW t, NEW next, NEW p, NEW h
  PROVE  /\ Split(t, p, h) => \E q \in {p, h} : Goto(t, q)
         /\ Answered(t, next, p, h) =>
              ConnReplies(t) /\ \E q \in {next, p, h} : Goto(t, q)
         /\ CommandFails(t, p, h) =>
              /\ \E q \in {p, h} : Goto(t, q)
              /\ UNCHANGED svc \/ Set(t, "auth", "closed")
<1>1. Split(t, p, h) => \E q \in {p, h} : Goto(t, q)
  BY DEF Split
<1>2. Answered(t, next, p, h) => ConnReplies(t) /\ \E q \in {next, p, h} : Goto(t, q)
  BY <1>1 DEF Answered
<1>3. CommandFails(t, p, h) => /\ \E q \in {p, h} : Goto(t, q)
                               /\ UNCHANGED svc \/ Set(t, "auth", "closed")
  BY <1>1 DEF CommandFails
<1> QED  BY <1>1, <1>2, <1>3

\* A command that fails leaves the invariant alone.
LEMMA CommandFailsStep ==
  ASSUME IInv, NEW t \in TaskIds, NEW p \in Pcs \ {"info", "found"},
         NEW h \in Pcs \ {"info", "found"},
         CommandFails(t, p, h), UNCHANGED cur, EnvOK'
  PROVE  IInv'
<1>1. PICK q \in {p, h} : Goto(t, q)
  BY Outcomes
<1>2. CASE UNCHANGED svc
  BY <1>1, <1>2, GotoStep
<1>3. CASE Set(t, "auth", "closed")
  BY <1>1, <1>3, FieldStep
<1> QED  BY <1>2, <1>3, Outcomes

\* The environment's types, when it does not change.
LEMMA EnvSame ==
  ASSUME IInv PROVE (UNCHANGED env => EnvOK') /\ EnvOK
  BY DEF IInv, TypeOK, EnvOK, env

\* A step that leaves the instances alone, whatever it does to the tasks.
LEMMA JobsStep ==
  ASSUME IInv, UNCHANGED <<cur, svc>>, EnvOK', tasks' \in Seq(Job),
         \A u \in 1..Len(tasks') :
           /\ tasks'[u].inst \in 1..Len(svc)
           /\ tasks'[u].pc \in {"info", "found"} => svc[tasks'[u].inst].events # 0
  PROVE  IInv'
  BY DEF IInv, TypeOK, ShellInv, SubscribedInv, OnMeansSubscribed, TaskIds, Self

\* A new task, as Fork, StartService and the receivers add it.
LEMMA JobAdded ==
  ASSUME NEW js \in Seq(Job), NEW j \in Job
  PROVE  /\ Append(js, j) \in Seq(Job) /\ Len(Append(js, j)) = Len(js) + 1
         /\ \A u \in 1..Len(js) : Append(js, j)[u] = js[u]
         /\ Append(js, j)[Len(js) + 1] = j
         /\ Len(js) \in Nat
  OBVIOUS

\* A task that ends and starts another thread of its instance.
LEMMA ForkStep ==
  ASSUME IInv, NEW t \in TaskIds, NEW new \in Job, new.inst = tasks[t].inst,
         new.pc = "call", Fork(t, "done", new), UNCHANGED <<cur, svc>>, EnvOK'
  PROVE  IInv'
<1> DEFINE js == [tasks EXCEPT ![t].pc = "done"]
<1>1. tasks \in Seq(Job) /\ t \in 1..Len(tasks) /\ tasks[t] \in Job
  BY Shapes DEF IInv, TypeOK, TaskIds
<1>2. [tasks[t] EXCEPT !.pc = "done"] \in Job
  BY <1>1 DEF Job, Pcs
<1>3. js \in Seq(Job) /\ Len(js) = Len(tasks)
  BY <1>1, <1>2
<1>4. js[t] = [tasks[t] EXCEPT !.pc = "done"]
  BY <1>1
<1>5. js[t].pc = "done" /\ js[t].inst = tasks[t].inst
  BY <1>1, <1>4 DEF Job
<1>6. \A u \in 1..Len(tasks) : u # t => js[u] = tasks[u]
  BY <1>1
<1>7. tasks' = Append(js, new)
  BY DEF Fork
<1> HIDE DEF js
<1>8. ASSUME NEW u \in 1..Len(tasks')
      PROVE  /\ tasks'[u].inst \in 1..Len(svc)
             /\ tasks'[u].pc \in {"info", "found"} => svc[tasks'[u].inst].events # 0
  <2>1. CASE u = Len(js) + 1
    BY <2>1, <1>1, <1>3, <1>7, JobAdded, Shapes DEF IInv, TaskIds
  <2>2. CASE u = t
    BY <2>2, <1>1, <1>3, <1>5, <1>7, JobAdded, Shapes DEF IInv, TaskIds
  <2>3. CASE u \in 1..Len(tasks) /\ u # t
    <3>1. tasks'[u] = tasks[u]
      BY <2>3, <1>3, <1>6, <1>7, JobAdded
    <3> QED  BY <2>3, <3>1, Shapes DEF IInv, SubscribedInv, TaskIds, Self
  <2>4. u \in 1..(Len(js) + 1) /\ Len(js) \in Nat
    BY <1>3, <1>7, JobAdded
  <2> QED  BY <2>1, <2>2, <2>3, <2>4, <1>3
<1>9. tasks' \in Seq(Job)
  BY <1>3, <1>7, JobAdded
<1> QED  BY <1>8, <1>9, JobsStep

-----------------------------------------------------------------------------
(* The threads: one step per action.                                       *)

\* No step of a thread, of whichever instance, breaks the invariant.
LEMMA ThreadStep ==
  ASSUME IInv, NEW t \in TaskIds, Thread(t)
  PROVE  IInv'
<1> USE EnvSame
<1>p. /\ {"done", "spin", "call", "conf", "connect", "announce", "launch", "polipo",
          "verify", "verified", "run", "socket", "refused", "cookie", "auth", "events",
          "handling", "halt", "drop", "off", "netoff", "neton", "hung",
          "thread"}
           \subseteq Pcs \ {"info", "found"}
      /\ {"info", "found"} \subseteq Pcs
  BY DEF Pcs
<1>c. UNCHANGED cur
  BY DEF Thread, RouterRuns, Route, Configure, FoundExisting, StartGuard,
         StartAnnounce, Verify, Verified, AddTor, TorStarted, ExecTimesOut,
         ConnectLoop, Connect, LaunchThread, NoControlPort, ConnectFails, ConnectReset,
         ReadCookie, Authenticate, AddEventHandler, GetInfo, StartEnds, StopBegin,
         KillTor, DropConn, StopEnd, NewIdentity, RequestTorRereadConfig, Signal,
         SetTorNetworkEnabled, SetExitNode
<1>1. CASE RouterRuns(t)
  BY <1>1, <1>p, GotoStep DEF RouterRuns
<1>2. CASE Route(t)
  <2>1. PICK p \in {"done", "call", "conf"} : Goto(t, p)
    BY <1>2 DEF Route
  <2> QED  BY <1>2, <1>p, <2>1, GotoStep DEF Route
<1>3. CASE Configure(t)
  BY <1>3, <1>p, <1>c, GotoStep, FieldStep DEF Configure
<1>4. CASE FoundExisting(t)
  <2>1. Self(t).events # 0 /\ Self(t) \in Service
    BY <1>4, Shapes DEF FoundExisting, At, IInv, SubscribedInv, TaskIds
  <2>2. CASE UNCHANGED svc
    BY <1>4, <2>2, <1>p, GotoStep DEF FoundExisting
  <2>3. CASE Set(t, "status", "ON")
    <3>1. Keeps(t, [Self(t) EXCEPT !.status = "ON"], "done")
      BY <2>1, <1>p, Shapes
         DEF Keeps, Service, Statuses, IInv, SubscribedInv, Self
    <3> QED  BY <1>4, <1>c, <2>3, <3>1, SetMoves, TaskStep DEF FoundExisting
  <2> QED  BY <1>4, <2>2, <2>3 DEF FoundExisting
<1>5. CASE StartAnnounce(t)
  <2>1. "STARTING" \in Statuses \ {"ON"}
    BY DEF Statuses
  <2> QED  BY <1>5, <2>1, <1>p, <1>c, FieldStep DEF StartAnnounce
<1>6. CASE Verify(t) \/ Verified(t) \/ TorStarted(t) \/ StartEnds(t)
  <2>1. PICK p \in {"verify", "done", "verified", "connect"} : Goto(t, p)
    BY <1>6 DEF Verify, Verified, TorStarted, StartEnds
  <2>2. UNCHANGED <<cur, svc, env>>
    BY <1>6 DEF Verify, Verified, TorStarted, StartEnds
  <2> QED  BY <2>1, <2>2, <1>p, GotoStep
<1>7. CASE AddTor(t)
  <2>1. TaskIds \subseteq Nat
    BY Shapes DEF IInv, TaskIds
  <2>2. EnvOK'
    BY <1>7, <2>1 DEF AddTor, EnvOK
  <2>3. PICK p \in {"run", "done"} : Goto(t, p) /\ UNCHANGED <<cur, svc>>
    BY <1>7 DEF AddTor
  <2> QED  BY <2>2, <2>3, <1>p, GotoStep
<1>8. CASE ExecTimesOut(t)
  BY <1>8, <1>p, <1>c, FieldStep DEF ExecTimesOut
<1>9. CASE LaunchThread(t)
  <2>1. CASE UNCHANGED svc /\ \E p \in {"refused", "hung"} : Goto(t, p)
    BY <1>9, <2>1, <1>p, <1>c, GotoStep DEF LaunchThread
  <2>2. CASE Goto(t, "cookie") /\ \E v \in 0..2 : Set(t, "parsers", v)
    BY <1>9, <2>2, <1>p, <1>c, FieldStep DEF LaunchThread
  <2> QED  BY <1>9, <2>1, <2>2 DEF LaunchThread
<1>10. CASE Connect(t)
  <2>1. Moves(t, [Self(t) EXCEPT !.conn = tor.gen, !.auth = "no", !.parsers = 0],
              "thread")
    BY <1>10, <1>c DEF Connect, Moves, Goto, Self
  <2>2. Keeps(t, [Self(t) EXCEPT !.conn = tor.gen, !.auth = "no", !.parsers = 0],
              "thread")
    <3>1. /\ Self(t) \in Service /\ tor.gen \in Nat
          /\ Self(t).status = "ON" => Self(t).events # 0
          /\ Self(t).built => Self(t).events # 0
      BY Shapes DEF IInv, SubscribedInv, OnMeansSubscribed, Self, EnvOK, Daemon
    <3> QED  BY <3>1, <1>p, Connected DEF Keeps
  <2> QED  BY <1>10, <2>1, <2>2, TaskStep DEF Connect
<1>11. CASE NoControlPort(t) \/ ConnectFails(t)
  BY <1>11, <1>p, GotoStep DEF NoControlPort, ConnectFails
<1>12. CASE ConnectReset(t)
  BY <1>12, <1>p, <1>c, FieldStep DEF ConnectReset
<1>13. CASE ReadCookie(t)
  BY <1>13, <1>p, <1>c, GotoStep, FieldStep DEF ReadCookie
<1>14. CASE Authenticate(t)
  <2>1. CASE Open(t) /\ Accepted(t)
    <3>1. PICK p \in {"events", "done", "hung"} : Goto(t, p)
      BY <1>14, <2>1, Outcomes DEF Authenticate, CommandFails
    <3>2. PICK n \in 0..2 :
            svc' = [svc EXCEPT ![tasks[t].inst].auth = "yes",
                               ![tasks[t].inst].parsers = n]
      <4>1. Self(t).parsers \in 0..2
        BY Shapes DEF IInv, Service
      <4>2. (IF Self(t).parsers = 0 THEN 1 ELSE Self(t).parsers) \in 0..2
        BY <4>1
      <4>3. svc' = [svc EXCEPT ![tasks[t].inst].auth = "yes",
                               ![tasks[t].inst].parsers =
                                  IF Self(t).parsers = 0 THEN 1 ELSE Self(t).parsers]
        BY <2>1 DEF Accepted, Self
      <4> QED  BY <4>2, <4>3
    <3>3. Moves(t, [Self(t) EXCEPT !.auth = "yes", !.parsers = n], p)
      BY <3>1, <3>2, <1>c DEF Moves, Goto, Self
    <3>4. Keeps(t, [Self(t) EXCEPT !.auth = "yes", !.parsers = n], p)
      <4>1. /\ Self(t) \in Service
            /\ Self(t).status = "ON" => Self(t).events # 0
            /\ Self(t).built => Self(t).events # 0
        BY Shapes DEF IInv, SubscribedInv, OnMeansSubscribed, Self
      <4> QED  BY <4>1, <1>p DEF Keeps, Service
    <3> QED  BY <1>14, <3>3, <3>4, TaskStep DEF Authenticate
  <2>2. CASE CommandFails(t, "done", "hung")
    BY <1>14, <2>2, <1>p, <1>c, CommandFailsStep DEF Authenticate
  <2> QED  BY <1>14, <2>1, <2>2 DEF Authenticate
<1>15. CASE AddEventHandler(t)
  <2>1. CASE Answered(t, "info", "done", "handling") /\ Set(t, "events", Self(t).conn)
    <3>1. PICK p \in {"info", "done", "handling"} : Goto(t, p)
      BY <2>1, Outcomes
    <3>2. Self(t).conn # 0
      BY <2>1 DEF Answered, ConnReplies, Open, Linked
    <3>3. Keeps(t, [Self(t) EXCEPT !.events = Self(t).conn], p)
      BY SMTT(20), <3>2, <1>p, Shapes DEF Keeps, Service, IInv, Self
    <3> QED  BY <1>15, <1>c, <2>1, <3>1, <3>3, SetMoves, TaskStep DEF AddEventHandler
  <2>2. CASE CommandFails(t, "done", "handling")
    BY <1>15, <2>2, <1>p, <1>c, CommandFailsStep DEF AddEventHandler
  <2> QED  BY <1>15, <2>1, <2>2 DEF AddEventHandler
<1>16. CASE GetInfo(t)
  <2>1. Self(t).events # 0
    BY <1>16 DEF GetInfo, At, IInv, SubscribedInv, TaskIds
  <2>2. CASE UNCHANGED svc /\ \E p \in {"polipo", "found", "done", "hung"} : Goto(t, p)
    BY <1>16, <2>1, <2>2, <1>p, <1>c, GotoStep DEF GetInfo
  <2>3. CASE CommandFails(t, "done", "hung")
    BY <1>16, <2>3, <1>p, <1>c, CommandFailsStep DEF GetInfo
  <2>4. \/ UNCHANGED svc /\ \E p \in {"polipo", "found", "done", "hung"} : Goto(t, p)
        \/ CommandFails(t, "done", "hung")
    BY <1>16, Outcomes DEF GetInfo
  <2> QED  BY <2>2, <2>3, <2>4
<1>17. CASE StopBegin(t)
  <2>1. "STOPPING" \in Statuses \ {"ON"}
    BY DEF Statuses
  <2> QED  BY <1>17, <2>1, <1>p, <1>c, FieldStep DEF StopBegin
<1>18. CASE KillTor(t)
  <2>1. EnvOK'
    BY <1>18 DEF KillTor, EnvOK, Daemon, ConnReplies, Open, Linked
  <2> QED  BY <1>18, <2>1, <1>p, <1>c, GotoStep, FieldStep
              DEF KillTor
<1>19. CASE DropConn(t)
  BY <1>19, <1>p, <1>c, FieldStep DEF DropConn
<1>21. CASE StopEnd(t)
  <2>1. Moves(t, [Self(t) EXCEPT !.status = "OFF", !.receiver = FALSE], "done")
    BY <1>21, <1>c DEF StopEnd, Moves, Goto, Self
  <2>2. Keeps(t, [Self(t) EXCEPT !.status = "OFF", !.receiver = FALSE], "done")
    <3>1. Self(t) \in Service /\ (Self(t).built => Self(t).events # 0)
      BY Shapes DEF IInv, SubscribedInv, Self
    <3> QED  BY <3>1, <1>p DEF Keeps, Service, Statuses
  <2> QED  BY <1>21, <2>1, <2>2, TaskStep DEF StopEnd
<1>22. CASE Signal(t) \/ RequestTorRereadConfig(t)
  BY <1>22, <1>p, <1>c, Outcomes, GotoStep, CommandFailsStep
     DEF Signal, RequestTorRereadConfig
<1>23. CASE SetTorNetworkEnabled(t)
  <2>1. EnvOK'
    BY <1>23 DEF SetTorNetworkEnabled, SetNetwork, EnvOK, Daemon
  <2> QED  BY <1>23, <2>1, <1>p, <1>c, Outcomes, GotoStep, CommandFailsStep
              DEF SetTorNetworkEnabled, SetNetwork
<1>24. CASE SetExitNode(t)
  <2>1. EnvOK'
    BY <1>24 DEF SetExitNode, SetNetwork, EnvOK, Daemon
  <2> QED  BY <1>24, <2>1, <1>p, <1>c, Outcomes, GotoStep, CommandFailsStep
              DEF SetExitNode, SetNetwork
<1>26. CASE ConnectLoop(t)
  <2>1. CASE Goto(t, "cookie")
    BY <1>26, <2>1, <1>p, GotoStep DEF ConnectLoop
  <2>2. CASE ConnNull(t) /\ tasks[t].arg > 0
    <3> DEFINE j == [tasks[t] EXCEPT !.pc = "socket", !.arg = @ - 1]
    <3>1. tasks \in Seq(Job) /\ t \in 1..Len(tasks) /\ tasks[t] \in Job
      BY Shapes DEF IInv, TypeOK, TaskIds
    <3>2. tasks[t].arg - 1 \in Nat
      BY <2>2, <3>1 DEF Job
    <3>3. j \in Job /\ j.pc = "socket" /\ j.inst = tasks[t].inst
      BY <3>1, <3>2, <1>p DEF Job
    <3>4. tasks' = [tasks EXCEPT ![t] = j]
      BY <1>26, <2>2 DEF ConnectLoop
    <3> HIDE DEF j
    <3>5. /\ tasks' \in Seq(Job) /\ Len(tasks') = Len(tasks) /\ tasks'[t] = j
          /\ \A u \in 1..Len(tasks) : u # t => tasks'[u] = tasks[u]
      BY <3>1, <3>3, <3>4
    <3>6. \A u \in 1..Len(tasks') :
            /\ tasks'[u].inst \in 1..Len(svc)
            /\ tasks'[u].pc \in {"info", "found"} => svc[tasks'[u].inst].events # 0
      BY <3>3, <3>5, Shapes DEF IInv, SubscribedInv, TaskIds, Self
    <3> QED  BY <1>26, <3>5, <3>6, JobsStep DEF ConnectLoop
  <2> QED  BY <1>26, <2>1, <2>2 DEF ConnectLoop
<1>27. CASE StartGuard(t)
  <2>1. CASE \E p \in {"done", "announce"} : Goto(t, p)
    BY <1>27, <2>1, <1>p, GotoStep DEF StartGuard
  <2>2. CASE Fork(t, "done", Task(tasks[t].inst, "net", "call", 1))
    <3>1. Task(tasks[t].inst, "net", "call", 1) \in Job
      BY <1>p, Shapes DEF Task, Job, Kinds, IInv
    <3> QED  BY <1>27, <2>2, <3>1, ForkStep DEF StartGuard, Task
  <2> QED  BY <1>27, <2>1, <2>2 DEF StartGuard
<1>28. CASE NewIdentity(t)
  <2>1. Task(tasks[t].inst, "signal", "call", 0) \in Job
    BY <1>p, Shapes DEF Task, Job, Kinds, IInv
  <2> QED  BY <1>28, <2>1, ForkStep DEF NewIdentity, Task
<1> QED
  BY <1>1, <1>2, <1>3, <1>4, <1>5, <1>6, <1>7, <1>8, <1>9, <1>10, <1>11, <1>12,
     <1>13, <1>14, <1>15, <1>16, <1>17, <1>18, <1>19, <1>21, <1>22, <1>23,
     <1>24, <1>26, <1>27, <1>28 DEF Thread

\* What the shell tells moves at most the task that waits for it.
LEMMA RunTorMoves ==
  ASSUME IInv, NEW t, RunTor(t)
  PROVE  /\ UNCHANGED <<cur, svc>> /\ EnvOK'
         /\ \/ UNCHANGED tasks
            \/ /\ t \in TaskIds /\ tasks[t].pc # "done"
               /\ Goto(t, "running") \/ Goto(t, "polipo")
<1>1. tor' \in Daemon
  <2>1. ("cookie" \notin Faults) \in BOOLEAN  OBVIOUS
  <2>2. tor \in Daemon /\ tor.gen + 1 \in Nat
    BY EnvSame DEF EnvOK, Daemon
  <2>3. (tor.cookie \/ "cookie" \notin Faults) \in BOOLEAN
    BY <2>1, <2>2 DEF Daemon
  <2>4. [tor EXCEPT !.gen = @ + 1, !.up = TRUE, !.halting = FALSE, !.network = TRUE,
                    !.cookie = (@ \/ "cookie" \notin Faults)] \in Daemon
    BY <2>2, <2>3 DEF Daemon
  <2> QED  BY <2>2, <2>4 DEF RunTor
<1>2. EnvOK'
  BY <1>1, EnvSame DEF RunTor, EnvOK
<1> QED  BY <1>2 DEF RunTor, Tells, At

\* The shell runs a tor command.
LEMMA RunTorStep ==
  ASSUME IInv, NEW t, RunTor(t)
  PROVE  IInv'
<1>1. UNCHANGED <<cur, svc>> /\ EnvOK'
  BY RunTorMoves
<1>2. CASE UNCHANGED tasks
  BY <1>1, <1>2 DEF IInv, TypeOK, ShellInv, SubscribedInv, OnMeansSubscribed, TaskIds,
                    Self
<1>3. CASE t \in TaskIds /\ \E p \in {"running", "polipo"} : Goto(t, p)
  <2>1. {"running", "polipo"} \subseteq Pcs
    BY DEF Pcs
  <2> QED  BY <1>1, <1>3, <2>1, GotoStep
<1> QED  BY <1>2, <1>3, RunTorMoves

-----------------------------------------------------------------------------
(* Android, the event threads and Tor.                                     *)

\* A new intent or thread of the instance i.
LEMMA AddStep ==
  ASSUME IInv, NEW j \in Job, j.inst \in 1..Len(svc), j.pc \notin {"info", "found"},
         tasks' = Append(tasks, j), UNCHANGED <<cur, svc>>, EnvOK'
  PROVE  IInv'
<1>1. tasks \in Seq(Job)
  BY DEF IInv, TypeOK
<1>2. ASSUME NEW u \in 1..Len(tasks')
      PROVE  /\ tasks'[u].inst \in 1..Len(svc)
             /\ tasks'[u].pc \in {"info", "found"} => svc[tasks'[u].inst].events # 0
  <2>1. CASE u = Len(tasks) + 1
    BY <2>1, <1>1, JobAdded
  <2>2. CASE u \in 1..Len(tasks)
    <3>1. tasks'[u] = tasks[u]
      BY <2>2, <1>1, JobAdded
    <3> QED  BY <2>2, <3>1, Shapes DEF IInv, SubscribedInv, TaskIds, Self
  <2> QED  BY <1>1, <2>1, <2>2, JobAdded
<1>3. tasks' \in Seq(Job)
  BY <1>1, JobAdded
<1> QED  BY <1>2, <1>3, JobsStep

\* A fresh instance satisfies the invariant by itself.
LEMMA FreshService ==
  /\ NewService \in Service /\ NewService.status # "ON" /\ ~ NewService.built
  /\ [NewService EXCEPT !.alive = FALSE, !.shell = FALSE] \in Service
  /\ [NewService EXCEPT !.alive = FALSE, !.shell = FALSE].status # "ON"
  /\ ~ [NewService EXCEPT !.alive = FALSE, !.shell = FALSE].built
  /\ ~ [NewService EXCEPT !.alive = FALSE, !.shell = FALSE].shell
<1>1. NewService \in Service
  BY DEF NewService, Service, Statuses
<1>2. [NewService EXCEPT !.alive = FALSE, !.shell = FALSE] \in Service
  BY <1>1 DEF Service
<1>3. /\ NewService.status # "ON" /\ ~ NewService.built
      /\ [NewService EXCEPT !.alive = FALSE, !.shell = FALSE].status # "ON"
      /\ ~ [NewService EXCEPT !.alive = FALSE, !.shell = FALSE].built
      /\ ~ [NewService EXCEPT !.alive = FALSE, !.shell = FALSE].shell
  BY DEF NewService
<1> QED  BY <1>1, <1>2, <1>3

\* onCreate and onStartCommand: the new instance is the current one, and every
\* older shell was closed when its instance was destroyed.
LEMMA StartServiceStep ==
  ASSUME IInv, NEW k \in Intents, StartService(k)
  PROVE  IInv'
<1> USE EnvSame
<1>k. k \in Kinds /\ {"queued", "config"} \subseteq Pcs /\ MaxTries \in Nat
      /\ "config" \in Kinds
  BY BoundAssumption DEF StartService, Kinds, Pcs
<1>e. EnvOK'
  BY DEF StartService
<1>1. CASE cur # 0
  <2>1. Task(cur, k, "queued", MaxTries) \in Job /\ cur \in 1..Len(svc)
    BY <1>1, <1>k, Shapes DEF Task, Job, IInv, TypeOK
  <2> QED  BY <1>1, <1>e, <2>1, AddStep DEF StartService, Task
<1>2. CASE cur = 0
  <2> DEFINE i == Len(svc) + 1
             a == Task(i, "config", "config", MaxTries)
             b == Task(i, k, "queued", MaxTries)
  <2>1. /\ svc' = Append(svc, NewService) /\ cur' = i
        /\ tasks' = tasks \o <<a, b>>
    BY <1>2 DEF StartService
  <2>2. svc \in Seq(Service) /\ tasks \in Seq(Job) /\ Len(svc) \in Nat
    BY Shapes DEF IInv, TypeOK
  <2>3. /\ a \in Job /\ a.inst = i /\ a.pc = "config"
        /\ b \in Job /\ b.inst = i /\ b.pc = "queued"
    BY <2>2, <1>k DEF Task, Job
  <2> HIDE DEF a, b
  <2>4. /\ svc' \in Seq(Service) /\ Len(svc') = i
        /\ \A n \in 1..Len(svc) : svc'[n] = svc[n]
        /\ svc'[i] = NewService
    BY <2>1, <2>2, FreshService
  <2>5. tasks' = Append(Append(tasks, a), b)
    BY <2>1, <2>2, <2>3
  <2>6. /\ tasks' \in Seq(Job) /\ Len(tasks') = Len(tasks) + 2
        /\ \A u \in 1..Len(tasks) : tasks'[u] = tasks[u]
        /\ tasks'[Len(tasks) + 1] = a /\ tasks'[Len(tasks) + 2] = b
    <3>1. Append(tasks, a) \in Seq(Job) /\ Len(Append(tasks, a)) = Len(tasks) + 1
          /\ Len(tasks) \in Nat
      BY <2>2, <2>3, JobAdded
    <3>2. \A u \in 1..(Len(tasks) + 1) : tasks'[u] = Append(tasks, a)[u]
      BY <2>3, <2>5, <3>1, JobAdded
    <3>3. tasks' \in Seq(Job) /\ Len(tasks') = Len(tasks) + 2
          /\ tasks'[Len(tasks) + 2] = b
      BY <2>3, <2>5, <3>1, JobAdded
    <3>4. Append(tasks, a)[Len(tasks) + 1] = a
          /\ \A u \in 1..Len(tasks) : Append(tasks, a)[u] = tasks[u]
      BY <2>2, <2>3, JobAdded
    <3> QED  BY <3>1, <3>2, <3>3, <3>4
  <2>7. ASSUME NEW u \in 1..Len(tasks')
        PROVE  /\ tasks'[u].inst \in 1..Len(svc')
               /\ tasks'[u].pc \in {"info", "found"} => svc'[tasks'[u].inst].events # 0
    <3>1. u \in 1..Len(tasks) \/ u = Len(tasks) + 1 \/ u = Len(tasks) + 2
      BY <2>2, <2>6
    <3>2. CASE u \in 1..Len(tasks)
      <4>1. tasks'[u] = tasks[u] /\ tasks[u].inst \in 1..Len(svc)
        BY <3>2, <2>6, Shapes DEF IInv, TaskIds
      <4>2. svc'[tasks[u].inst] = svc[tasks[u].inst]
        BY <4>1, <2>4
      <4>3. tasks[u].inst \in 1..Len(svc')
        BY <4>1, <2>2, <2>4
      <4>4. tasks[u].pc \in {"info", "found"} => svc[tasks[u].inst].events # 0
        BY <3>2 DEF IInv, SubscribedInv, TaskIds, Self
      <4> QED  BY <4>1, <4>2, <4>3, <4>4
    <3>3. CASE u = Len(tasks) + 1 \/ u = Len(tasks) + 2
      BY <3>3, <2>2, <2>3, <2>4, <2>6
    <3> QED  BY <3>1, <3>2, <3>3
  <2>8. TypeOK'
    BY <1>e, <2>1, <2>2, <2>4, <2>6, <2>7 DEF TypeOK, TaskIds
  <2>9. ShellInv'
    BY <1>2, <2>1, <2>2, <2>4 DEF ShellInv, IInv
  <2>10. SubscribedInv'
    <3>1. ASSUME NEW j \in 1..Len(svc')
          PROVE  /\ svc'[j].status = "ON" => svc'[j].events # 0
                 /\ svc'[j].built => svc'[j].events # 0
      <4>1. CASE j \in 1..Len(svc)
        BY <4>1, <2>4 DEF SubscribedInv, OnMeansSubscribed, IInv
      <4>2. CASE j = Len(svc) + 1
        BY <4>2, <2>4, FreshService
      <4> QED  BY <4>1, <4>2, <2>2, <2>4
    <3> QED  BY <3>1, <2>7 DEF SubscribedInv, OnMeansSubscribed, TaskIds, Self
  <2> QED  BY <2>8, <2>9, <2>10 DEF IInv
<1> QED  BY <1>1, <1>2

\* onDestroy: the shell of the instance is closed as it stops being current.
LEMMA OnDestroyStep ==
  ASSUME IInv, OnDestroy
  PROVE  IInv'
<1> USE EnvSame
<1> DEFINE s == [svc[cur] EXCEPT !.shell = FALSE]
           j == Task(cur, "stop", "begin", 0)
<1>1. /\ svc \in Seq(Service) /\ tasks \in Seq(Job) /\ Len(svc) \in Nat
      /\ cur \in 1..Len(svc) /\ svc[cur] \in Service
  BY Shapes DEF IInv, TypeOK, OnDestroy
<1>2. /\ s \in Service /\ ~ s.shell /\ s.status = svc[cur].status
      /\ s.events = svc[cur].events /\ s.built = svc[cur].built
  BY <1>1 DEF Service
<1>3. j \in Job /\ j.inst = cur /\ j.pc = "begin"
  BY <1>1 DEF Task, Job, Kinds, Pcs
<1>4. /\ svc' = [svc EXCEPT ![cur] = s] /\ tasks' = Append(tasks, j)
      /\ cur' = 0 /\ EnvOK'
  BY DEF OnDestroy
<1> HIDE DEF s, j
<1>5. /\ svc' \in Seq(Service) /\ Len(svc') = Len(svc) /\ svc'[cur] = s
      /\ \A n \in 1..Len(svc) : n # cur => svc'[n] = svc[n]
  BY <1>1, <1>2, <1>4
<1>6. \A n \in 1..Len(svc) : /\ svc'[n].status = svc[n].status
                             /\ svc'[n].events = svc[n].events
                             /\ svc'[n].built = svc[n].built
                             /\ ~ svc'[n].shell
  BY <1>1, <1>2, <1>5 DEF IInv, ShellInv
<1>7. ASSUME NEW u \in 1..Len(tasks')
      PROVE  /\ tasks'[u].inst \in 1..Len(svc')
             /\ tasks'[u].pc \in {"info", "found"} => svc'[tasks'[u].inst].events # 0
  <2>1. CASE u = Len(tasks) + 1
    BY <2>1, <1>1, <1>3, <1>4, <1>5, JobAdded
  <2>2. CASE u \in 1..Len(tasks)
    <3>1. tasks'[u] = tasks[u]
      BY <2>2, <1>1, <1>3, <1>4, JobAdded
    <3> QED
      BY <2>2, <3>1, <1>5, <1>6, Shapes DEF IInv, SubscribedInv, TaskIds, Self
  <2> QED  BY <1>1, <1>3, <1>4, <2>1, <2>2, JobAdded
<1>8. TypeOK'
  <2>1. tasks' \in Seq(Job)
    BY <1>1, <1>3, <1>4, JobAdded
  <2> QED  BY <1>1, <1>4, <1>5, <1>7, <2>1 DEF TypeOK, TaskIds
<1>9. ShellInv' /\ SubscribedInv'
  BY <1>5, <1>6, <1>7 DEF ShellInv, SubscribedInv, OnMeansSubscribed, IInv, TaskIds,
                          Self
<1> QED  BY <1>8, <1>9 DEF IInv

\* The process dies: every task ends, and only a restarted instance has a shell.
LEMMA ProcessDiesStep ==
  ASSUME IInv, ProcessDies
  PROVE  IInv'
<1> USE EnvSame
<1> DEFINE i    == Len(svc) + 1
           dead == [NewService EXCEPT !.alive = FALSE, !.shell = FALSE]
           gone == [t \in TaskIds |-> [tasks[t] EXCEPT !.pc = "done"]]
           lost == [n \in 1..Len(svc) |-> dead]
           j    == Task(i, "config", "config", MaxTries)
<1>1. Len(svc) \in Nat /\ Len(tasks) \in Nat /\ MaxTries \in Nat
  BY Shapes, BoundAssumption DEF IInv
<1>2. /\ dead \in Service /\ dead.status # "ON" /\ ~ dead.built /\ ~ dead.shell
  BY FreshService
<1>3. j \in Job /\ j.inst = i /\ j.pc = "config"
  BY <1>1 DEF Task, Job, Kinds, Pcs
<1>4. \A t \in TaskIds : [tasks[t] EXCEPT !.pc = "done"] \in Job
  BY Shapes DEF Job, Pcs, IInv
<1>5. gone \in Seq(Job) /\ Len(gone) = Len(tasks)
  BY <1>1, <1>4 DEF TaskIds
<1>6. \A t \in 1..Len(tasks) : /\ gone[t].pc = "done"
                               /\ gone[t].inst = tasks[t].inst
                               /\ tasks[t].inst \in 1..Len(svc)
  BY Shapes DEF TaskIds, Job, IInv
<1>e. EnvOK' /\ \/ cur = 0 /\ tasks' = gone /\ svc' = lost /\ cur' = 0
                \/ tasks' = Append(gone, j) /\ svc' = Append(lost, NewService) /\ cur' = i
  <2>1. EnvOK'
    BY DEF ProcessDies, EnvOK
  <2> QED  BY <2>1 DEF ProcessDies
<1> HIDE DEF dead
<1>7. /\ lost \in Seq(Service) /\ Len(lost) = Len(svc)
      /\ \A n \in 1..Len(svc) : lost[n] = dead
  BY <1>1, <1>2
<1> HIDE DEF gone, lost, j
<1>8. CASE tasks' = gone /\ svc' = lost /\ cur' = 0
  <2>1. TypeOK'
    BY <1>1, <1>e, <1>5, <1>6, <1>7, <1>8 DEF TypeOK, TaskIds
  <2>2. ShellInv' /\ SubscribedInv'
    BY <1>1, <1>2, <1>5, <1>6, <1>7, <1>8
       DEF ShellInv, SubscribedInv, OnMeansSubscribed, TaskIds
  <2> QED  BY <2>1, <2>2 DEF IInv
<1>9. CASE tasks' = Append(gone, j) /\ svc' = Append(lost, NewService) /\ cur' = i
  <2>1. /\ svc' \in Seq(Service) /\ Len(svc') = i /\ svc'[i] = NewService
        /\ \A n \in 1..Len(svc) : svc'[n] = dead
    BY <1>1, <1>7, <1>9, FreshService
  <2>2. /\ tasks' \in Seq(Job) /\ Len(tasks') = Len(tasks) + 1
        /\ tasks'[Len(tasks) + 1] = j
        /\ \A u \in 1..Len(tasks) : tasks'[u] = gone[u]
    BY <1>3, <1>5, <1>9, JobAdded
  <2>3. \A u \in 1..Len(tasks') : /\ tasks'[u].inst \in 1..Len(svc')
                                  /\ tasks'[u].pc \notin {"info", "found"}
    BY SMTT(20), <1>1, <1>3, <1>6, <2>1, <2>2
  <2>4. TypeOK'
    BY <1>1, <1>e, <1>9, <2>1, <2>2, <2>3 DEF TypeOK, TaskIds
  <2>5. ShellInv' /\ SubscribedInv'
    BY <1>1, <1>2, <1>9, <2>1, <2>3, FreshService
       DEF ShellInv, SubscribedInv, OnMeansSubscribed, TaskIds
  <2> QED  BY <2>4, <2>5 DEF IInv
<1> QED  BY <1>e, <1>8, <1>9

\* A connectivity broadcast adds at most one thread.
LEMMA ConnectivityStep ==
  ASSUME IInv, ConnectivityChange
  PROVE  IInv'
<1>1. EnvOK'
  BY EnvSame DEF ConnectivityChange, EnvOK
<1>2. CASE UNCHANGED tasks
  <2>1. UNCHANGED <<cur, svc>>
    BY DEF ConnectivityChange
  <2> QED  BY <1>1, <1>2, <2>1 DEF IInv, TypeOK, ShellInv, SubscribedInv,
                                   OnMeansSubscribed, TaskIds, Self
<1>3. CASE \E i \in 1..Len(svc), a \in {0, 1} :
             tasks' = Append(tasks, Task(i, "net", "call", a))
  <2>1. PICK i \in 1..Len(svc), a \in {0, 1} :
               tasks' = Append(tasks, Task(i, "net", "call", a))
    BY <1>3
  <2>2. Task(i, "net", "call", a) \in Job
    BY Shapes DEF Task, Job, Kinds, Pcs, IInv
  <2> QED  BY <1>1, <2>1, <2>2, AddStep DEF ConnectivityChange, Task
<1> QED  BY <1>2, <1>3 DEF ConnectivityChange

\* The parse threads: ON is announced by a handler that is subscribed.
LEMMA EventsStep ==
  ASSUME IInv, Events
  PROVE  IInv'
<1> USE EnvSame
<1>1. PICK i : CircuitBuilt(i) \/ AnnounceOn(i)
  BY DEF Events
<1>2. PICK s : /\ svc' = [svc EXCEPT ![i] = s] /\ s \in Service
               /\ s.events # 0 /\ s.events = svc[i].events /\ s.shell = svc[i].shell
  <2>1. i \in 1..Len(svc) /\ svc[i] \in Service
    BY <1>1, Shapes DEF CircuitBuilt, AnnounceOn, IInv
  <2>2. svc[i].events # 0
    BY <1>1, <2>1 DEF CircuitBuilt, AnnounceOn, Linked, IInv, SubscribedInv
  <2>3. CASE CircuitBuilt(i)
    <3> DEFINE s == [svc[i] EXCEPT !.built = TRUE]
    <3>1. svc' = [svc EXCEPT ![i] = s]
      BY <2>3 DEF CircuitBuilt
    <3>2. s \in Service /\ s.events = svc[i].events /\ s.shell = svc[i].shell
      BY <2>1 DEF Service
    <3> QED  BY <3>1, <3>2, <2>2
  <2>4. CASE AnnounceOn(i)
    <3> DEFINE s == [svc[i] EXCEPT !.built = FALSE, !.status = "ON"]
    <3>1. svc' = [svc EXCEPT ![i] = s]
      BY <2>4 DEF AnnounceOn
    <3>2. s \in Service /\ s.events = svc[i].events /\ s.shell = svc[i].shell
      BY <2>1 DEF Service, Statuses
    <3> QED  BY <3>1, <3>2, <2>2
  <2> QED  BY <1>1, <2>3, <2>4
<1>3. i \in 1..Len(svc) /\ UNCHANGED <<cur, tasks>> /\ EnvOK' /\ svc \in Seq(Service)
  BY <1>1 DEF CircuitBuilt, AnnounceOn, IInv, TypeOK
<1>4. /\ svc' \in Seq(Service) /\ Len(svc') = Len(svc) /\ svc'[i] = s
      /\ \A n \in 1..Len(svc) : n # i => svc'[n] = svc[n]
  BY <1>2, <1>3
<1>5. TypeOK'
  BY <1>3, <1>4 DEF IInv, TypeOK, TaskIds
<1>6. ShellInv'
  BY <1>2, <1>3, <1>4 DEF IInv, ShellInv
<1>7. SubscribedInv'
  <2>1. \A n \in 1..Len(svc) : svc'[n].events = svc[n].events
    BY <1>2, <1>3, <1>4
  <2>2. \A n \in 1..Len(svc) :
          (svc'[n].status = "ON" \/ svc'[n].built) => svc'[n].events # 0
    BY <1>2, <1>3, <1>4 DEF IInv, SubscribedInv, OnMeansSubscribed
  <2>3. \A t \in TaskIds' : tasks'[t].pc \in {"info", "found"}
                              => svc'[tasks'[t].inst].events # 0
    BY <1>3, <2>1, Shapes DEF IInv, SubscribedInv, TaskIds, Self
  <2> QED  BY <1>4, <2>2, <2>3 DEF SubscribedInv, OnMeansSubscribed, Self
<1> QED  BY <1>5, <1>6, <1>7 DEF IInv

\* The invariant holds of every reachable state.
THEOREM Invariance == Spec => []IInv
<1>1. Init => IInv
  <2> SUFFICES ASSUME Init PROVE IInv
    OBVIOUS
  <2>1. svc = <<>> /\ tasks = <<>> /\ Len(svc) = 0 /\ Len(tasks) = 0 /\ cur = 0
    BY DEF Init
  <2>2. svc \in Seq(Service) /\ tasks \in Seq(Job)
    BY <2>1
  <2>3. EnvOK
    BY DEF Init, EnvOK, Daemon
  <2>4. 1..Len(svc) = {} /\ TaskIds = {} /\ cur \in 0..Len(svc)
    BY <2>1 DEF TaskIds
  <2> QED  BY <2>2, <2>3, <2>4 DEF IInv, TypeOK, ShellInv, SubscribedInv,
                                   OnMeansSubscribed
<1>2. IInv /\ [Next]_vars => IInv'
  <2> SUFFICES ASSUME IInv, [Next]_vars PROVE IInv'
    OBVIOUS
  <2>1. CASE UNCHANGED vars
    BY <2>1 DEF vars, IInv, TypeOK, ShellInv, SubscribedInv, OnMeansSubscribed,
                TaskIds, Self, EnvOK
  <2>2. CASE Android
    BY <2>2, StartServiceStep, OnDestroyStep, ProcessDiesStep, ConnectivityStep
       DEF Android, ProcessKilled
  <2>3. CASE Runs
    BY <2>3, ThreadStep, ProcessDiesStep DEF Runs, RereadConfigCrashes
  <2>6. CASE \E t \in launches : RunTor(t)
    BY <2>6, RunTorStep
  <2>4. CASE Events
    BY <2>4, EventsStep
  <2>5. CASE TorExits \/ TorWritesCookie
    <3>1. EnvOK'
      BY <2>5, EnvSame DEF TorExits, TorWritesCookie, EnvOK, Daemon
    <3> QED  BY <2>5, <3>1 DEF TorExits, TorWritesCookie, IInv, TypeOK, ShellInv,
                SubscribedInv, OnMeansSubscribed, TaskIds, Self
  <2> QED  BY <2>1, <2>2, <2>3, <2>4, <2>5, <2>6 DEF Next
<1> QED  BY <1>1, <1>2, PTL DEF Spec

\* Every field has its type in every reachable state.
THEOREM TypeCorrect == Spec => []TypeOK
<1>1. IInv => TypeOK  BY DEF IInv
<1> QED  BY <1>1, Invariance, PTL

\* sendCallbackStatus(STATUS_ON) is only reached with the event handler installed.
THEOREM OnIsSubscribed == Spec => []OnMeansSubscribed
<1>1. IInv => OnMeansSubscribed  BY DEF IInv, SubscribedInv
<1> QED  BY <1>1, Invariance, PTL

\* A daemon comes up only by a command that a shell accepted, and a shell accepts it
\* only from a start thread of the instance that Android sends intents to: a destroyed
\* instance's threads run on, but their shell is closed.
THEOREM OnlyCurrentLaunches == Spec => LaunchedByCurrent
<1>1. IInv /\ [Next]_vars => [CurrentLaunches]_vars
  <2> SUFFICES ASSUME IInv, Next PROVE CurrentLaunches
    OBVIOUS
  <2>1. tor \in Daemon
    BY DEF IInv, TypeOK, EnvOK
  <2>2. CASE tor'.gen = tor.gen /\ launches' \subseteq launches
    BY <2>2 DEF CurrentLaunches
  <2>3. CASE Android \/ Events \/ TorExits \/ TorWritesCookie
    <3>1. launches' \subseteq launches /\ (UNCHANGED tor \/ TorExits \/ TorWritesCookie)
      BY <2>3 DEF Android, Events, StartService, OnDestroy, ProcessKilled, ProcessDies,
                  ConnectivityChange, CircuitBuilt, AnnounceOn, env, TorExits,
                  TorWritesCookie
    <3> QED  BY <2>1, <2>2, <3>1 DEF TorExits, TorWritesCookie, Daemon
  <2>4. CASE \E t \in launches : RunTor(t)
    BY <2>4 DEF RunTor, CurrentLaunches
  <2>5. CASE Runs
    <3>1. PICK t \in TaskIds : Thread(t) \/ RereadConfigCrashes(t)
      BY <2>5 DEF Runs
    <3>2. CASE RereadConfigCrashes(t)
      BY <2>2, <3>2 DEF RereadConfigCrashes, ProcessDies
    <3>3. CASE AddTor(t)
      <4>1. UNCHANGED tor /\ At(t, {"start"}, "verified")
        BY <3>3 DEF AddTor
      <4>2. CASE Self(t).shell /\ launches' = launches \cup {t}
        <5>1. tasks[t].inst = cur
          BY <4>2, Shapes DEF IInv, ShellInv, Self
        <5> QED  BY <4>1, <4>2, <5>1 DEF At, CurrentLaunches
      <4> QED  BY <2>2, <3>3, <4>1, <4>2 DEF AddTor
    <3>4. CASE Thread(t) /\ ~ AddTor(t)
      <4>1. UNCHANGED tor \/ KillTor(t) \/ SetTorNetworkEnabled(t) \/ SetExitNode(t)
        BY <3>4
           DEF Thread, RouterRuns, Route, Configure, FoundExisting, StartGuard,
               StartAnnounce, Verify, Verified, TorStarted, ExecTimesOut, ConnectLoop,
               Connect, LaunchThread, NoControlPort, ConnectFails, ConnectReset,
               ReadCookie, Authenticate, AddEventHandler, GetInfo, StartEnds, StopBegin,
               DropConn, StopEnd, NewIdentity, RequestTorRereadConfig, Signal, env
      <4>2. UNCHANGED launches
        BY <3>4
           DEF Thread, RouterRuns, Route, Configure, FoundExisting, StartGuard,
               StartAnnounce, Verify, Verified, TorStarted, ExecTimesOut, ConnectLoop,
               Connect, LaunchThread, NoControlPort, ConnectFails, ConnectReset,
               ReadCookie, Authenticate, AddEventHandler, GetInfo, StartEnds, StopBegin,
               DropConn, StopEnd, NewIdentity, RequestTorRereadConfig, Signal, env,
               KillTor, SetTorNetworkEnabled, SetExitNode
      <4>3. CASE KillTor(t)
        BY <2>1, <2>2, <4>2, <4>3 DEF KillTor, Daemon
      <4>4. CASE SetTorNetworkEnabled(t) \/ SetExitNode(t)
        BY <2>1, <2>2, <4>2, <4>4
           DEF SetTorNetworkEnabled, SetExitNode, SetNetwork, Daemon
      <4> QED  BY <2>2, <4>1, <4>2, <4>3, <4>4
    <3> QED  BY <3>1, <3>2, <3>3, <3>4
  <2> QED  BY <2>3, <2>4, <2>5 DEF Next
<1> QED  BY <1>1, Invariance, PTL DEF Spec, LaunchedByCurrent

-----------------------------------------------------------------------------
(* TorService implements ServiceStatus, for any intents, faults and bounds. *)

\* Only a living instance has threads that run, and only a destroyed one has a
\* stop thread: the index of the current instance is never used again.
TaskInv ==
  \A t \in TaskIds : /\ tasks[t].pc # "done" => Self(t).alive
                     /\ tasks[t].kind = "stop" => tasks[t].inst # cur

CurrentLives == cur # 0 => svc[cur].alive

-----------------------------------------------------------------------------
(* What a step of a thread does, as far as ServiceStatus sees it.          *)

\* The tasks keep their instance and kind; a new one belongs to the same instance
\* and is neither a start nor a stop.
JobsKept(t) ==
  /\ Len(tasks') >= Len(tasks)
  /\ \A u \in 1..Len(tasks) : /\ tasks'[u].inst = tasks[u].inst
                              /\ tasks'[u].kind = tasks[u].kind
                              /\ u # t => tasks'[u] = tasks[u]
  /\ \A u \in 1..Len(tasks') : u > Len(tasks) =>
       tasks'[u].inst = tasks[t].inst /\ tasks'[u].kind \in {"net", "signal"}

\* The record of the instance becomes n.
Becomes(t, n) ==
  /\ svc' = [svc EXCEPT ![tasks[t].inst] = n] /\ n \in Service
  /\ n.alive = Self(t).alive

\* A subscription, an announcement, or neither.
Speaks(t, n) ==
  \/ n.status = Self(t).status /\ (n.events = Self(t).events \/ n.events # 0)
  \/ /\ n.events = Self(t).events
     /\ \/ n.status = "STARTING" /\ tasks[t].kind = "start"
        \/ n.status = "ON" /\ Self(t).events # 0
        \/ n.status \in {"STOPPING", "OFF"} /\ tasks[t].kind = "stop"

\* A task that moves.
LEMMA GotoKeeps ==
  ASSUME IInv, NEW t \in TaskIds, NEW p, Goto(t, p)
  PROVE  JobsKept(t)
<1>1. tasks \in Seq(Job) /\ t \in 1..Len(tasks) /\ tasks[t] \in Job
  BY Shapes DEF IInv, TypeOK, TaskIds
<1>2. tasks' = [tasks EXCEPT ![t] = [tasks[t] EXCEPT !.pc = p]]
  BY DEF Goto
<1>3. /\ Len(tasks') = Len(tasks) /\ tasks'[t] = [tasks[t] EXCEPT !.pc = p]
      /\ \A u \in 1..Len(tasks) : u # t => tasks'[u] = tasks[u]
  BY <1>1, <1>2
<1>4. tasks'[t].inst = tasks[t].inst /\ tasks'[t].kind = tasks[t].kind
  BY <1>1, <1>3 DEF Job
<1>5. Len(tasks) \in Nat
  BY <1>1
<1>6. \A u \in 1..Len(tasks) : /\ tasks'[u].inst = tasks[u].inst
                               /\ tasks'[u].kind = tasks[u].kind
                               /\ u # t => tasks'[u] = tasks[u]
  BY <1>3, <1>4
<1>7. Len(tasks') >= Len(tasks) /\ \A u \in 1..Len(tasks') : ~ (u > Len(tasks))
  BY <1>3, <1>5
<1> QED  BY <1>6, <1>7 DEF JobsKept

\* A task that ends and starts another.
LEMMA ForkKeeps ==
  ASSUME IInv, NEW t \in TaskIds, NEW k \in {"net", "signal"}, NEW a \in Nat,
         Fork(t, "done", Task(tasks[t].inst, k, "call", a))
  PROVE  JobsKept(t)
<1> DEFINE js  == [tasks EXCEPT ![t].pc = "done"]
           new == Task(tasks[t].inst, k, "call", a)
<1>1. tasks \in Seq(Job) /\ t \in 1..Len(tasks) /\ tasks[t] \in Job /\ Len(tasks) \in Nat
  BY Shapes DEF IInv, TypeOK, TaskIds
<1>2. [tasks[t] EXCEPT !.pc = "done"] \in Job
  BY <1>1 DEF Job, Pcs
<1>3. js \in Seq(Job) /\ Len(js) = Len(tasks)
  BY <1>1, <1>2
<1>4. js[t] = [tasks[t] EXCEPT !.pc = "done"]
      /\ \A u \in 1..Len(tasks) : u # t => js[u] = tasks[u]
  BY <1>1
<1>5. js[t].inst = tasks[t].inst /\ js[t].kind = tasks[t].kind
  BY <1>1, <1>4 DEF Job
<1>6. new \in Job /\ new.inst = tasks[t].inst /\ new.kind = k
  BY <1>1, Shapes DEF Task, Job, Kinds, Pcs, IInv
<1>7. tasks' = Append(js, new)
  BY DEF Fork
<1> HIDE DEF js, new
<1>8. /\ Len(tasks') = Len(tasks) + 1 /\ tasks'[Len(tasks) + 1] = new
      /\ \A u \in 1..Len(tasks) : tasks'[u] = js[u]
  BY <1>3, <1>6, <1>7, JobAdded
<1>9. \A u \in 1..Len(tasks) : /\ tasks'[u].inst = tasks[u].inst
                               /\ tasks'[u].kind = tasks[u].kind
                               /\ u # t => tasks'[u] = tasks[u]
  BY <1>4, <1>5, <1>8
<1>10. Len(tasks') >= Len(tasks)
       /\ \A u \in 1..Len(tasks') : u > Len(tasks) => u = Len(tasks) + 1
  BY <1>1, <1>8
<1> QED  BY <1>6, <1>8, <1>9, <1>10 DEF JobsKept

\* Every step of a thread keeps the tasks so.
LEMMA ThreadJobs ==
  ASSUME IInv, NEW t \in TaskIds, Thread(t)
  PROVE  JobsKept(t) /\ tasks[t].pc # "done" /\ UNCHANGED cur
<1>1. CASE ConnectLoop(t)
  <2>1. CASE Goto(t, "cookie")
    BY <1>1, <2>1, GotoKeeps DEF ConnectLoop, At
  <2>2. CASE ConnNull(t) /\ tasks[t].arg > 0
    <3> DEFINE j == [tasks[t] EXCEPT !.pc = "socket", !.arg = @ - 1]
    <3>1. tasks \in Seq(Job) /\ t \in 1..Len(tasks) /\ tasks[t] \in Job
          /\ Len(tasks) \in Nat
      BY Shapes DEF IInv, TypeOK, TaskIds
    <3>2. j.kind = tasks[t].kind /\ j.inst = tasks[t].inst
      BY <3>1 DEF Job
    <3>3. tasks' = [tasks EXCEPT ![t] = j]
      BY <1>1, <2>2 DEF ConnectLoop
    <3> HIDE DEF j
    <3>4. /\ Len(tasks') = Len(tasks) /\ tasks'[t] = j
          /\ \A u \in 1..Len(tasks) : u # t => tasks'[u] = tasks[u]
      BY <3>1, <3>3
    <3>5. JobsKept(t)
      BY <3>1, <3>2, <3>4 DEF JobsKept
    <3> QED  BY <1>1, <3>5 DEF ConnectLoop, At
  <2> QED  BY <1>1, <2>1, <2>2 DEF ConnectLoop
<1>2. CASE StartGuard(t) \/ NewIdentity(t)
  BY <1>2, GotoKeeps, ForkKeeps DEF StartGuard, NewIdentity, Routed, At
<1>3. ASSUME NEW p, Goto(t, p), UNCHANGED cur, tasks[t].pc # "done"
      PROVE  JobsKept(t) /\ tasks[t].pc # "done" /\ UNCHANGED cur
  BY <1>3, GotoKeeps
<1>4. CASE RouterRuns(t) \/ Route(t) \/ Configure(t) \/ FoundExisting(t)
           \/ StartAnnounce(t)
  BY <1>3, <1>4 DEF RouterRuns, Route, Routed, Configure, FoundExisting, StartAnnounce,
                    At
<1>9. CASE Verify(t) \/ Verified(t) \/ AddTor(t) \/ TorStarted(t) \/ ExecTimesOut(t)
           \/ StartEnds(t)
  BY <1>3, <1>9 DEF Verify, Verified, AddTor, TorStarted, ExecTimesOut, StartEnds, At
<1>5. CASE Connect(t) \/ LaunchThread(t) \/ NoControlPort(t) \/ ConnectFails(t)
           \/ ConnectReset(t) \/ ReadCookie(t)
  BY <1>3, <1>5 DEF Connect, LaunchThread, NoControlPort, ConnectFails, ConnectReset,
                    ReadCookie, At
<1>6. CASE Authenticate(t) \/ AddEventHandler(t) \/ GetInfo(t) \/ Signal(t)
           \/ RequestTorRereadConfig(t)
  BY <1>3, <1>6, Outcomes DEF Authenticate, AddEventHandler, GetInfo, Signal,
                    RequestTorRereadConfig, At
<1>7. CASE StopBegin(t) \/ KillTor(t) \/ DropConn(t) \/ StopEnd(t)
  BY <1>3, <1>7 DEF StopBegin, KillTor, DropConn, StopEnd, At
<1>8. CASE SetTorNetworkEnabled(t) \/ SetExitNode(t)
  BY <1>3, <1>8, Outcomes DEF SetTorNetworkEnabled, SetExitNode, SetNetwork, At
<1> QED  BY <1>1, <1>2, <1>4, <1>5, <1>6, <1>7, <1>8, <1>9 DEF Thread

\* What it does to the record of its instance.
LEMMA ThreadRecord ==
  ASSUME IInv, NEW t \in TaskIds, Thread(t)
  PROVE  \E n : Becomes(t, n) /\ Speaks(t, n)
<1>0. /\ Self(t) \in Service /\ svc \in Seq(Service) /\ tasks[t].inst \in 1..Len(svc)
      /\ tor.gen \in Nat
  BY Shapes DEF IInv, TypeOK, EnvOK, Daemon
<1>1. ASSUME UNCHANGED svc PROVE \E n : Becomes(t, n) /\ Speaks(t, n)
  <2>1. svc' = [svc EXCEPT ![tasks[t].inst] = Self(t)]
    BY <1>0, <1>1 DEF Self
  <2> QED  BY <1>0, <2>1 DEF Becomes, Speaks
<1>2. ASSUME NEW v \in Nat, Set(t, "conn", v) PROVE \E n : Becomes(t, n) /\ Speaks(t, n)
  <2> DEFINE n == [Self(t) EXCEPT !.conn = v]
  <2>1. n \in Service /\ n.alive = Self(t).alive /\ n.status = Self(t).status
        /\ n.events = Self(t).events
    BY <1>0 DEF Service
  <2>2. svc' = [svc EXCEPT ![tasks[t].inst] = n]
    BY <1>2 DEF Set, Self
  <2> QED  BY <2>1, <2>2 DEF Becomes, Speaks
<1>3. ASSUME NEW v \in {"no", "yes", "closed"}, Set(t, "auth", v)
      PROVE  \E n : Becomes(t, n) /\ Speaks(t, n)
  <2> DEFINE n == [Self(t) EXCEPT !.auth = v]
  <2>1. n \in Service /\ n.alive = Self(t).alive /\ n.status = Self(t).status
        /\ n.events = Self(t).events
    BY <1>0 DEF Service
  <2>2. svc' = [svc EXCEPT ![tasks[t].inst] = n]
    BY <1>3 DEF Set, Self
  <2> QED  BY <2>1, <2>2 DEF Becomes, Speaks
<1>4. ASSUME Set(t, "ready", TRUE) PROVE \E n : Becomes(t, n) /\ Speaks(t, n)
  <2> DEFINE n == [Self(t) EXCEPT !.ready = TRUE]
  <2>1. n \in Service /\ n.alive = Self(t).alive /\ n.status = Self(t).status
        /\ n.events = Self(t).events
    BY <1>0 DEF Service
  <2>2. svc' = [svc EXCEPT ![tasks[t].inst] = n]
    BY <1>4 DEF Set, Self
  <2> QED  BY <2>1, <2>2 DEF Becomes, Speaks
<1>5. ASSUME Set(t, "shell", FALSE) PROVE \E n : Becomes(t, n) /\ Speaks(t, n)
  <2> DEFINE n == [Self(t) EXCEPT !.shell = FALSE]
  <2>1. n \in Service /\ n.alive = Self(t).alive /\ n.status = Self(t).status
        /\ n.events = Self(t).events
    BY <1>0 DEF Service
  <2>2. svc' = [svc EXCEPT ![tasks[t].inst] = n]
    BY <1>5 DEF Set, Self
  <2> QED  BY <2>1, <2>2 DEF Becomes, Speaks
<1>6. ASSUME NEW v \in Statuses, Set(t, "status", v),
             \/ v = "STARTING" /\ tasks[t].kind = "start"
             \/ v = "ON" /\ Self(t).events # 0
             \/ v \in {"STOPPING", "OFF"} /\ tasks[t].kind = "stop"
      PROVE  \E n : Becomes(t, n) /\ Speaks(t, n)
  <2> DEFINE n == [Self(t) EXCEPT !.status = v]
  <2>1. n \in Service /\ n.alive = Self(t).alive /\ n.status = v
        /\ n.events = Self(t).events
    BY <1>0 DEF Service
  <2>2. svc' = [svc EXCEPT ![tasks[t].inst] = n]
    BY <1>6 DEF Set, Self
  <2> QED  BY <1>6, <2>1, <2>2 DEF Becomes, Speaks
<1>7. ASSUME NEW h, CommandFails(t, "done", h) PROVE \E n : Becomes(t, n) /\ Speaks(t, n)
  BY <1>1, <1>3, <1>7, Outcomes
<1>16. ASSUME NEW v \in 0..2, \/ Set(t, "parsers", v)
                              \/ svc' = [svc EXCEPT ![tasks[t].inst].auth = "yes",
                                                    ![tasks[t].inst].parsers = v]
       PROVE  \E n : Becomes(t, n) /\ Speaks(t, n)
  <2>1. PICK a \in {"no", "yes", "closed"} :
          svc' = [svc EXCEPT ![tasks[t].inst] =
                               [Self(t) EXCEPT !.auth = a, !.parsers = v]]
    <3>1. CASE Set(t, "parsers", v)
      <4>1. [Self(t) EXCEPT !.parsers = v]
              = [Self(t) EXCEPT !.auth = Self(t).auth, !.parsers = v]
        BY <1>0 DEF Service
      <4>2. Self(t).auth \in {"no", "yes", "closed"}
        BY <1>0 DEF Service
      <4> QED  BY <3>1, <4>1, <4>2 DEF Set, Self
    <3>2. CASE svc' = [svc EXCEPT ![tasks[t].inst].auth = "yes",
                                  ![tasks[t].inst].parsers = v]
      BY <3>2 DEF Self
    <3> QED  BY <1>16, <3>1, <3>2
  <2> DEFINE n == [Self(t) EXCEPT !.auth = a, !.parsers = v]
  <2>2. n \in Service /\ n.alive = Self(t).alive /\ n.status = Self(t).status
        /\ n.events = Self(t).events
    BY <1>0 DEF Service
  <2> QED  BY <2>1, <2>2 DEF Becomes, Speaks
<1>8. CASE Connect(t)
  <2> DEFINE n == [Self(t) EXCEPT !.conn = tor.gen, !.auth = "no", !.parsers = 0]
  <2>1. n \in Service /\ n.alive = Self(t).alive /\ n.status = Self(t).status
        /\ n.events = Self(t).events
    BY <1>0, Connected
  <2>2. svc' = [svc EXCEPT ![tasks[t].inst] = n]
    BY <1>8 DEF Connect, Self
  <2> QED  BY <2>1, <2>2 DEF Becomes, Speaks
<1>9. CASE StopEnd(t)
  <2> DEFINE n == [Self(t) EXCEPT !.status = "OFF", !.receiver = FALSE]
  <2>1. n \in Service /\ n.alive = Self(t).alive /\ n.status = "OFF"
        /\ n.events = Self(t).events
    BY <1>0 DEF Service, Statuses
  <2>2. svc' = [svc EXCEPT ![tasks[t].inst] = n] /\ tasks[t].kind = "stop"
    BY <1>9 DEF StopEnd, Self, At
  <2> QED  BY <2>1, <2>2 DEF Becomes, Speaks
<1>10. CASE AddEventHandler(t)
  <2>1. CASE ConnReplies(t) /\ Set(t, "events", Self(t).conn)
    <3> DEFINE  n == [Self(t) EXCEPT !.events = Self(t).conn]
    <3>1. Self(t).conn # 0 /\ Self(t).conn \in Nat
      BY <1>0, <2>1 DEF ConnReplies, Open, Linked, Service
    <3>2. n \in Service /\ n.alive = Self(t).alive /\ n.status = Self(t).status
          /\ n.events # 0
      BY <1>0, <3>1 DEF Service
    <3>3. svc' = [svc EXCEPT ![tasks[t].inst] = n]
      BY <2>1 DEF Set, Self
    <3> QED  BY <3>2, <3>3 DEF Becomes, Speaks
  <2> QED  BY <1>10, <1>7, <2>1, Outcomes DEF AddEventHandler
<1>11. CASE FoundExisting(t)
  <2>1. Self(t).events # 0
    BY <1>11 DEF FoundExisting, At, IInv, SubscribedInv
  <2> QED  BY <1>1, <1>6, <1>11, <2>1 DEF FoundExisting, Statuses
<1>12. CASE StartAnnounce(t) \/ StopBegin(t)
  BY <1>6, <1>12 DEF StartAnnounce, StopBegin, At, Statuses
<1>13. CASE Configure(t) \/ ExecTimesOut(t) \/ ConnectReset(t) \/ ReadCookie(t)
            \/ KillTor(t) \/ DropConn(t)
  BY <1>1, <1>2, <1>3, <1>4, <1>5, <1>13
     DEF Configure, ExecTimesOut, ConnectReset, ReadCookie, KillTor, DropConn
<1>14. CASE GetInfo(t) \/ Signal(t) \/ RequestTorRereadConfig(t)
            \/ SetTorNetworkEnabled(t) \/ SetExitNode(t)
  BY <1>1, <1>3, <1>7, <1>14
     DEF GetInfo, Signal, RequestTorRereadConfig, SetTorNetworkEnabled,
         SetExitNode, SetNetwork
<1>17. CASE Authenticate(t)
  <2>1. Self(t).parsers \in 0..2
    BY <1>0 DEF Service
  <2>2. (IF Self(t).parsers = 0 THEN 1 ELSE Self(t).parsers) \in 0..2
    BY <2>1
  <2>3. ASSUME Accepted(t) PROVE \E n : Becomes(t, n) /\ Speaks(t, n)
    <3>1. svc' = [svc EXCEPT ![tasks[t].inst].auth = "yes",
                             ![tasks[t].inst].parsers =
                                IF Self(t).parsers = 0 THEN 1 ELSE Self(t).parsers]
      BY <2>3 DEF Accepted, Self
    <3> QED  BY <1>16, <2>2, <3>1
  <2> QED  BY <1>7, <1>17, <2>3 DEF Authenticate
<1>18. CASE LaunchThread(t)
  BY <1>1, <1>16, <1>18 DEF LaunchThread
<1>15. CASE RouterRuns(t) \/ Route(t) \/ StartGuard(t) \/ Verify(t) \/ Verified(t)
            \/ AddTor(t) \/ TorStarted(t) \/ ConnectLoop(t) \/ NoControlPort(t)
            \/ ConnectFails(t) \/ StartEnds(t) \/ NewIdentity(t)
  BY <1>1, <1>15 DEF RouterRuns, Route, StartGuard, Verify, Verified, AddTor,
         TorStarted, ConnectLoop, NoControlPort, ConnectFails, StartEnds, NewIdentity
<1> QED  BY <1>8, <1>9, <1>10, <1>11, <1>12, <1>13, <1>14, <1>15, <1>17, <1>18
         DEF Thread
-----------------------------------------------------------------------------
(* TaskInv is preserved.                                                   *)

\* The part of the tasks that TaskInv speaks of
TaskOK(u, ts, ss, c) ==
  /\ ts[u].pc # "done" => ss[ts[u].inst].alive
  /\ ts[u].kind = "stop" => ts[u].inst # c

\* TaskInv, task by task.
LEMMA TaskInvAll ==
  /\ TaskInv  <=> \A u \in 1..Len(tasks)  : TaskOK(u, tasks, svc, cur)
  /\ TaskInv' <=> \A u \in 1..Len(tasks') : TaskOK(u, tasks', svc', cur')
  BY DEF TaskInv, TaskOK, TaskIds, Self

\* A step that moves a task while the instances live on.
LEMMA KeptTasks ==
  ASSUME IInv, TaskInv, NEW t \in TaskIds, JobsKept(t), tasks[t].pc # "done",
         UNCHANGED cur, \A i \in 1..Len(svc) : svc'[i].alive = svc[i].alive
  PROVE  TaskInv'
<1>1. JobsKept(t) /\ tasks[t].pc # "done" /\ UNCHANGED cur
  OBVIOUS
<1>3. tasks[t].inst \in 1..Len(svc) /\ svc \in Seq(Service)
      /\ \A u \in 1..Len(tasks) : tasks[u].inst \in 1..Len(svc)
  BY Shapes DEF IInv, TypeOK, TaskIds
<1>4. \A i \in 1..Len(svc) : svc'[i].alive = svc[i].alive
  OBVIOUS
<1>5. tasks[t].inst # cur \/ tasks[t].kind # "stop"
  BY DEF TaskInv
<1>6. ASSUME NEW u \in 1..Len(tasks')
      PROVE  TaskOK(u, tasks', svc', cur')
  <2>1. CASE u > Len(tasks)
    <3>1. tasks'[u].inst = tasks[t].inst /\ tasks'[u].kind # "stop"
      BY <1>1, <2>1 DEF JobsKept
    <3>2. svc'[tasks[t].inst].alive
      BY <1>1, <1>3, <1>4 DEF TaskInv, Self
    <3> QED  BY <3>1, <3>2 DEF TaskOK
  <2>2. CASE u \in 1..Len(tasks) /\ u # t
    <3>1. tasks'[u] = tasks[u] /\ tasks[u].inst \in 1..Len(svc)
      BY <1>1, <1>3, <2>2 DEF JobsKept
    <3> QED  BY <3>1, <1>1, <1>4, <2>2, TaskInvAll DEF TaskOK
  <2>3. CASE u = t
    <3>1. tasks'[t].inst = tasks[t].inst /\ tasks'[t].kind = tasks[t].kind
      BY <1>1 DEF JobsKept, TaskIds
    <3>2. svc'[tasks[t].inst].alive
      BY <1>1, <1>3, <1>4 DEF TaskInv, Self
    <3> QED  BY <3>1, <3>2, <2>3, <1>1, <1>5 DEF TaskOK
  <2>4. Len(tasks) \in Nat /\ u \in Nat
    BY Shapes DEF IInv
  <2> QED  BY <2>1, <2>2, <2>3, <2>4
<1> QED  BY <1>6, TaskInvAll

\* A step of a thread: its instance lives on, and so do the others.
LEMMA ThreadTasks ==
  ASSUME IInv, TaskInv, NEW t \in TaskIds, Thread(t)
  PROVE  TaskInv'
<1>1. JobsKept(t) /\ tasks[t].pc # "done" /\ UNCHANGED cur
  BY ThreadJobs
<1>2. PICK n : Becomes(t, n)
  BY ThreadRecord
<1>3. tasks[t].inst \in 1..Len(svc) /\ svc \in Seq(Service)
  BY Shapes DEF IInv, TypeOK
<1>4. \A i \in 1..Len(svc) : svc'[i].alive = svc[i].alive
  BY <1>2, <1>3 DEF Becomes, Self
<1> QED  BY <1>1, <1>4, KeptTasks

\* The shell moves one that waits for it.
LEMMA RunTorTasks ==
  ASSUME IInv, TaskInv, CurrentLives, NEW t, RunTor(t)
  PROVE  TaskInv' /\ CurrentLives'
<1>1. UNCHANGED <<cur, svc>>
  BY RunTorMoves
<1>2. CASE UNCHANGED tasks
  BY <1>1, <1>2 DEF TaskInv, CurrentLives, TaskIds, Self
<1>3. CASE t \in TaskIds /\ tasks[t].pc # "done" /\ \E p : Goto(t, p)
  <2>1. JobsKept(t)
    BY <1>3, GotoKeeps
  <2> QED  BY <1>1, <1>3, <2>1, KeptTasks DEF CurrentLives
<1> QED  BY <1>2, <1>3, RunTorMoves

\* A task joins that is no stop of the current instance.
LEMMA AddTasks ==
  ASSUME IInv, TaskInv, NEW j \in Job, tasks' = Append(tasks, j),
         svc'[j.inst].alive, j.kind = "stop" => j.inst # cur',
         \A i \in 1..Len(svc) : svc'[i].alive = svc[i].alive,
         cur' = cur \/ cur' \notin 1..Len(svc)
  PROVE  TaskInv'
<1>1. tasks \in Seq(Job) /\ \A u \in 1..Len(tasks) : tasks[u].inst \in 1..Len(svc)
  BY Shapes DEF IInv, TypeOK, TaskIds
<1>2. ASSUME NEW u \in 1..Len(tasks')
      PROVE  TaskOK(u, tasks', svc', cur')
  <2>1. CASE u = Len(tasks) + 1
    BY <2>1, <1>1, JobAdded DEF TaskOK
  <2>2. CASE u \in 1..Len(tasks)
    <3>1. tasks'[u] = tasks[u] /\ tasks[u].inst \in 1..Len(svc)
      BY <2>2, <1>1, JobAdded
    <3> QED  BY <2>2, <3>1, TaskInvAll DEF TaskOK
  <2> QED  BY <1>1, <2>1, <2>2, JobAdded
<1> QED  BY <1>2, TaskInvAll

\* Two tasks join.
LEMMA TwoAdded ==
  ASSUME NEW js \in Seq(Job), NEW a \in Job, NEW b \in Job
  PROVE  /\ Len(js \o <<a, b>>) = Len(js) + 2
         /\ (js \o <<a, b>>)[Len(js) + 1] = a /\ (js \o <<a, b>>)[Len(js) + 2] = b
         /\ \A u \in 1..Len(js) : (js \o <<a, b>>)[u] = js[u]
<1>1. js \o <<a, b>> = Append(Append(js, a), b)
  OBVIOUS
<1>2. Append(js, a) \in Seq(Job) /\ Len(Append(js, a)) = Len(js) + 1 /\ Len(js) \in Nat
  BY JobAdded
<1>3. \A u \in 1..(Len(js) + 1) : Append(Append(js, a), b)[u] = Append(js, a)[u]
  BY <1>2, JobAdded
<1>4. Append(Append(js, a), b)[Len(js) + 2] = b
      /\ Len(Append(Append(js, a), b)) = Len(js) + 2
  BY <1>2, JobAdded
<1>5. Append(js, a)[Len(js) + 1] = a /\ \A u \in 1..Len(js) : Append(js, a)[u] = js[u]
  BY JobAdded
<1> QED  BY <1>1, <1>2, <1>3, <1>4, <1>5

\* startService.
LEMMA StartServiceTasks ==
  ASSUME IInv, TaskInv, CurrentLives, NEW k \in Intents, StartService(k)
  PROVE  TaskInv' /\ CurrentLives'
<1>k. k \in Kinds /\ k # "stop" /\ {"queued", "config"} \subseteq Pcs /\ MaxTries \in Nat
      /\ "config" \in Kinds
  BY BoundAssumption DEF StartService, Kinds, Pcs, AllIntents
<1>0. svc \in Seq(Service) /\ tasks \in Seq(Job) /\ Len(svc) \in Nat /\ Len(tasks) \in Nat
      /\ \A u \in 1..Len(tasks) : tasks[u].inst \in 1..Len(svc)
  BY Shapes DEF IInv, TypeOK, TaskIds
<1>1. CASE cur # 0
  <2> DEFINE j == Task(cur, k, "queued", MaxTries)
  <2>1. j \in Job /\ j.inst = cur /\ j.kind = k /\ cur \in 1..Len(svc)
    BY <1>1, <1>k, Shapes DEF Task, Job, IInv, TypeOK
  <2>2. tasks' = Append(tasks, j) /\ UNCHANGED <<cur, svc>>
    BY <1>1 DEF StartService
  <2>3. svc[cur].alive
    BY <1>1 DEF CurrentLives
  <2> HIDE DEF j
  <2>4. TaskInv'
    BY <1>k, <2>1, <2>2, <2>3, AddTasks
  <2> QED  BY <2>2, <2>3, <2>4 DEF CurrentLives
<1>2. CASE cur = 0
  <2> DEFINE i == Len(svc) + 1
             a == Task(i, "config", "config", MaxTries)
             b == Task(i, k, "queued", MaxTries)
  <2>1. /\ svc' = Append(svc, NewService) /\ cur' = i
        /\ tasks' = tasks \o <<a, b>>
    BY <1>2 DEF StartService
  <2>2. /\ a \in Job /\ a.inst = i /\ a.kind = "config"
        /\ b \in Job /\ b.inst = i /\ b.kind = k
    BY <1>0, <1>k DEF Task, Job
  <2> HIDE DEF a, b
  <2>3. /\ svc'[i].alive /\ \A n \in 1..Len(svc) : svc'[n] = svc[n]
    <3>1. NewService.alive
      BY DEF NewService
    <3> QED  BY <1>0, <2>1, <3>1, FreshService
  <2>4. /\ Len(tasks') = Len(tasks) + 2 /\ tasks'[Len(tasks) + 1] = a
        /\ tasks'[Len(tasks) + 2] = b
        /\ \A u \in 1..Len(tasks) : tasks'[u] = tasks[u]
    BY <1>0, <2>1, <2>2, TwoAdded
  <2>5. ASSUME NEW u \in 1..Len(tasks')
        PROVE  TaskOK(u, tasks', svc', cur')
    <3>1. CASE u \in 1..Len(tasks)
      <4>1. tasks'[u] = tasks[u] /\ tasks[u].inst \in 1..Len(svc)
        BY <3>1, <2>4, <1>0
      <4>2. svc'[tasks[u].inst] = svc[tasks[u].inst] /\ tasks[u].inst # cur'
        BY <4>1, <2>1, <2>3, <1>0
      <4> QED  BY <3>1, <4>1, <4>2, TaskInvAll DEF TaskOK
    <3>2. CASE u = Len(tasks) + 1 \/ u = Len(tasks) + 2
      BY <3>2, <1>k, <2>2, <2>3, <2>4 DEF TaskOK
    <3> QED  BY <3>1, <3>2, <2>4, <1>0
  <2> QED  BY <2>1, <2>3, <2>5, TaskInvAll DEF CurrentLives
<1> QED  BY <1>1, <1>2

\* stopService: the stop thread belongs to an instance that is current no more.
LEMMA OnDestroyTasks ==
  ASSUME IInv, TaskInv, CurrentLives, OnDestroy
  PROVE  TaskInv' /\ CurrentLives'
<1> DEFINE s == [svc[cur] EXCEPT !.shell = FALSE]
           j == Task(cur, "stop", "begin", 0)
<1>1. /\ svc \in Seq(Service) /\ Len(svc) \in Nat /\ cur \in 1..Len(svc)
      /\ svc[cur] \in Service
  BY Shapes DEF IInv, TypeOK, OnDestroy
<1>2. s.alive = svc[cur].alive
  BY <1>1 DEF Service
<1>3. j \in Job /\ j.inst = cur
  BY <1>1 DEF Task, Job, Kinds, Pcs
<1>4. svc' = [svc EXCEPT ![cur] = s] /\ tasks' = Append(tasks, j) /\ cur' = 0
  BY DEF OnDestroy
<1> HIDE DEF s, j
<1>5. \A n \in 1..Len(svc) : svc'[n].alive = svc[n].alive
  BY <1>1, <1>2, <1>4
<1>6. svc'[j.inst].alive /\ j.inst # cur' /\ cur' \notin 1..Len(svc)
  BY <1>1, <1>3, <1>4, <1>5 DEF CurrentLives
<1>7. TaskInv'
  BY <1>3, <1>4, <1>5, <1>6, AddTasks
<1> QED  BY <1>4, <1>7 DEF CurrentLives

\* The process dies: no task is left running but the restarted instance's own.
LEMMA ProcessDiesTasks ==
  ASSUME IInv, TaskInv, CurrentLives, ProcessDies
  PROVE  TaskInv' /\ CurrentLives'
<1> DEFINE i    == Len(svc) + 1
           dead == [NewService EXCEPT !.alive = FALSE, !.shell = FALSE]
           gone == [t \in TaskIds |-> [tasks[t] EXCEPT !.pc = "done"]]
           lost == [n \in 1..Len(svc) |-> dead]
           j    == Task(i, "config", "config", MaxTries)
<1>1. Len(svc) \in Nat /\ Len(tasks) \in Nat /\ MaxTries \in Nat
  BY Shapes, BoundAssumption DEF IInv
<1>2. j \in Job /\ j.inst = i /\ j.kind = "config"
  BY <1>1 DEF Task, Job, Kinds, Pcs
<1>3. \A t \in TaskIds : [tasks[t] EXCEPT !.pc = "done"] \in Job
  BY Shapes DEF Job, Pcs, IInv
<1>4. gone \in Seq(Job) /\ Len(gone) = Len(tasks)
  BY <1>1, <1>3 DEF TaskIds
<1>5. \A t \in 1..Len(tasks) : /\ gone[t].pc = "done"
                               /\ gone[t].inst \in 1..Len(svc)
  BY Shapes DEF TaskIds, Job, IInv
<1>6. \/ tasks' = gone /\ svc' = lost /\ cur' = 0
      \/ tasks' = Append(gone, j) /\ svc' = Append(lost, NewService) /\ cur' = i
  BY DEF ProcessDies
<1>7. lost \in Seq(Service) /\ Len(lost) = Len(svc)
  BY <1>1, FreshService
<1> HIDE DEF gone, lost, j
<1>8. CASE tasks' = gone /\ svc' = lost /\ cur' = 0
  <2>1. \A u \in 1..Len(tasks') : TaskOK(u, tasks', svc', cur')
    BY <1>1, <1>4, <1>5, <1>8 DEF TaskOK
  <2> QED  BY <1>8, <2>1, TaskInvAll DEF CurrentLives
<1>9. CASE tasks' = Append(gone, j) /\ svc' = Append(lost, NewService) /\ cur' = i
  <2>1. Len(tasks') = Len(tasks) + 1 /\ tasks'[Len(tasks) + 1] = j
        /\ \A u \in 1..Len(tasks) : tasks'[u] = gone[u]
    BY <1>2, <1>4, <1>9, JobAdded
  <2>2. svc'[i] = NewService
    BY <1>1, <1>7, <1>9, FreshService
  <2>3. svc'[i].alive
    BY <2>2 DEF NewService
  <2>4. ASSUME NEW u \in 1..Len(tasks')
        PROVE  TaskOK(u, tasks', svc', cur')
    <3>1. CASE u \in 1..Len(tasks)
      <4>1. tasks'[u].pc = "done" /\ tasks'[u].inst \in 1..Len(svc)
        BY <3>1, <2>1, <1>5
      <4>2. tasks'[u].inst # cur'
        BY <4>1, <1>1, <1>9
      <4> QED  BY <4>1, <4>2 DEF TaskOK
    <3>2. CASE u = Len(tasks) + 1
      BY <3>2, <1>2, <2>1, <2>3 DEF TaskOK
    <3> QED  BY <3>1, <3>2, <2>1, <1>1
  <2> QED  BY <1>9, <2>3, <2>4, TaskInvAll DEF CurrentLives
<1> QED  BY <1>6, <1>8, <1>9

\* The parse threads announce ON for a living instance that is subscribed.
LEMMA EventRecord ==
  ASSUME IInv, NEW i, CircuitBuilt(i) \/ AnnounceOn(i)
  PROVE  /\ i \in 1..Len(svc) /\ svc[i].alive /\ svc[i].events # 0
         /\ UNCHANGED <<cur, tasks>>
         /\ \E n \in Service : /\ svc' = [svc EXCEPT ![i] = n] /\ n.alive = svc[i].alive
                               /\ n.events = svc[i].events
                               /\ n.status = svc[i].status \/ n.status = "ON"
<1>1. i \in 1..Len(svc) /\ svc[i] \in Service /\ svc[i].alive
  BY Shapes DEF CircuitBuilt, AnnounceOn, IInv
<1>2. svc[i].events # 0 /\ UNCHANGED <<cur, tasks>>
  BY <1>1 DEF CircuitBuilt, AnnounceOn, Linked, IInv, SubscribedInv
<1>3. CASE CircuitBuilt(i)
  <2> DEFINE n == [svc[i] EXCEPT !.built = TRUE]
  <2>1. svc' = [svc EXCEPT ![i] = n]
    BY <1>3 DEF CircuitBuilt
  <2>2. n \in Service /\ n.events = svc[i].events /\ n.alive = svc[i].alive
        /\ n.status = svc[i].status
    BY <1>1 DEF Service
  <2> QED  BY <1>1, <1>2, <2>1, <2>2
<1>4. CASE AnnounceOn(i)
  <2> DEFINE n == [svc[i] EXCEPT !.built = FALSE, !.status = "ON"]
  <2>1. svc' = [svc EXCEPT ![i] = n]
    BY <1>4 DEF AnnounceOn
  <2>2. n \in Service /\ n.events = svc[i].events /\ n.alive = svc[i].alive
        /\ n.status = "ON"
    BY <1>1 DEF Service, Statuses
  <2> QED  BY <1>1, <1>2, <2>1, <2>2
<1> QED  BY <1>3, <1>4

\* Every step preserves the two.
LEMMA TaskInvStep ==
  ASSUME IInv, TaskInv, CurrentLives, [Next]_vars
  PROVE  TaskInv' /\ CurrentLives'
<1>1. CASE UNCHANGED <<cur, svc, tasks>>
  BY <1>1 DEF TaskInv, CurrentLives, TaskIds, Self
<1>2. CASE \E k \in Intents : StartService(k)
  BY <1>2, StartServiceTasks
<1>3. CASE OnDestroy \/ ProcessKilled
  BY <1>3, OnDestroyTasks, ProcessDiesTasks DEF ProcessKilled
<1>7. CASE \E t \in launches : RunTor(t)
  BY <1>7, RunTorTasks
<1>8. CASE \E t \in TaskIds : RereadConfigCrashes(t)
  BY <1>8, ProcessDiesTasks DEF RereadConfigCrashes
<1>4. CASE ConnectivityChange
  <2>1. UNCHANGED <<cur, svc>>
    BY <1>4 DEF ConnectivityChange
  <2>2. CASE UNCHANGED tasks
    BY <1>1, <2>1, <2>2
  <2>3. CASE \E i \in 1..Len(svc), a \in {0, 1} :
               svc[i].alive /\ tasks' = Append(tasks, Task(i, "net", "call", a))
    <3>1. PICK i \in 1..Len(svc), a \in {0, 1} :
            svc[i].alive /\ tasks' = Append(tasks, Task(i, "net", "call", a))
      BY <2>3
    <3>2. /\ Task(i, "net", "call", a) \in Job /\ Task(i, "net", "call", a).inst = i
          /\ Task(i, "net", "call", a).kind = "net"
      BY Shapes DEF Task, Job, Kinds, Pcs, IInv
    <3>3. TaskInv'
      BY <2>1, <3>1, <3>2, AddTasks
    <3> QED  BY <2>1, <3>3 DEF CurrentLives
  <2> QED  BY <1>4, <2>2, <2>3 DEF ConnectivityChange
<1>5. CASE \E t \in TaskIds : Thread(t)
  <2>1. PICK t \in TaskIds : Thread(t)
    BY <1>5
  <2>2. TaskInv'
    BY <2>1, ThreadTasks
  <2>3. PICK n : Becomes(t, n)
    BY <2>1, ThreadRecord
  <2>4. tasks[t].inst \in 1..Len(svc) /\ svc \in Seq(Service) /\ cur \in 0..Len(svc)
    BY Shapes DEF IInv, TypeOK
  <2>5. UNCHANGED cur
    BY <2>1, ThreadJobs
  <2>6. \A j \in 1..Len(svc) : svc'[j].alive = svc[j].alive
    BY <2>3, <2>4 DEF Becomes, Self
  <2> QED  BY <2>2, <2>4, <2>5, <2>6 DEF CurrentLives
<1>6. CASE Events
  <2>1. PICK i : CircuitBuilt(i) \/ AnnounceOn(i)
    BY <1>6 DEF Events
  <2>2. i \in 1..Len(svc) /\ svc \in Seq(Service) /\ cur \in 0..Len(svc)
        /\ UNCHANGED <<cur, tasks>>
    BY <2>1, EventRecord DEF IInv, TypeOK
  <2>3. PICK n \in Service : svc' = [svc EXCEPT ![i] = n] /\ n.alive = svc[i].alive
    BY <2>1, EventRecord
  <2>4. \A j \in 1..Len(svc) : svc'[j].alive = svc[j].alive
    BY <2>2, <2>3
  <2>5. \A u \in TaskIds : tasks[u].inst \in 1..Len(svc)
    BY Shapes DEF IInv
  <2> QED  BY <2>2, <2>4, <2>5 DEF TaskInv, CurrentLives, TaskIds, Self
<1> QED  BY <1>1, <1>2, <1>3, <1>4, <1>5, <1>6, <1>7, <1>8
            DEF Next, Runs, Android, TorExits, TorWritesCookie, vars
-----------------------------------------------------------------------------
(* The steps of TorService, as steps of ServiceStatus.                     *)

Asked(i) == \E t \in 1..Len(tasks) : tasks[t].inst = i /\ tasks[t].kind = "start"

Seen(s, a) == [status |-> s.status, asked |-> a, subscribed |-> s.events # 0,
               alive |-> s.alive]

\* Followed, instance by instance.
LEMMA FollowedIs ==
  /\ Followed = [i \in 1..Len(svc) |-> Seen(svc[i], Asked(i))]
  /\ Followed' = [i \in 1..Len(svc') |-> Seen(svc'[i], Asked(i)')]
  BY DEF Followed, Seen, Asked, TaskIds

\* It is a sequence as long as svc.
LEMMA FollowedSeq ==
  ASSUME IInv
  PROVE  Followed \in Seq(Status!Instance) /\ Len(Followed) = Len(svc)
<1>1. Len(svc) \in Nat /\ \A i \in 1..Len(svc) : svc[i] \in Service
  BY Shapes DEF IInv
<1>2. \A i \in 1..Len(svc) : Seen(svc[i], Asked(i)) \in Status!Instance
  <2>1. \A i : Asked(i) \in BOOLEAN
    BY DEF Asked
  <2>2. \A s \in Service, a \in BOOLEAN : Seen(s, a) \in Status!Instance
    BY DEF Seen, Service, Statuses, Status!Instance, Status!Statuses
  <2> QED  BY <1>1, <2>1, <2>2
<1> QED  BY <1>1, <1>2, FollowedIs

\* A change of one instance.
LEMMA FollowedChange ==
  ASSUME IInv, NEW i \in 1..Len(svc), Len(svc') = Len(svc),
         \A j \in 1..Len(svc) : j # i => svc'[j] = svc[j],
         \A j \in 1..Len(svc) : j # i => Asked(j)' = Asked(j)
  PROVE  Followed' = [Followed EXCEPT ![i] = Seen(svc'[i], Asked(i)')]
  BY FollowedIs

\* The tasks of a thread's step start nothing.
LEMMA ThreadAsks ==
  ASSUME IInv, IInv', NEW t \in TaskIds, JobsKept(t), NEW i
  PROVE  Asked(i)' = Asked(i)
<1>1. Len(tasks) \in Nat /\ Len(tasks') \in Nat /\ Len(tasks') >= Len(tasks)
  BY DEF IInv, TypeOK, JobsKept
<1>2. ASSUME Asked(i) PROVE Asked(i)'
  <2>1. PICK u \in 1..Len(tasks) : tasks[u].inst = i /\ tasks[u].kind = "start"
    BY <1>2 DEF Asked
  <2>2. u \in 1..Len(tasks') /\ tasks'[u].inst = i /\ tasks'[u].kind = "start"
    BY <1>1, <2>1 DEF JobsKept
  <2> QED  BY <2>2 DEF Asked
<1>3. ASSUME Asked(i)' PROVE Asked(i)
  <2>1. PICK u \in 1..Len(tasks') : tasks'[u].inst = i /\ tasks'[u].kind = "start"
    BY <1>3 DEF Asked
  <2>2. ~ (u > Len(tasks))
    BY <2>1 DEF JobsKept
  <2>3. u \in 1..Len(tasks) /\ tasks[u].inst = i /\ tasks[u].kind = "start"
    BY <1>1, <2>1, <2>2 DEF JobsKept
  <2> QED  BY <2>3 DEF Asked
<1> QED  BY <1>2, <1>3 DEF Asked

\* Updates of records and sequences.
SetStatus(r, x)     == [r EXCEPT !.status = x]
SetSubscribed(r, x) == [r EXCEPT !.subscribed = x]

LEMMA SeenStatus ==
  ASSUME NEW s \in Service, NEW n \in Service, NEW a,
         n.alive = s.alive, n.events = s.events
  PROVE  Seen(n, a) = SetStatus(Seen(s, a), n.status)
  BY DEF Seen, SetStatus

LEMMA SeenSubscribed ==
  ASSUME NEW s \in Service, NEW n \in Service, NEW a,
         n.alive = s.alive, n.status = s.status, n.events # 0
  PROVE  Seen(n, a) = SetSubscribed(Seen(s, a), TRUE)
<1>1. PICK x : x = (n.events # 0)
  OBVIOUS
<1>2. Seen(n, a) = SetSubscribed(Seen(s, a), x)
  BY <1>1 DEF Seen, SetSubscribed
<1>3. x = TRUE
  BY <1>1
<1> QED  BY <1>2, <1>3

LEMMA SeenSame ==
  ASSUME NEW s \in Service, NEW n \in Service, NEW a,
         n.alive = s.alive, n.status = s.status, (n.events # 0) <=> (s.events # 0)
  PROVE  Seen(n, a) = Seen(s, a)
  BY DEF Seen

LEMMA SameUpdate ==
  ASSUME NEW S, NEW f \in Seq(S), NEW i \in 1..Len(f)
  PROVE  [f EXCEPT ![i] = f[i]] = f
  OBVIOUS

\* One instance subscribes or announces, or nothing is seen.
LEMMA RecordRefines ==
  ASSUME IInv, NEW i \in 1..Len(svc), NEW n \in Service,
         svc' = [svc EXCEPT ![i] = n], svc[i].alive, n.alive = svc[i].alive,
         UNCHANGED cur, \A j : Asked(j)' = Asked(j),
         \/ n.status = svc[i].status /\ (n.events = svc[i].events \/ n.events # 0)
         \/ /\ n.events = svc[i].events
            /\ \/ n.status = "STARTING" /\ Asked(i)
               \/ n.status = "ON" /\ svc[i].events # 0
               \/ n.status \in {"STOPPING", "OFF"} /\ i # cur
  PROVE  Status!ServiceNext \/ UNCHANGED <<cur, Followed>>
<1> DEFINE a == Asked(i)
           F == Followed[i]
<1>1. svc \in Seq(Service) /\ svc[i] \in Service
  BY Shapes DEF IInv, TypeOK
<1>2. /\ Len(svc') = Len(svc) /\ svc'[i] = n
      /\ \A j \in 1..Len(svc) : j # i => svc'[j] = svc[j]
  BY <1>1
<1>3. Followed' = [Followed EXCEPT ![i] = Seen(n, a)]
  BY <1>2, FollowedChange
<1>4. F = Seen(svc[i], a)
  BY FollowedIs
<1>5. /\ F.alive /\ F.status = svc[i].status /\ F.asked = a
      /\ F.subscribed = (svc[i].events # 0)
  BY <1>4 DEF Seen
<1>6. i \in 1..Len(Followed) /\ Followed \in Seq(Status!Instance)
  BY FollowedSeq
<1> HIDE DEF a
<1>7. CASE n.status = svc[i].status /\ ((n.events # 0) <=> (svc[i].events # 0))
  <2>1. Seen(n, a) = F
    BY <1>1, <1>4, <1>7, SeenSame
  <2>2. Followed' = Followed
    BY <1>3, <1>6, <2>1, SameUpdate
  <2> QED  BY <2>2
<1>8. CASE n.status = svc[i].status /\ n.events # 0
  <2>3. Seen(n, a) = SetSubscribed(Seen(svc[i], a), TRUE)
    BY <1>1, <1>8, SeenSubscribed
  <2>1. Seen(n, a) = [F EXCEPT !.subscribed = TRUE]
    BY <1>4, <2>3 DEF SetSubscribed
  <2>2. Status!Subscribe(i)
    BY <1>3, <1>5, <2>1 DEF Status!Subscribe
  <2> QED  BY <1>6, <2>2 DEF Status!ServiceNext
<1>9. CASE /\ n.events = svc[i].events
           /\ \/ n.status = "STARTING" /\ Asked(i)
              \/ n.status = "ON" /\ svc[i].events # 0
              \/ n.status \in {"STOPPING", "OFF"} /\ i # cur
  <2>1. PICK x : x = n.status
    OBVIOUS
  <2>6. Seen(n, a) = SetStatus(Seen(svc[i], a), n.status)
    BY <1>1, <1>9, SeenStatus
  <2>2. Seen(n, a) = [F EXCEPT !.status = x]
    BY <1>4, <2>1, <2>6 DEF SetStatus
  <2>3. Status!MayAnnounce(i, x)
    BY <1>5, <1>9, <2>1 DEF Status!MayAnnounce, a
  <2>4. Status!Announce(i, x)
    BY <1>3, <2>2, <2>3 DEF Status!Announce
  <2>5. x \in Status!Statuses
    BY <1>9, <2>1 DEF Status!Statuses
  <2> QED  BY <1>6, <2>4, <2>5 DEF Status!ServiceNext
<1> QED  BY <1>7, <1>8, <1>9

\* A step of a thread.
LEMMA ThreadRefines ==
  ASSUME IInv, IInv', TaskInv, NEW t \in TaskIds, Thread(t)
  PROVE  Status!ServiceNext \/ UNCHANGED <<cur, Followed>>
<1>1. JobsKept(t) /\ tasks[t].pc # "done" /\ UNCHANGED cur
  BY ThreadJobs
<1>2. PICK n : Becomes(t, n) /\ Speaks(t, n)
  BY ThreadRecord
<1>3. tasks[t].inst \in 1..Len(svc) /\ svc[tasks[t].inst].alive
      /\ (tasks[t].kind = "stop" => tasks[t].inst # cur)
  BY <1>1, Shapes DEF IInv, TaskInv, Self
<1>4. \A j : Asked(j)' = Asked(j)
  BY <1>1, ThreadAsks
<1>5. tasks[t].kind = "start" => Asked(tasks[t].inst)
  BY DEF Asked, TaskIds
<1> QED  BY <1>1, <1>2, <1>3, <1>4, <1>5, RecordRefines DEF Becomes, Speaks, Self

\* The shell tells a thread: nothing is seen.
LEMMA RunTorRefines ==
  ASSUME IInv, IInv', NEW t, RunTor(t)
  PROVE  UNCHANGED <<cur, Followed>>
<1>1. UNCHANGED <<cur, svc>>
  BY RunTorMoves
<1>2. \A j : Asked(j)' = Asked(j)
  <2>1. CASE UNCHANGED tasks
    BY <2>1 DEF Asked
  <2>2. CASE t \in TaskIds /\ \E p : Goto(t, p)
    BY <2>2, GotoKeeps, ThreadAsks
  <2> QED  BY <2>1, <2>2, RunTorMoves
<1> QED  BY <1>1, <1>2, FollowedIs

\* A parse thread.
LEMMA EventsRefine ==
  ASSUME IInv, Events
  PROVE  Status!ServiceNext \/ UNCHANGED <<cur, Followed>>
<1>1. PICK i : CircuitBuilt(i) \/ AnnounceOn(i)
  BY DEF Events
<1>2. i \in 1..Len(svc) /\ svc[i].alive /\ svc[i].events # 0 /\ UNCHANGED <<cur, tasks>>
  BY <1>1, EventRecord
<1>3. PICK n \in Service : /\ svc' = [svc EXCEPT ![i] = n] /\ n.alive = svc[i].alive
                           /\ n.events = svc[i].events
                           /\ n.status = svc[i].status \/ n.status = "ON"
  BY <1>1, EventRecord
<1>4. \A j : Asked(j)' = Asked(j)
  BY <1>2 DEF Asked
<1> QED  BY <1>2, <1>3, <1>4, RecordRefines

-----------------------------------------------------------------------------
(* The steps of Android.                                                   *)

AskedIn(js, i) == \E t \in 1..Len(js) : js[t].inst = i /\ js[t].kind = "start"

LEMMA AskedIs ==
  ASSUME NEW i
  PROVE  (Asked(i) <=> AskedIn(tasks, i)) /\ (Asked(i)' <=> AskedIn(tasks', i))
  BY DEF Asked, AskedIn

\* A task that joins asks if it is a start.
LEMMA AskedAppend ==
  ASSUME NEW js \in Seq(Job), NEW j \in Job, NEW i
  PROVE  AskedIn(Append(js, j), i) <=> (AskedIn(js, i) \/ (j.inst = i /\ j.kind = "start"))
<1>1. /\ Len(Append(js, j)) = Len(js) + 1 /\ Len(js) \in Nat
      /\ Append(js, j)[Len(js) + 1] = j
      /\ \A u \in 1..Len(js) : Append(js, j)[u] = js[u]
  BY JobAdded
<1>2. 1..(Len(js) + 1) = (1..Len(js)) \cup {Len(js) + 1}
  BY <1>1
<1> QED  BY <1>1, <1>2 DEF AskedIn

\* A new instance is seen as a fresh one.
LEMMA SeenFresh ==
  ASSUME NEW a
  PROVE  Seen(NewService, a) = Status!Fresh(a)
<1>1. PICK x : x = (NewService.events # 0)
  OBVIOUS
<1>2. x = FALSE
  BY <1>1 DEF NewService
<1>3. /\ NewService.status = "OFF" /\ NewService.alive = TRUE
  BY DEF NewService
<1> QED  BY <1>1, <1>2, <1>3 DEF Seen, Status!Fresh

\* A sequence with one element more.
LEMMA OneMore ==
  ASSUME NEW S, NEW f \in Seq(S), NEW s \in S, NEW g,
         g = [i \in 1..(Len(f) + 1) |-> g[i]],
         \A i \in 1..Len(f) : g[i] = f[i], g[Len(f) + 1] = s
  PROVE  g = Append(f, s)
<1>1. /\ Len(f) \in Nat /\ Append(f, s) \in Seq(S) /\ Len(Append(f, s)) = Len(f) + 1
      /\ Append(f, s)[Len(f) + 1] = s
      /\ \A i \in 1..Len(f) : Append(f, s)[i] = f[i]
  OBVIOUS
<1>2. PICK h \in Seq(S) : h = Append(f, s)
  BY <1>1
<1>5. h = [i \in 1..(Len(f) + 1) |-> h[i]]
  <2>1. Len(h) = Len(f) + 1
    BY <1>1, <1>2
  <2> QED  BY <2>1
<1>3. \A i \in 1..(Len(f) + 1) : i \in 1..Len(f) \/ i = Len(f) + 1
  BY <1>1
<1>4. \A i \in 1..(Len(f) + 1) : g[i] = h[i]
  BY <1>1, <1>2, <1>3
<1> QED  BY <1>2, <1>4, <1>5

\* An instance joins.
LEMMA FollowedAppend ==
  ASSUME IInv, NEW a, NEW s \in Status!Instance, s = Seen(NewService, a),
         a = AskedIn(tasks', Len(svc) + 1),
         Len(svc') = Len(svc) + 1, svc'[Len(svc) + 1] = NewService,
         \A j \in 1..Len(svc) : svc'[j] = svc[j] /\ Asked(j)' = Asked(j)
  PROVE  Followed' = Append(Followed, s)
<1>1. Len(svc) \in Nat /\ Followed \in Seq(Status!Instance) /\ Len(Followed) = Len(svc)
  BY Shapes, FollowedSeq DEF IInv
<1>2. Followed' = [i \in 1..(Len(svc) + 1) |-> Seen(svc'[i], Asked(i)')]
  BY FollowedIs
<1>3. \A i \in 1..Len(svc) : Followed'[i] = Followed[i]
  <2>1. \A i \in 1..Len(svc) : Followed'[i] = Seen(svc'[i], Asked(i)')
    BY <1>1, <1>2
  <2>2. \A i \in 1..Len(svc) : Followed[i] = Seen(svc[i], Asked(i))
    BY FollowedIs
  <2> QED  BY <2>1, <2>2
<1>4. Followed'[Len(svc) + 1] = s
  <2>1. PICK n : n = Len(svc) + 1
    OBVIOUS
  <2>2. Followed'[n] = Seen(svc'[n], Asked(n)')
    BY <1>1, <1>2, <2>1
  <2>3. Asked(n)' = a
    BY <2>1, AskedIs DEF AskedIn, Asked
  <2> QED  BY <2>1, <2>2, <2>3
<1>5. PICK g : g = Followed'
  OBVIOUS
<1>6. g = [i \in 1..(Len(svc) + 1) |-> g[i]]
  BY <1>2, <1>5
<1>7. g = [i \in 1..(Len(Followed) + 1) |-> g[i]]
  BY <1>1, <1>6
<1>8. (\A i \in 1..Len(Followed) : g[i] = Followed[i]) /\ g[Len(Followed) + 1] = s
  BY <1>1, <1>3, <1>4, <1>5
<1>9. g = Append(Followed, s)
  BY <1>1, <1>7, <1>8, OneMore
<1> QED  BY <1>5, <1>9

\* An intent that comes is seen as asked.
LEMMA SeenAsked ==
  ASSUME NEW s \in Service, NEW a, NEW x
  PROVE  Seen(s, x) = [Seen(s, a) EXCEPT !.asked = x]
  BY DEF Seen

\* startService.
LEMMA StartServiceRefines ==
  ASSUME IInv, NEW k \in Intents, StartService(k)
  PROVE  Status!ServiceNext \/ UNCHANGED <<cur, Followed>>
<1>k. k \in Kinds /\ {"queued", "config"} \subseteq Pcs /\ MaxTries \in Nat
      /\ "config" \in Kinds /\ "config" # "start"
  BY BoundAssumption DEF StartService, Kinds, Pcs, AllIntents
<1>0. svc \in Seq(Service) /\ tasks \in Seq(Job) /\ Len(svc) \in Nat /\ cur \in 0..Len(svc)
      /\ \A u \in 1..Len(tasks) : tasks[u].inst \in 1..Len(svc)
  BY Shapes DEF IInv, TypeOK, TaskIds
<1>x. PICK x \in BOOLEAN : x = (k = "start")
  OBVIOUS
<1>1. CASE cur # 0
  <2>1. PICK j : j = Task(cur, k, "queued", MaxTries)
    OBVIOUS
  <2>2. j \in Job /\ j.inst = cur /\ j.kind = k
    BY <1>k, <1>0, <2>1 DEF Task, Job
  <2>3. tasks' = Append(tasks, j) /\ UNCHANGED <<cur, svc>>
    BY <1>1, <2>1 DEF StartService
  <2>4. \A i : Asked(i)' <=> (Asked(i) \/ (cur = i /\ x))
    BY <1>0, <1>x, <2>2, <2>3, AskedIs, AskedAppend
  <2>5. \A i : i # cur => Asked(i)' = Asked(i)
    BY <2>4 DEF Asked
  <2>6. PICK a \in BOOLEAN, y \in BOOLEAN : a = Asked(cur) /\ y = (a \/ x)
    BY DEF Asked
  <2>7. AskedIn(tasks', cur) = y
    BY <2>4, <2>6, AskedIs DEF AskedIn, Asked
  <2>9. Followed' = [Followed EXCEPT ![cur] = Seen(svc[cur], y)]
    <3>1. PICK c \in 1..Len(svc) : c = cur
      BY <1>0, <1>1
    <3>2. Followed' = [Followed EXCEPT ![c] = Seen(svc'[c], Asked(c)')]
      BY <2>3, <2>5, <3>1, FollowedChange
    <3>3. Asked(c)' = y
      BY <2>7, <3>1 DEF Asked, AskedIn
    <3>4. svc'[c] = svc[c]
      BY <2>3
    <3> QED  BY <3>1, <3>2, <3>3, <3>4
  <2>10. Followed[cur] = Seen(svc[cur], a) /\ Followed[cur].asked = a
    BY <1>0, <1>1, <2>6, FollowedIs DEF Seen
  <2>11. Seen(svc[cur], y) = [Seen(svc[cur], a) EXCEPT !.asked = y]
    BY <1>0, <1>1, SeenAsked
  <2>12. Followed' = [Followed EXCEPT ![cur] = [Followed[cur] EXCEPT !.asked = y]]
    BY <2>9, <2>10, <2>11
  <2>13. Status!Deliver(x)
    BY <1>1, <2>3, <2>6, <2>10, <2>12 DEF Status!Deliver
  <2> QED  BY <2>13 DEF Status!ServiceNext
<1>2. CASE cur = 0
  <2> DEFINE i == Len(svc) + 1
  <2>1. PICK j, l : j = Task(i, "config", "config", MaxTries)
                    /\ l = Task(i, k, "queued", MaxTries)
    OBVIOUS
  <2>2. j \in Job /\ l \in Job /\ j.inst = i /\ l.inst = i
        /\ j.kind = "config" /\ l.kind = k
    BY <1>k, <1>0, <2>1 DEF Task, Job
  <2>3. tasks' = tasks \o <<j, l>> /\ cur' = i /\ svc' = Append(svc, NewService)
    BY <1>2, <2>1 DEF StartService
  <2>4. tasks' = Append(Append(tasks, j), l) /\ Append(tasks, j) \in Seq(Job)
    BY <1>0, <2>2, <2>3
  <2>5. \A n : AskedIn(tasks', n) <=> (AskedIn(tasks, n) \/ (i = n /\ x))
    <3>1. \A n : AskedIn(Append(tasks, j), n) <=> AskedIn(tasks, n)
      BY <1>0, <1>k, <2>2, AskedAppend
    <3>2. \A n : AskedIn(tasks', n) <=>
                   (AskedIn(Append(tasks, j), n) \/ (l.inst = n /\ l.kind = "start"))
      BY <2>2, <2>4, AskedAppend
    <3> QED  BY <1>x, <2>2, <3>1, <3>2
  <2>6. ~ AskedIn(tasks, i)
    BY <1>0 DEF AskedIn
  <2>7. x = AskedIn(tasks', i)
    BY <2>5, <2>6 DEF AskedIn
  <2>8. \A n \in 1..Len(svc) : Asked(n)' = Asked(n)
    <3> SUFFICES ASSUME NEW n \in 1..Len(svc) PROVE Asked(n)' = Asked(n)
      OBVIOUS
    <3>1. n # i
      BY <1>0
    <3>2. Asked(n)' <=> Asked(n)
      BY <2>5, <3>1, AskedIs
    <3> QED  BY <3>2 DEF Asked
  <2>9. /\ Len(svc') = Len(svc) + 1 /\ svc'[i] = NewService
        /\ \A n \in 1..Len(svc) : svc'[n] = svc[n]
    BY <1>0, <2>3, FreshService
  <2>10. Status!Fresh(x) \in Status!Instance
    BY DEF Status!Fresh, Status!Instance, Status!Statuses
  <2>11. Followed' = Append(Followed, Status!Fresh(x))
    BY <2>7, <2>8, <2>9, <2>10, SeenFresh, FollowedAppend
  <2>12. Len(Followed) = Len(svc)
    BY FollowedSeq
  <2>13. Status!Create(x)
    BY <1>2, <2>3, <2>11, <2>12 DEF Status!Create
  <2> QED  BY <2>13 DEF Status!ServiceNext
<1> QED  BY <1>1, <1>2

\* onDestroy.
LEMMA OnDestroyRefines ==
  ASSUME IInv, OnDestroy
  PROVE  Status!ServiceNext
<1>0. svc \in Seq(Service) /\ tasks \in Seq(Job) /\ Len(svc) \in Nat /\ cur \in 1..Len(svc)
  BY Shapes DEF IInv, TypeOK, OnDestroy
<1>1. PICK j : j = Task(cur, "stop", "begin", 0)
  OBVIOUS
<1>2. j \in Job /\ j.kind = "stop"
  BY <1>0, <1>1 DEF Task, Job, Kinds, Pcs
<1>3. tasks' = Append(tasks, j) /\ cur' = 0 /\ cur # 0
      /\ svc' = [svc EXCEPT ![cur] = [svc[cur] EXCEPT !.shell = FALSE]]
  BY <1>1 DEF OnDestroy
<1>4. \A i : AskedIn(tasks', i) <=> AskedIn(tasks, i)
  BY <1>0, <1>2, <1>3, AskedAppend
<1>5. \A i : Asked(i)' = Asked(i)
  BY <1>4, AskedIs DEF Asked
<1>6. PICK n : n = [svc[cur] EXCEPT !.shell = FALSE]
  OBVIOUS
<1>11. svc' = [svc EXCEPT ![cur] = n]
  BY <1>3, <1>6
<1>7. /\ n.status = svc[cur].status /\ n.events = svc[cur].events
      /\ n.alive = svc[cur].alive
  BY <1>0, <1>6 DEF Service
<1>8. /\ Len(svc') = Len(svc) /\ svc'[cur] = n
      /\ \A i \in 1..Len(svc) : i # cur => svc'[i] = svc[i]
  BY <1>0, <1>11
<1>9. \A i \in 1..Len(svc) : Seen(svc'[i], Asked(i)') = Seen(svc[i], Asked(i))
  <2>1. ASSUME NEW i \in 1..Len(svc)
        PROVE  svc'[i].status = svc[i].status /\ svc'[i].events = svc[i].events
               /\ svc'[i].alive = svc[i].alive
    BY <1>7, <1>8
  <2> QED  BY <1>5, <2>1 DEF Seen
<1>10. Followed' = Followed
  BY <1>8, <1>9, FollowedIs
<1> QED  BY <1>3, <1>10 DEF Status!ServiceNext, Status!Destroy

Dead     == [NewService EXCEPT !.alive = FALSE, !.shell = FALSE]
Bury(r)  == [Status!Fresh(r.asked) EXCEPT !.alive = FALSE]

LEMMA AliveUpdate ==
  ASSUME NEW s, NEW a, NEW b, NEW c, NEW f, NEW r,
         r = [status |-> s, asked |-> a, subscribed |-> b, alive |-> c]
  PROVE  [r EXCEPT !.alive = f] = [status |-> s, asked |-> a, subscribed |-> b, alive |-> f]
  OBVIOUS

\* An instance whose process died.
LEMMA SeenDead ==
  ASSUME NEW s \in Service, NEW a
  PROVE  Seen(Dead, a) = Bury(Seen(s, a))
<1>1. PICK f : f = FALSE
  OBVIOUS
<1>2. Dead.status = "OFF" /\ Dead.alive = f /\ (Dead.events # 0) = f
  BY <1>1 DEF Dead, NewService
<1>3. Seen(Dead, a) = [status |-> "OFF", asked |-> a, subscribed |-> f, alive |-> f]
  BY <1>2 DEF Seen
<1>4. Seen(s, a).asked = a
  BY DEF Seen
<1>5. [Status!Fresh(a) EXCEPT !.alive = f]
        = [status |-> "OFF", asked |-> a, subscribed |-> f, alive |-> f]
  <2>1. PICK t : t = TRUE
    OBVIOUS
  <2>2. Status!Fresh(a) = [status |-> "OFF", asked |-> a, subscribed |-> f, alive |-> t]
    BY <1>1, <2>1 DEF Status!Fresh
  <2> QED  BY <2>2, AliveUpdate
<1> QED  BY <1>1, <1>3, <1>4, <1>5 DEF Bury

\* The process dies.
LEMMA ProcessDiesRefines ==
  ASSUME IInv, ProcessDies
  PROVE  Status!ServiceNext
<1> DEFINE gone == [t \in TaskIds |-> [tasks[t] EXCEPT !.pc = "done"]]
           lost == [n \in 1..Len(svc) |-> Dead]
           j    == Task(Len(svc) + 1, "config", "config", MaxTries)
           past == [n \in 1..Len(Followed) |-> Bury(Followed[n])]
<1>1. /\ Len(svc) \in Nat /\ Len(tasks) \in Nat /\ MaxTries \in Nat
      /\ \A n \in 1..Len(svc) : svc[n] \in Service
      /\ \A t \in 1..Len(tasks) : tasks[t] \in Job /\ tasks[t].inst \in 1..Len(svc)
  BY Shapes, BoundAssumption DEF IInv, TaskIds
<1>2. j \in Job /\ j.inst = Len(svc) + 1 /\ j.kind = "config"
  BY <1>1 DEF Task, Job, Kinds, Pcs
<1>3. \A t \in TaskIds : /\ [tasks[t] EXCEPT !.pc = "done"] \in Job
                         /\ [tasks[t] EXCEPT !.pc = "done"].inst = tasks[t].inst
                         /\ [tasks[t] EXCEPT !.pc = "done"].kind = tasks[t].kind
  BY <1>1 DEF Job, Pcs, TaskIds
<1>4. gone \in Seq(Job) /\ Len(gone) = Len(tasks)
  BY <1>1, <1>3 DEF TaskIds
<1>5. \A t \in 1..Len(tasks) : gone[t].inst = tasks[t].inst /\ gone[t].kind = tasks[t].kind
  BY <1>3 DEF TaskIds
<1>6. \/ tasks' = gone /\ svc' = lost /\ cur' = 0 /\ cur = 0
      \/ /\ tasks' = Append(gone, j) /\ svc' = Append(lost, NewService)
         /\ cur' = Len(svc) + 1 /\ cur # 0
  BY DEF ProcessDies, Dead
<1>7. lost \in Seq(Service) /\ Len(lost) = Len(svc) /\ \A n \in 1..Len(svc) : lost[n] = Dead
  BY <1>1, FreshService DEF Dead
<1> HIDE DEF gone, lost, j
<1>8. \A n : AskedIn(gone, n) <=> AskedIn(tasks, n)
  BY <1>4, <1>5 DEF AskedIn
<1>9. \A n : AskedIn(tasks', n) <=> AskedIn(tasks, n)
  <2>1. CASE tasks' = gone
    BY <1>8, <2>1
  <2>2. CASE tasks' = Append(gone, j)
    <3>1. \A n : AskedIn(tasks', n) <=> AskedIn(gone, n)
      BY <1>2, <1>4, <2>2, AskedAppend
    <3> QED  BY <1>8, <3>1
  <2> QED  BY <1>6, <2>1, <2>2
<1>10. \A n : Asked(n)' = Asked(n)
  BY <1>9, AskedIs DEF Asked
<1>11. \A n \in 1..Len(svc) : svc'[n] = Dead
  BY <1>1, <1>6, <1>7, FreshService
<1>12. Followed \in Seq(Status!Instance) /\ Len(Followed) = Len(svc)
  BY FollowedSeq
<1>13. \A n \in 1..Len(svc) : Followed[n] = Seen(svc[n], Asked(n))
  BY FollowedIs
<1>14. \A n \in 1..Len(svc) : Seen(svc'[n], Asked(n)') = Bury(Followed[n])
  BY <1>1, <1>10, <1>11, <1>13, SeenDead
<1>15. past \in Seq(Status!Instance) /\ Len(past) = Len(Followed)
  <2>1. \A r \in Status!Instance : Bury(r) \in Status!Instance
    BY DEF Bury, Status!Fresh, Status!Instance, Status!Statuses
  <2>2. \A n \in 1..Len(Followed) : Bury(Followed[n]) \in Status!Instance
    BY <1>12, <2>1
  <2> QED  BY <1>1, <1>12, <2>2
<1>16. past = [n \in 1..Len(Followed) |->
                 [Status!Fresh(Followed[n].asked) EXCEPT !.alive = FALSE]]
  BY DEF Bury
<1>17. CASE tasks' = gone /\ svc' = lost /\ cur' = 0 /\ cur = 0
  <2>1. Followed' = [n \in 1..Len(svc) |-> Seen(svc'[n], Asked(n)')]
    BY <1>7, <1>17, FollowedIs
  <2>2. Followed' = past
    BY <1>12, <1>14, <2>1
  <2>3. Status!Killed
    BY <1>16, <1>17, <2>2 DEF Status!Killed
  <2> QED  BY <2>3 DEF Status!ServiceNext
<1>18. CASE /\ tasks' = Append(gone, j) /\ svc' = Append(lost, NewService)
            /\ cur' = Len(svc) + 1 /\ cur # 0
  <2>1. Len(svc') = Len(svc) + 1 /\ svc'[Len(svc) + 1] = NewService
    BY <1>7, <1>18, FreshService
  <2>2. PICK m : m = Len(svc) + 1
    OBVIOUS
  <2>3. ~ AskedIn(tasks', m)
    <3>1. ~ AskedIn(tasks, m)
      BY <1>1, <2>2 DEF AskedIn
    <3> QED  BY <1>9, <3>1
  <2>4. Asked(m)' = FALSE
    BY <2>3 DEF AskedIn, Asked
  <2>5. PICK g : g = Followed'
    OBVIOUS
  <2>6. g = [n \in 1..m |-> Seen(svc'[n], Asked(n)')]
    BY <2>1, <2>2, <2>5, FollowedIs
  <2>7. g = [n \in 1..(Len(past) + 1) |-> g[n]]
    BY <1>12, <1>15, <2>2, <2>6
  <2>8. \A n \in 1..Len(past) : g[n] = past[n]
    <3>1. \A n \in 1..Len(past) : g[n] = Seen(svc'[n], Asked(n)')
      BY <1>1, <1>12, <1>15, <2>2, <2>6
    <3>2. \A n \in 1..Len(past) : past[n] = Bury(Followed[n])
      BY <1>15
    <3> QED  BY <3>1, <3>2, <1>12, <1>14, <1>15
  <2>9. g[Len(past) + 1] = Status!Fresh(FALSE)
    <3>1. g[m] = Seen(svc'[m], Asked(m)')
      BY <1>1, <2>2, <2>6
    <3>2. Seen(svc'[m], Asked(m)') = Seen(NewService, FALSE)
      BY <2>1, <2>2, <2>4
    <3> QED  BY <1>12, <1>15, <2>2, <3>1, <3>2, SeenFresh
  <2>10. Status!Fresh(FALSE) \in Status!Instance
    BY DEF Status!Fresh, Status!Instance, Status!Statuses
  <2> HIDE DEF past
  <2>11. g = Append(past, Status!Fresh(FALSE))
    BY ZenonT(40), <1>15, <2>7, <2>8, <2>9, <2>10, OneMore
  <2>12. Status!Killed
    BY <1>12, <1>16, <1>18, <2>5, <2>11 DEF Status!Killed
  <2> QED  BY <2>12 DEF Status!ServiceNext
<1> QED  BY <1>6, <1>17, <1>18

-----------------------------------------------------------------------------
(* The refinement.                                                         *)

LEMMA StepRefines ==
  ASSUME IInv, IInv', TaskInv, CurrentLives, [Next]_vars
  PROVE  [Status!ServiceNext]_(Status!service)
<1>1. CASE UNCHANGED <<cur, svc, tasks>>
  <2>1. Followed' = Followed
    BY <1>1 DEF Followed, TaskIds
  <2> QED  BY <1>1, <2>1 DEF Status!service
<1>2. CASE \E k \in Intents : StartService(k)
  BY <1>2, StartServiceRefines DEF Status!service
<1>3. CASE OnDestroy \/ ProcessKilled
  BY <1>3, OnDestroyRefines, ProcessDiesRefines DEF ProcessKilled
<1>7. CASE \E t \in launches : RunTor(t)
  BY <1>7, RunTorRefines DEF Status!service
<1>8. CASE \E t \in TaskIds : RereadConfigCrashes(t)
  BY <1>8, ProcessDiesRefines DEF RereadConfigCrashes
<1>4. CASE ConnectivityChange
  <2>1. UNCHANGED <<cur, svc>>
    BY <1>4 DEF ConnectivityChange
  <2>2. CASE UNCHANGED tasks
    BY <1>1, <2>1, <2>2
  <2>3. CASE \E i \in 1..Len(svc), a \in {0, 1} :
               tasks' = Append(tasks, Task(i, "net", "call", a))
    <3>1. PICK i \in 1..Len(svc), a \in {0, 1} :
            tasks' = Append(tasks, Task(i, "net", "call", a))
      BY <2>3
    <3>2. Task(i, "net", "call", a) \in Job /\ Task(i, "net", "call", a).kind = "net"
      BY Shapes DEF Task, Job, Kinds, Pcs, IInv
    <3>3. \A n : AskedIn(tasks', n) <=> AskedIn(tasks, n)
      BY <3>1, <3>2, AskedAppend DEF IInv, TypeOK
    <3>4. \A n : Asked(n)' = Asked(n)
      BY <3>3, AskedIs DEF Asked
    <3>5. Followed' = Followed
      BY <2>1, <3>4, FollowedIs
    <3> QED  BY <2>1, <3>5 DEF Status!service
  <2> QED  BY <1>4, <2>2, <2>3 DEF ConnectivityChange
<1>5. CASE \E t \in TaskIds : Thread(t)
  BY <1>5, ThreadRefines DEF Status!service
<1>6. CASE Events
  BY <1>6, EventsRefine DEF Status!service
<1> QED  BY <1>1, <1>2, <1>3, <1>4, <1>5, <1>6, <1>7, <1>8
            DEF Next, Runs, Android, TorExits, TorWritesCookie, vars

\* Threads that nothing stops belong to living instances, and stop threads to
\* destroyed ones.
THEOREM TasksFollow == Spec => [](TaskInv /\ CurrentLives)
<1>1. Init => TaskInv /\ CurrentLives
  <2> SUFFICES ASSUME Init PROVE TaskInv /\ CurrentLives
    OBVIOUS
  <2>1. Len(tasks) = 0 /\ cur = 0
    BY DEF Init
  <2> QED  BY <2>1 DEF TaskInv, CurrentLives, TaskIds
<1>2. IInv /\ TaskInv /\ CurrentLives /\ [Next]_vars => (TaskInv /\ CurrentLives)'
  BY TaskInvStep
<1> QED  BY <1>1, <1>2, Invariance, PTL DEF Spec

\* TorService keeps what ServiceStatus promises, whatever the app asks and whatever
\* goes wrong: OrbotManager, checked against ServiceStatus, is checked against it.
THEOREM Refinement == Spec => KeepsStatusPromise
<1>1. Init => Status!ServiceInit
  <2> SUFFICES ASSUME Init PROVE cur = 0 /\ Followed = <<>>
    BY DEF Status!ServiceInit
  <2>1. cur = 0 /\ Len(svc) = 0
    BY DEF Init
  <2> QED  BY <2>1 DEF Followed
<1>2. /\ IInv /\ IInv' /\ TaskInv /\ CurrentLives /\ [Next]_vars
      => [Status!ServiceNext]_(Status!service)
  BY StepRefines
<1> QED  BY <1>1, <1>2, Invariance, TasksFollow, PTL
            DEF Spec, KeepsStatusPromise, Status!ServiceSpec

=============================================================================
