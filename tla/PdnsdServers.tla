---------------------------- MODULE PdnsdServers ----------------------------
(***************************************************************************)
(* The server data of pdnsd (servers.c): the sections of the configuration *)
(* with their addresses, whether each is up and when it was last tested.   *)
(* The server status thread tests them and discovers root servers, query   *)
(* threads read them, test them (interval=onquery) and ask for tests, the  *)
(* control thread marks servers, changes addresses and reloads the whole   *)
(* configuration.                                                          *)
(*                                                                         *)
(* servers_lock is held for one step or several (lock); a thread that      *)
(* lets go of it and still uses the data is counted in server_data_users,  *)
(* and the data are freed only when that is zero.  A time stamp is "zero"  *)
(* (test now), "fresh" or, once the section's interval is over, "due".     *)
(***************************************************************************)
EXTENDS Naturals, SequencesExt

CONSTANTS Configs,      \* what the configuration file may say: sequences of sections
          Queriers,     \* threads that answer queries
          Status, Control, Free,
          RootNames,    \* the name servers of the root domain
          Addresses,    \* the addresses commands and discovery may set
          Lists,        \* the lists of addresses a command may give
          Watched,      \* the <<section, address>> that TestsDone speaks of
          PINGREPEAT,   \* tries of a query test
          MaxCommands   \* bound: commands of pdnsd-ctl

Intervals == {"periodic", "onquery", "ontimeout", "never"}  \* > 0, -1, -2, 0
Uptests   == {"none", "ping", "pingone", "query", "if"}      \* pingone: ping_ip is set
Pings     == {"ping", "pingone", "query"}                    \* tests a signal interrupts

Labels == UNION {{c[i].label : i \in DOMAIN c} : c \in Configs}

\* The sections, with addresses of the set atups.
servparm_t(atups) ==
  [label : Labels, interval : Intervals, uptest : Uptests, scheme : BOOLEAN,
   rootserver : 0..2, preset : BOOLEAN, atup : Seq(atups)]

ASSUME ServersAssumption ==
  /\ PINGREPEAT \in Nat \ {0} /\ MaxCommands \in Nat
  /\ Status # Control /\ Status # Free /\ Control # Free
  /\ Queriers \cap {Status, Control, Free} = {}
  /\ IsFiniteSet(Queriers) /\ IsFiniteSet(Addresses)
  /\ \A c \in Configs : c \in Seq(servparm_t(Addresses))
  /\ \A ar \in Lists : ar \in Seq(Addresses)

VARIABLES servers,             \* the sections
          server_data_users, server_status_ping,
          signal_interrupt, retest_flag,
          schm,                \* what was read of scheme_file: "unread", "match", "other"
          servstat_thrid,      \* "main" or "status"
          lock,                \* the owner of servers_lock, or Free
          asleep,              \* the threads blocked in server_data_cond
          thr,                 \* the status thread and the query threads
          st,                  \* locals of servstat_thread
          ctl,                 \* the control thread
          main                 \* main(): "create", "assign", "running"

counts == <<server_data_users, server_status_ping>>
flags  == <<signal_interrupt, retest_flag>>
vars   == <<servers, counts, flags, schm, servstat_thrid, lock, asleep, thr, st, ctl, main>>

Threads == Queriers \cup {Status}

needs_testing(sp) ==
  sp.interval \in {"periodic", "ontimeout"} /\ (sp.uptest # "none" \/ sp.scheme)
needs_intermittent_testing(sp) ==
  sp.interval = "periodic" /\ (sp.uptest # "none" \/ sp.scheme)

Atup == [a : Addresses, is_up : BOOLEAN, i_ts : {"zero", "fresh", "due"}]

\* A negative interval means: no test at startup.
FirstStamp(sp) == IF sp.interval \in {"onquery", "ontimeout"} THEN "fresh" ELSE "zero"
NewAtup(sp, a) == [a |-> a, is_up |-> sp.preset, i_ts |-> FirstStamp(sp)]
Parsed(c) == [i \in 1..Len(c) |->
               [c[i] EXCEPT !.atup = [j \in 1..Len(c[i].atup) |-> NewAtup(c[i], c[i].atup[j])]]]

Idle == [pc |-> "idle", i |-> 0, j |-> 0, n |-> 0, iter |-> 0,
         stale |-> FALSE, sig |-> FALSE, a |-> "none"]

Init ==
  /\ servers \in {Parsed(c) : c \in Configs}
  /\ server_data_users = 0 /\ server_status_ping = 0
  /\ signal_interrupt = FALSE /\ retest_flag = FALSE
  /\ schm = "unread" /\ servstat_thrid = "main" /\ lock = Free /\ asleep = {}
  /\ thr = [t \in Threads |-> [Idle EXCEPT !.pc = IF t = Status THEN "off" ELSE "idle"]]
  /\ st = [keep |-> FALSE, mode |-> "none", n |-> 0, adrs |-> {},
           freed |-> FALSE, lost |-> FALSE, ping |-> FALSE,
           wait |-> "none", signalled |-> FALSE]
  /\ ctl = [pc |-> "idle", op |-> "none", i |-> 0, up |-> "retest", new |-> <<>>,
            left |-> MaxCommands]
  /\ main = "create"

-----------------------------------------------------------------------------
(* Counting users, freeing data, waking threads.                           *)

Using == {"testing", "resolving", "reading"}   \* counted in server_data_users

Go(t, pc) == thr' = [thr EXCEPT ![t].pc = pc]

Enter(t) == server_data_users' = server_data_users + 1

\* if (--server_data_users==0) pthread_cond_broadcast(&server_data_cond).
Leave(t) ==
  /\ server_data_users' = server_data_users - 1
  /\ asleep' = IF server_data_users = 1 THEN {} ELSE asleep

\* What the threads at pcs point into is freed.
Freed(pcs) == [t \in Threads |-> [thr[t] EXCEPT !.stale = @ \/ thr[t].pc \in pcs]]

\* Mutant: the status thread is only signalled.
OnlySignal(th) ==
  /\ thr' = th
  /\ st' = [st EXCEPT !.signalled = @ \/ thr[Status].pc = "sleeping"]
  /\ UNCHANGED servstat_thrid

\* Wakes the status thread, or starts it if it has ended: th is thr so far.
StartOrSignal(th) ==
  IF servstat_thrid = "main"
  THEN /\ thr' = [th EXCEPT ![Status].pc = "new"]
       /\ servstat_thrid' = "status" /\ UNCHANGED st
  ELSE /\ thr' = th
       /\ st' = [st EXCEPT !.signalled = @ \/ thr[Status].pc = "sleeping"]
       /\ UNCHANGED servstat_thrid

\* if(signal_test): the end of every request for tests but sched_server_test.
Request(sig, th) ==
  IF sig THEN StartOrSignal(th) /\ retest_flag' = (retest_flag \/ servstat_thrid # "main")
         ELSE thr' = th /\ UNCHANGED <<st, servstat_thrid, retest_flag>>

Update(i, J, new(_)) ==
  LET atup == servers[i].atup
  IN  servers' = [servers EXCEPT ![i].atup =
                    [j \in 1..Len(atup) |-> IF j \in J THEN new(atup[j]) ELSE atup[j]]]
Stamped(at) == [at EXCEPT !.i_ts = "fresh"]

-----------------------------------------------------------------------------
(* Tests, by the status thread or, for interval=onquery, a query thread.    *)
(* retest(i, j) runs from j to n of section i and ends at pc "tested".      *)

Call(th, t, i, j, n) ==
  [th EXCEPT ![t] = [@ EXCEPT !.pc = "retest", !.i = i, !.j = j, !.n = n]]

\* scheme_ok, where f is what scheme_file reads as.
SchemeFile == {"fails", "match", "other"}
scheme_ok(sp, f) == sp.scheme => "match" = (IF schm = "unread" THEN f ELSE schm)
ReadScheme(sp, f) ==
  schm' = IF sp.scheme /\ schm = "unread" /\ f # "fails" THEN f ELSE schm

retest(t) ==
  LET sp == servers[thr[t].i]
      J  == thr[t].j .. thr[t].n
  IN  /\ thr[t].pc = "retest" /\ lock = t
      /\ IF Len(sp.atup) = 0 THEN Go(t, "tested") /\ UNCHANGED <<servers, schm>>
         ELSE \E f \in SchemeFile :
           /\ ReadScheme(sp, f)
           /\ IF ~ scheme_ok(sp, f)
              THEN /\ Update(thr[t].i, J, LAMBDA at : [at EXCEPT !.is_up = FALSE, !.i_ts = "fresh"])
                   /\ Go(t, "tested")
              ELSE IF sp.uptest = "none"
              THEN Update(thr[t].i, J, Stamped) /\ Go(t, "tested")
              ELSE Go(t, "uptest") /\ UNCHANGED servers
      /\ UNCHANGED <<counts, flags, servstat_thrid, lock, asleep, st, ctl, main>>

\* The mutex is let go of while the test runs.
uptest(t) ==
  LET ping == /\ t = Status /\ servstat_thrid = "status"
              /\ servers[thr[t].i].uptest \in Pings
  IN  /\ thr[t].pc = "uptest" /\ lock = t
      /\ Enter(t)
      /\ server_status_ping' = server_status_ping + (IF ping THEN 1 ELSE 0)
      /\ st' = [st EXCEPT !.ping = IF t = Status THEN ping ELSE @]
      /\ lock' = Free
      /\ thr' = [thr EXCEPT ![t].pc = "testing", ![t].iter = 0]
      /\ UNCHANGED <<servers, flags, schm, servstat_thrid, asleep, ctl, main>>

Interrupted(t) == signal_interrupt /\ t = Status

\* query_uptest: no answer in time, and tries are left.
TryAgain(t) ==
  /\ thr[t].pc = "testing" /\ servers[thr[t].i].uptest = "query"
  /\ ~ Interrupted(t) /\ thr[t].iter + 1 < PINGREPEAT
  /\ thr' = [thr EXCEPT ![t].iter = @ + 1]
  /\ UNCHANGED <<servers, counts, flags, schm, servstat_thrid, lock, asleep, st, ctl, main>>

\* The end of the test, and what retest makes of its result.
UptestEnds(t) ==
  LET i    == thr[t].i
      sp   == servers[i]
      each == sp.uptest \in {"ping", "query"}
      J    == IF each THEN {thr[t].j} ELSE thr[t].j .. thr[t].n
      kept == signal_interrupt /\ sp.uptest \in Pings
  IN  /\ thr[t].pc = "testing" /\ lock = Free
      /\ lock' = t
      /\ Leave(t)
      /\ server_status_ping' = server_status_ping - (IF t = Status /\ st.ping THEN 1 ELSE 0)
      /\ \E up \in BOOLEAN :
           Update(i, J, LAMBDA at : [at EXCEPT !.is_up = up,
                                                !.i_ts = IF kept THEN @ ELSE "fresh"])
      /\ IF each /\ ~ signal_interrupt /\ thr[t].j < thr[t].n
         THEN thr' = [thr EXCEPT ![t].pc = "uptest", ![t].j = @ + 1]
         ELSE Go(t, "tested")
      /\ UNCHANGED <<flags, schm, servstat_thrid, st, ctl, main>>

-----------------------------------------------------------------------------
(* The server status thread.                                               *)

OnlyStatus == UNCHANGED <<servstat_thrid, ctl, main>>

Created ==
  /\ thr[Status].pc = "new" /\ lock = Free
  /\ lock' = Status /\ signal_interrupt' = FALSE
  /\ Go(Status, "pass")
  /\ UNCHANGED <<servers, counts, retest_flag, schm, asleep, st>> /\ OnlyStatus

Pass ==
  /\ thr[Status].pc = "pass"
  /\ retest_flag' = FALSE /\ schm' = "unread"
  /\ st' = [st EXCEPT !.keep = FALSE, !.n = Len(servers), !.mode = "none", !.wait = "none",
                      !.signalled = FALSE, !.ping = FALSE]
  /\ thr' = [thr EXCEPT ![Status].pc = "section", ![Status].i = 1]
  /\ UNCHANGED <<servers, counts, signal_interrupt, lock, asleep>> /\ OnlyStatus

Sp == servers[thr[Status].i]
Count == Len(Sp.atup)
NextSection == thr' = [thr EXCEPT ![Status] = [Idle EXCEPT !.pc = "section", !.i = thr[Status].i + 1]]
KeepIf(b) == st' = [st EXCEPT !.keep = @ \/ b]
OneUp(b) == IF b THEN Go(Status, "discover") /\ UNCHANGED st
            ELSE NextSection /\ KeepIf(needs_intermittent_testing(Sp))

\* A section: one with undiscovered root servers (rootserver==2) looks first
\* whether a server is up that could be asked for them.
Section ==
  /\ thr[Status].pc = "section" /\ thr[Status].i <= st.n
  /\ IF Sp.rootserver # 2
     THEN Go(Status, "tests") /\ UNCHANGED <<servers, schm, st>>
     ELSE \E f \in SchemeFile :
            /\ ReadScheme(Sp, f)
            /\ IF ~ scheme_ok(Sp, f)
               THEN Update(thr[Status].i, 1..Count, Stamped) /\ OneUp(FALSE)
               ELSE IF Sp.uptest \notin {"ping", "pingone", "query"}
               THEN /\ thr' = Call(thr, Status, thr[Status].i, 1, Count)
                    /\ st' = [st EXCEPT !.mode = "root"] /\ UNCHANGED servers
               ELSE IF Sp.interval = "periodic" THEN OneUp(Count > 0) /\ UNCHANGED servers
               ELSE /\ OneUp(\E j \in 1..Count : Sp.atup[j].is_up \/ Sp.atup[j].i_ts = "zero")
                    /\ Update(thr[Status].i, 1..Count, Stamped)
  /\ UNCHANGED <<counts, flags, lock, asleep>> /\ OnlyStatus

\* The tests of a section: all at once if none was ever tested.
Tests ==
  LET all == \A j \in 1..Count : Sp.atup[j].i_ts = "zero"
  IN  /\ thr[Status].pc = "tests"
      /\ st' = [st EXCEPT !.keep = @ \/ needs_testing(Sp), !.mode = IF all THEN "all" ELSE "each"]
      /\ IF ~ all THEN thr' = [thr EXCEPT ![Status].pc = "each", ![Status].j = 1]
         ELSE IF signal_interrupt THEN NextSection
         ELSE thr' = Call(thr, Status, thr[Status].i, 1, Count)
      /\ UNCHANGED <<servers, counts, flags, schm, lock, asleep>> /\ OnlyStatus

\* Mutant: only tests that were asked for are done.
OnlyAsked(sp, at) == at.i_ts = "zero"

IsDue(sp, at) == at.i_ts = "zero" \/ (needs_intermittent_testing(sp) /\ at.i_ts = "due")

Individual ==
  /\ thr[Status].pc = "each"
  /\ LET j == thr[Status].j
     IN  IF signal_interrupt \/ j > Count THEN NextSection
         ELSE IF IsDue(Sp, Sp.atup[j]) THEN thr' = Call(thr, Status, thr[Status].i, j, j)
         ELSE thr' = [thr EXCEPT ![Status].j = @ + 1]
  /\ UNCHANGED <<servers, counts, flags, schm, lock, asleep, st>> /\ OnlyStatus

\* retest has returned to servstat_thread.
Tested ==
  /\ thr[Status].pc = "tested"
  /\ \/ st.mode = "root" /\ OneUp(\E j \in 1..Count : Sp.atup[j].is_up)
     \/ st.mode = "all"  /\ NextSection /\ UNCHANGED st
     \/ /\ st.mode = "each" /\ UNCHANGED st
        /\ thr' = [thr EXCEPT ![Status].pc = "each", ![Status].j = thr[Status].n + 1]
  /\ UNCHANGED <<servers, counts, flags, schm, lock, asleep>> /\ OnlyStatus

-----------------------------------------------------------------------------
(* Discovery of the root servers.                                          *)

\* dns_rootserver_resolv: the addresses of the names that resolved, unless
\* more names failed than addresses were found.
Discovered(rs) ==
  LET res   == {rs[x] : x \in RootNames} \ {"none"}
      nfail == Cardinality({x \in RootNames : rs[x] = "none"})
  IN  IF nfail > Cardinality(res) THEN {} ELSE res

resolv_rootserver_addrs ==
  /\ thr[Status].pc = "discover"
  /\ Enter(Status) /\ lock' = Free
  /\ Go(Status, "resolving")
  /\ UNCHANGED <<servers, server_status_ping, flags, schm, asleep, st>> /\ OnlyStatus

ResolveEnds ==
  /\ thr[Status].pc = "resolving" /\ lock = Free
  /\ lock' = Status /\ Leave(Status)
  /\ \E rs \in [RootNames -> Addresses \cup {"none"}] :
       IF Discovered(rs) # {}
       THEN /\ st' = [st EXCEPT !.adrs = Discovered(rs), !.freed = FALSE]
            /\ Go(Status, "exclusive")
       ELSE NextSection /\ KeepIf(Count > 0)
  /\ UNCHANGED <<servers, server_status_ping, flags, schm>> /\ OnlyStatus

\* while (server_data_users>0) pthread_cond_timedwait(...): the thread waits
\* without being counted as a user itself.
AwaitRoots ==
  /\ thr[Status].pc = "exclusive" /\ server_data_users > 0
  /\ asleep' = asleep \cup {Status} /\ lock' = Free
  /\ Go(Status, "waiting")
  /\ UNCHANGED <<servers, counts, flags, schm, st>> /\ OnlyStatus

RootsWoken ==
  /\ thr[Status].pc = "waiting" /\ Status \notin asleep /\ lock = Free
  /\ lock' = Status /\ Go(Status, "exclusive")
  /\ UNCHANGED <<servers, counts, flags, schm, asleep, st>> /\ OnlyStatus

\* ETIMEDOUT: the addresses are freed and "continue" stays in the inner loop.
\* Freed a second time, they may take the process with them.
RootsTimeout ==
  /\ thr[Status].pc = "waiting" /\ lock = Free
  /\ lock' = Status /\ asleep' = asleep \ {Status}
  /\ st' = [st EXCEPT !.keep = TRUE, !.freed = TRUE]
  /\ \/ Go(Status, "exclusive")
     \/ st.freed /\ Go(Status, "crashed")
  /\ UNCHANGED <<servers, counts, flags, schm>> /\ OnlyStatus

\* The addresses of a section are replaced; the old array is freed.
\* adrs may have been freed above, and hold anything.
SetRoots ==
  LET i     == thr[Status].i
      Found == {ar \in [1..Cardinality(st.adrs) -> Addresses] : st.freed \/ Range(ar) = st.adrs}
  IN  /\ thr[Status].pc = "exclusive" /\ server_data_users = 0 /\ ~ thr[Status].stale
      /\ \E ar \in Found :
           servers' = [servers EXCEPT ![i].atup = [j \in 1..Len(ar) |-> NewAtup(Sp, ar[j])],
                                      ![i].rootserver = 1]
      /\ thr' = [Freed(Using) EXCEPT ![Status].pc = "tests"]
      /\ st' = [st EXCEPT !.adrs = {}, !.freed = FALSE]
      /\ UNCHANGED <<counts, flags, schm, lock, asleep>> /\ OnlyStatus

\* No memory for the new array.
NoRoots ==
  /\ thr[Status].pc = "exclusive" /\ server_data_users = 0 /\ ~ thr[Status].stale
  /\ NextSection /\ st' = [st EXCEPT !.keep = TRUE, !.adrs = {}, !.freed = FALSE]
  /\ UNCHANGED <<servers, counts, flags, schm, lock, asleep>> /\ OnlyStatus

\* The section itself was freed by a reload during the wait: its memory is
\* written all the same, and the sections of the pass that are no longer there are read.
RootsLost ==
  /\ thr[Status].pc = "exclusive" /\ server_data_users = 0 /\ thr[Status].stale
  /\ \/ NextSection /\ st.n <= Len(servers)
     \/ Go(Status, "crashed")
  /\ st' = [st EXCEPT !.lost = TRUE, !.adrs = {}, !.freed = FALSE]
  /\ UNCHANGED <<servers, counts, flags, schm, lock, asleep>> /\ OnlyStatus

-----------------------------------------------------------------------------
(* The end of a pass over the sections.                                    *)

\* The addresses, as <<section, index>>.
Ats == UNION {{i} \X (1..Len(servers[i].atup)) : i \in 1..Len(servers)}
At(p) == servers[p[1]].atup[p[2]]

\* How long to sleep: half a second if a test is asked for.
Minwait == IF \E p \in Ats : At(p).i_ts = "zero" THEN "short" ELSE "interval"

PassEnds ==
  /\ thr[Status].pc = "section" /\ thr[Status].i > st.n
  /\ IF ~ signal_interrupt /\ retest_flag
     THEN Go(Status, "pass") /\ UNCHANGED <<signal_interrupt, servstat_thrid, lock, st>>
     ELSE /\ signal_interrupt' = FALSE /\ lock' = Free
          /\ IF st.keep
             THEN /\ Go(Status, "sleeping") /\ UNCHANGED servstat_thrid
                  /\ st' = [st EXCEPT !.signalled = FALSE, !.wait = Minwait]
             ELSE Go(Status, "off") /\ servstat_thrid' = "main" /\ UNCHANGED st
  /\ UNCHANGED <<servers, counts, retest_flag, schm, asleep, ctl, main>>

\* server_test_cond was signalled, or the time is over: half a second, the
\* shortest interval, or an hour.
Wake ==
  /\ thr[Status].pc = "sleeping" /\ lock = Free
  /\ lock' = Status /\ Go(Status, "pass")
  /\ UNCHANGED <<servers, counts, flags, schm, asleep, st>> /\ OnlyStatus

-----------------------------------------------------------------------------
(* Query threads.                                                          *)

test_onquery(q) ==
  /\ thr[q].pc = "idle" /\ main = "running"
  /\ \E i \in 1..Len(servers) : servers[i].interval = "onquery"   \* global.onquery
  /\ lock = Free /\ lock' = q
  /\ schm' = "unread"
  /\ thr' = [thr EXCEPT ![q].pc = "onquery", ![q].i = 1, ![q].sig = FALSE]
  /\ UNCHANGED <<servers, counts, flags, servstat_thrid, asleep, st, ctl, main>>

\* One section; root-server discovery is left to the status thread.
OnQuery(q) ==
  LET i  == thr[q].i
      sp == servers[i]
  IN  /\ thr[q].pc = "onquery" /\ i <= Len(servers)
      /\ IF sp.interval = "onquery" /\ sp.rootserver <= 1
         THEN thr' = Call(thr, q, i, 1, Len(sp.atup)) /\ UNCHANGED servers
         ELSE IF sp.interval = "onquery"
         THEN /\ Update(i, 1..Len(sp.atup), LAMBDA at : [at EXCEPT !.i_ts = "zero"])
              /\ thr' = [thr EXCEPT ![q].i = @ + 1, ![q].sig = TRUE]
         ELSE thr' = [thr EXCEPT ![q].i = @ + 1] /\ UNCHANGED servers
      /\ UNCHANGED <<counts, flags, schm, servstat_thrid, lock, asleep, st, ctl, main>>

OnQueryTested(q) ==
  /\ thr[q].pc = "tested"
  /\ thr' = [thr EXCEPT ![q].pc = "onquery", ![q].i = @ + 1]
  /\ UNCHANGED <<servers, counts, flags, schm, servstat_thrid, lock, asleep, st, ctl, main>>

OnQueryEnds(q) ==
  /\ thr[q].pc = "onquery" /\ thr[q].i > Len(servers)
  /\ Request(thr[q].sig, [thr EXCEPT ![q] = [Idle EXCEPT !.pc = "ready"]])
  /\ lock' = Free
  /\ UNCHANGED <<servers, counts, signal_interrupt, schm, asleep, ctl, main>>

\* p_dns_resolve, dump_cache and others read the sections.
lock_server_data(q) ==
  /\ thr[q].pc \in {"ready", "idle"} /\ main = "running"
  /\ lock = Free /\ Enter(q) /\ Go(q, "reading")
  /\ UNCHANGED <<servers, server_status_ping, flags, schm, servstat_thrid, lock, asleep, st, ctl, main>>

Queried == {p \in Ats : servers[p[1]].rootserver <= 1 /\ At(p).is_up /\ needs_testing(servers[p[1]])}

\* The servers are copied; the query that follows may want one of them tested.
unlock_server_data(q) ==
  /\ thr[q].pc = "reading" /\ lock = Free
  /\ Leave(q)
  /\ \/ thr' = [thr EXCEPT ![q] = Idle]
     \/ \E p \in Queried : thr' = [thr EXCEPT ![q] = [Idle EXCEPT !.pc = "asking", !.a = At(p).a]]
  /\ UNCHANGED <<servers, server_status_ping, flags, schm, servstat_thrid, lock, st, ctl, main>>

\* What up does to an address: a mark, or a retest.
Marked(at, up) ==
  [at EXCEPT !.is_up = IF up = "retest" THEN @ ELSE up = "up",
             !.i_ts = IF up = "retest" THEN "zero" ELSE "fresh"]

MarkAll(P, up) ==
  [i \in 1..Len(servers) |->
    [servers[i] EXCEPT !.atup = [j \in 1..Len(servers[i].atup) |->
       IF <<i, j>> \in P THEN Marked(servers[i].atup[j], up) ELSE servers[i].atup[j]]]]

Asks(P, up) == up = "retest" /\ \E p \in P : At(p).i_ts # "zero"

sched_server_test(q) ==
  \E up \in {"up", "down", "retest"} :
    LET P == {p \in Ats : At(p).a = thr[q].a}
    IN  /\ thr[q].pc = "asking" /\ lock = Free
        /\ servers' = MarkAll(P, up)
        /\ st' = [st EXCEPT !.signalled = @ \/ (Asks(P, up) /\ thr[Status].pc = "sleeping")]
        /\ thr' = [thr EXCEPT ![q] = Idle]
        /\ UNCHANGED <<counts, flags, schm, servstat_thrid, lock, asleep, ctl, main>>

-----------------------------------------------------------------------------
(* The thread of the control socket (status_thread): commands of           *)
(* pdnsd-ctl, one at a time.  A command that names no section, or is not   *)
(* understood, is answered with an error and changes nothing.              *)

Command == /\ ctl.pc = "idle" /\ ctl.left > 0 /\ main = "running" /\ lock = Free

Ups == {"up", "down", "retest"}

mark_servers(I, up) ==
  LET P   == {p \in Ats : p[1] \in I}
      sig == \/ Asks(P, up)
             \/ up = "up" /\ \E p \in P : servers[p[1]].rootserver = 2
  IN  /\ Command
      /\ servers' = MarkAll(P, up)
      /\ Request(sig, thr)
      /\ ctl' = [ctl EXCEPT !.left = @ - 1]
      /\ UNCHANGED <<counts, signal_interrupt, schm, lock, asleep, main>>

\* Exclusive access begins: the status thread is interrupted in a test that
\* may take long (pthread_kill), so that it does not hold up the command.
Exclusive(c) ==
  /\ ctl' = [c EXCEPT !.pc = "exclusive", !.left = @ - 1]
  /\ lock' = Control
  /\ signal_interrupt' = (signal_interrupt \/ (server_status_ping > 0 /\ servstat_thrid # "main"))

change_servers(i, ar, up) ==
  LET sp   == servers[i]
      same == /\ sp.rootserver <= 1
              /\ [j \in 1..Len(sp.atup) |-> sp.atup[j].a] = ar
      P    == {p \in Ats : p[1] = i}
  IN  /\ Command
      /\ IF same
         THEN /\ servers' = MarkAll(P, up)
              /\ Request(Asks(P, up), thr)
              /\ ctl' = [ctl EXCEPT !.left = @ - 1]
              /\ UNCHANGED <<signal_interrupt, lock>>
         ELSE /\ Exclusive([ctl EXCEPT !.op = "change", !.i = i, !.new = ar, !.up = up])
              /\ UNCHANGED <<servers, retest_flag, thr, st, servstat_thrid>>
      /\ UNCHANGED <<counts, schm, asleep, main>>

\* The sections a command may name: one by its index, all, or those with a label.
Named(label) == {i \in 1..Len(servers) : servers[i].label = label}
Targets ==
  {{i} : i \in 1..Len(servers)} \cup {1..Len(servers)}
    \cup {Named(servers[i].label) : i \in 1..Len(servers)}

\* CTL_SERVER.  Addresses can be changed of a single section.
CTL_SERVER ==
  \E I \in Targets, up \in Ups :
    \/ mark_servers(I, up)
    \/ \E i \in I, ar \in Lists : I = {i} /\ change_servers(i, ar, up)

\* reload_config_file, once the new file has been read and accepted.
reload_config_file(c) ==
  /\ Command
  /\ Exclusive([ctl EXCEPT !.op = "reload", !.new = c])
  /\ UNCHANGED <<servers, counts, retest_flag, schm, servstat_thrid, asleep, thr, st, main>>

CTL_CONFIG == \E c \in Configs : reload_config_file(c)

Await ==
  /\ ctl.pc = "exclusive" /\ server_data_users > 0
  /\ ctl' = [ctl EXCEPT !.pc = "waiting"]
  /\ asleep' = asleep \cup {Control} /\ lock' = Free
  /\ UNCHANGED <<servers, counts, flags, schm, servstat_thrid, thr, st, main>>

Woken ==
  /\ ctl.pc = "waiting" /\ Control \notin asleep /\ lock = Free
  /\ ctl' = [ctl EXCEPT !.pc = "exclusive"] /\ lock' = Control
  /\ UNCHANGED <<servers, counts, flags, schm, servstat_thrid, asleep, thr, st, main>>

Done == ctl' = [ctl EXCEPT !.pc = "idle", !.op = "none", !.i = 0, !.new = <<>>, !.up = "retest"]

\* 60 seconds are over: the command fails and nothing is changed.
TimedOut ==
  /\ ctl.pc = "waiting" /\ lock = Free
  /\ Done /\ asleep' = asleep \ {Control}
  /\ UNCHANGED <<servers, counts, flags, schm, servstat_thrid, lock, thr, st, main>>

\* Mutant: the users are not awaited.
AccessAtOnce == ctl.pc = "exclusive"

\* The loop ends: nobody uses the data.
Access == ctl.pc = "exclusive" /\ server_data_users = 0

\* Stop trying to discover root servers.
NoDiscovery(r) == IF r > 1 THEN 1 ELSE r

\* A section's addresses are replaced, and discovery is over for it.
Change ==
  LET sp  == servers[ctl.i]
      new == [j \in 1..Len(ctl.new) |->
               Marked([a |-> ctl.new[j], is_up |-> sp.preset, i_ts |-> "zero"], ctl.up)]
  IN  /\ Access /\ ctl.op = "change"
      /\ servers' = [servers EXCEPT ![ctl.i].atup = new,
                                    ![ctl.i].rootserver = NoDiscovery(@)]
      /\ Request(ctl.up = "retest" /\ ctl.new # <<>>, Freed(Using))
      /\ lock' = Free /\ Done
      /\ UNCHANGED <<counts, signal_interrupt, schm, asleep, main>>

\* No memory for the new addresses.
ChangeFails ==
  /\ Access /\ ctl.op = "change"
  /\ lock' = Free /\ Done
  /\ UNCHANGED <<servers, counts, flags, schm, servstat_thrid, asleep, thr, st, main>>

\* free_server_data(servers); servers=servers_new; exclusive_unlock_server_data(1).
Reload ==
  /\ Access /\ ctl.op = "reload"
  /\ servers' = Parsed(ctl.new)
  /\ StartOrSignal(Freed(Using \cup {"waiting", "exclusive"}))
  /\ lock' = Free /\ Done
  /\ UNCHANGED <<counts, flags, schm, asleep, main>>

-----------------------------------------------------------------------------
(* main() starts the status thread without the lock, and stores its id     *)
(* after pthread_create has returned.                                      *)

MainCreates ==
  /\ main = "create" /\ main' = "assign"
  /\ Go(Status, "new")
  /\ UNCHANGED <<servers, counts, flags, schm, servstat_thrid, lock, asleep, st, ctl>>

MainAssigns ==
  /\ main = "assign" /\ main' = "running"
  /\ servstat_thrid' = "status"
  /\ UNCHANGED <<servers, counts, flags, schm, lock, asleep, thr, st, ctl>>

\* The interval of a section is over for one of its addresses.
Elapse(p) ==
  /\ p \in Ats /\ At(p).i_ts = "fresh" /\ servers[p[1]].interval = "periodic"
  /\ Update(p[1], {p[2]}, LAMBDA at : [at EXCEPT !.i_ts = "due"])
  /\ UNCHANGED <<counts, flags, schm, servstat_thrid, lock, asleep, thr, st, ctl, main>>

Crashed == thr[Status].pc = "crashed"

StatusStep ==
  \/ Created \/ Pass \/ Section \/ Tests \/ Individual \/ Tested
  \/ resolv_rootserver_addrs \/ ResolveEnds \/ AwaitRoots \/ RootsWoken \/ RootsTimeout
  \/ SetRoots \/ NoRoots \/ RootsLost \/ PassEnds \/ Wake
  \/ retest(Status) \/ uptest(Status) \/ TryAgain(Status) \/ UptestEnds(Status)

QueryStep(q) ==
  \/ test_onquery(q) \/ OnQuery(q) \/ OnQueryTested(q) \/ OnQueryEnds(q)
  \/ lock_server_data(q) \/ unlock_server_data(q) \/ sched_server_test(q)
  \/ retest(q) \/ uptest(q) \/ TryAgain(q) \/ UptestEnds(q)

ControlStep ==
  \/ CTL_SERVER \/ CTL_CONFIG
  \/ Await \/ Woken \/ TimedOut \/ Change \/ ChangeFails \/ Reload

Next ==
  /\ ~ Crashed
  /\ \/ StatusStep
     \/ \E q \in Queriers : QueryStep(q)
     \/ ControlStep
     \/ MainCreates \/ MainAssigns
     \/ \E p \in Ats : Elapse(p)

Spec == Init /\ [][Next]_vars

-----------------------------------------------------------------------------
(* Properties.                                                             *)

\* Type correctness: the sections, the counters and where each thread is.
TypeOK ==
  /\ servers \in Seq(servparm_t(Atup))
  /\ server_data_users \in 0..Cardinality(Threads) /\ server_status_ping \in 0..1
  /\ signal_interrupt \in BOOLEAN /\ retest_flag \in BOOLEAN
  /\ schm \in {"unread", "match", "other"} /\ servstat_thrid \in {"main", "status"}
  /\ lock \in Threads \cup {Control, Free} /\ asleep \subseteq {Status, Control}

\* server_data_users counts the threads that use the data without the lock,
\* and server_status_ping tells whether the status thread can be interrupted.
UsersCounted ==
  /\ server_data_users = Cardinality({t \in Threads : thr[t].pc \in Using})
  /\ server_status_ping = 1 => thr[Status].pc = "testing"

\* No command and no discovery frees what a thread is testing or reading.
NothingFreedInUse == \A t \in Threads : thr[t].pc \in Using => ~ thr[t].stale

\* A thread sleeps on server_data_cond only while somebody uses the data: the
\* last user's broadcast is never missed.
NoLostBroadcast == asleep # {} => server_data_users > 0

\* The section and the addresses a test is at are still there, also after the time that
\* servers_lock was let go of for it.
TestInBounds ==
  \A t \in Threads :
    thr[t].pc \in {"retest", "uptest", "testing", "tested"} =>
      thr[t].i \in 1..Len(servers) /\ thr[t].n <= Len(servers[thr[t].i].atup)

\* The server data are counted, freed only when nobody uses them, and whoever waits to
\* free them is woken.
DataGuarded ==
  TypeOK /\ UsersCounted /\ NothingFreedInUse /\ NoLostBroadcast /\ TestInBounds

\* The status thread never sleeps over a test that was asked for: it has been
\* signalled, or knew of the request and will wake in half a second.
PromptTest ==
  thr[Status].pc = "sleeping" /\ (\E p \in Ats : At(p).i_ts = "zero")
    => \/ st.signalled \/ st.wait = "short"
       \/ \E q \in Queriers : thr[q].sig    \* test_onquery has yet to signal

\* servstat_thrid names a thread that has ended: main() stored the id too late.
StaleId == servstat_thrid = "status" /\ thr[Status].pc = "off"

\* ... or a reload freed the sections under discovery's wait.
Astray == StaleId \/ thr[Status].stale \/ st.lost

\* A section that is tested at intervals has a status thread, whatever was
\* changed, discovered, interrupted or reloaded - but for the two races above.
PeriodicServed ==
  (\E i \in 1..Len(servers) : needs_intermittent_testing(servers[i]))
    => thr[Status].pc # "off" \/ Astray \/ main = "create"

\* Once interrupted, tests go on in the next pass.
InterruptionEnds == signal_interrupt => thr[Status].pc \notin {"sleeping", "off"}

\* The status thread neither sleeps nor ends over work: a test asked for, a section to be
\* tested at intervals, a pass that was interrupted.
ThreadAwake == PromptTest /\ PeriodicServed /\ InterruptionEnds

Pending(p) ==
  /\ p \in Ats /\ needs_testing(servers[p[1]])
  /\ At(p).i_ts = "zero" \/ (At(p).i_ts = "due" /\ servers[p[1]].interval = "periodic")

Discovering == \/ \E i \in 1..Len(servers) : servers[i].rootserver = 2
               \/ thr[Status].pc \in {"exclusive", "waiting"}

\* A test that was asked for, or whose time has come, is done or replaced by a
\* mark: no order of requests, interruptions and changes loses it.  Discovery
\* of root servers may hold it up, and the two races lose it.
TestsDone ==
  \A p \in Watched : Pending(p) ~> (~ Pending(p) \/ Discovering \/ Astray \/ Crashed)

Progress(q) ==
  \/ OnQuery(q) \/ OnQueryTested(q) \/ OnQueryEnds(q) \/ unlock_server_data(q)
  \/ retest(q) \/ uptest(q) \/ UptestEnds(q)

\* Threads run, tests end, and a thread that waits for the mutex gets it.
Fairness ==
  /\ SF_vars(StatusStep /\ ~ Crashed)
  /\ \A q \in Queriers : SF_vars(Progress(q) /\ ~ Crashed)
  /\ WF_vars((Await \/ Change \/ Reload) /\ ~ Crashed)
  /\ WF_vars(MainCreates \/ MainAssigns)

FairSpec == Spec /\ Fairness
=============================================================================
