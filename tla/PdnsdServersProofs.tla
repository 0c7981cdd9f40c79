------------------------- MODULE PdnsdServersProofs -------------------------
(***************************************************************************)
(* The guard of pdnsd's server data, for any threads, configurations,      *)
(* addresses and numbers of commands: the users are counted, the data are  *)
(* freed only when nobody uses them, the last user wakes who waits, and no *)
(* test is at a section or an address that is gone.  And the status thread *)
(* neither sleeps nor ends over work that it was asked for.                *)
(***************************************************************************)
EXTENDS PdnsdServers, FiniteSetTheorems, TLAPS

-----------------------------------------------------------------------------
(* The inductive invariant.                                                *)

\* Where a thread that holds servers_lock between two steps is.
Owning == {"pass", "section", "tests", "each", "retest", "uptest", "tested", "discover",
           "exclusive", "onquery", "crashed"}

Retesting == {"retest", "uptest", "testing", "tested"}

\* Where the status thread is at a section.
Visiting == Retesting \cup {"tests", "each", "discover", "resolving", "exclusive", "waiting"}

QueryPlaces  == Retesting \cup {"idle", "onquery", "ready", "reading", "asking"}
StatusPlaces == Visiting \cup {"off", "new", "pass", "section", "sleeping", "crashed"}

ThreadType ==
  [pc : QueryPlaces \cup StatusPlaces, i : Nat, j : Nat, n : Nat, iter : Nat,
   stale : BOOLEAN, sig : BOOLEAN, a : Addresses \cup {"none"}]

StType ==
  [keep : BOOLEAN, mode : {"none", "root", "all", "each"}, n : Nat, adrs : SUBSET Addresses,
   freed : BOOLEAN, lost : BOOLEAN, ping : BOOLEAN, wait : {"none", "short", "interval"},
   signalled : BOOLEAN]

\* Sections in a reload, addresses in a change: what new holds depends on op.
CtlShape ==
  [pc |-> ctl.pc, op |-> ctl.op, i |-> ctl.i, up |-> ctl.up, new |-> ctl.new, left |-> ctl.left]
CtlInv ==
  /\ ctl = CtlShape
  /\ ctl.pc \in {"idle", "exclusive", "waiting"} /\ ctl.op \in {"none", "change", "reload"}
  /\ ctl.up \in Ups
  /\ ctl.op = "change" => ctl.new \in Seq(Addresses) /\ ctl.i \in Nat \ {0}
  /\ ctl.op = "reload" => ctl.new \in Configs

Sections == Seq(servparm_t(Atup))

TypeInv ==
  /\ servers \in Sections
  /\ thr \in [Threads -> ThreadType]
  /\ thr[Status].pc \in StatusPlaces /\ \A q \in Queriers : thr[q].pc \in QueryPlaces
  /\ st \in StType
  /\ CtlInv
  /\ server_data_users \in Nat
  /\ signal_interrupt \in BOOLEAN /\ retest_flag \in BOOLEAN
  /\ schm \in {"unread", "match", "other"} /\ servstat_thrid \in {"main", "status"}
  /\ lock \in Threads \cup {Control, Free} /\ asleep \subseteq {Status, Control}
  /\ main \in {"create", "assign", "running"}

\* The threads at certain places.
AtPlaces(S) == {t \in Threads : thr[t].pc \in S}

\* servers_lock is held by who is in the middle of something.
Locked ==
  /\ \A t \in Threads : lock = t <=> thr[t].pc \in Owning
  /\ lock = Control <=> ctl.pc = "exclusive"

\* The counters are exact.
Counted ==
  /\ server_data_users = Cardinality(AtPlaces(Using))
  /\ server_status_ping = IF thr[Status].pc = "testing" /\ st.ping THEN 1 ELSE 0

\* Only the status thread, in discovery's wait, is ever overtaken by a reload.
StaleInv ==
  \A t \in Threads :
    thr[t].stale => t = Status /\ thr[t].pc \in {"waiting", "exclusive", "crashed"}

\* Once main() has stored its id, a status thread without an id is not running; queries
\* and commands come later.
StartInv ==
  /\ main = "create" => thr[Status].pc = "off" /\ servstat_thrid = "main"
  /\ main = "running" /\ servstat_thrid = "main" => thr[Status].pc = "off"
  /\ main # "running" => ctl.pc = "idle" /\ \A q \in Queriers : thr[q].pc = "idle"

\* A pass visits sections that are there, unless they were freed under its wait.
PassInv ==
  /\ thr[Status].pc \in Visiting \cup {"section"} =>
       /\ thr[Status].i \in Nat \ {0}
       /\ ~ thr[Status].stale => st.n <= Len(servers)
  /\ thr[Status].pc \in Visiting => thr[Status].i <= st.n

OnQueryInv == \A q \in Queriers : thr[q].pc = "onquery" => thr[q].i \in Nat \ {0}

ControlInv ==
  /\ Locked /\ Counted /\ StaleInv /\ StartInv /\ PassInv /\ OnQueryInv
  /\ TestInBounds /\ NoLostBroadcast

IInv == TypeInv /\ ControlInv

-----------------------------------------------------------------------------
(* The sections.                                                           *)

\* The sections keep their types, their number and the numbers of their addresses.
Kept ==
  /\ servers' \in Sections /\ Len(servers') = Len(servers)
  /\ \A i \in 1..Len(servers) : Len(servers'[i].atup) = Len(servers[i].atup)

\* A section has a list of addresses.
LEMMA Sectioned ==
  ASSUME servers \in Sections, NEW i \in 1..Len(servers)
  PROVE  /\ servers[i] \in servparm_t(Atup) /\ servers[i].atup \in Seq(Atup)
         /\ Len(servers[i].atup) \in Nat
         /\ \A j \in 1..Len(servers[i].atup) : servers[i].atup[j] \in Atup
<1>1. servers[i] \in servparm_t(Atup)
  BY DEF Sections
<1>2. servers[i].atup \in Seq(Atup)
  BY <1>1 DEF servparm_t
<1>. QED BY <1>1, <1>2

\* As many addresses are put in the place of a section's (retest, mark_servers, the
\* stamps of servstat_thread).
LEMMA NewAddresses ==
  ASSUME servers \in Sections, NEW i \in 1..Len(servers), NEW u,
         u \in [1..Len(servers[i].atup) -> Atup], servers' = [servers EXCEPT ![i].atup = u]
  PROVE  Kept
<1>1. servers[i] \in servparm_t(Atup) /\ Len(servers[i].atup) \in Nat
  BY Sectioned
<1>2. u \in Seq(Atup) /\ Len(u) = Len(servers[i].atup)
  BY <1>1
<1>. PICK g : g = [servers[i] EXCEPT !.atup = u]
  OBVIOUS
<1>3. g \in servparm_t(Atup) /\ g.atup = u
  BY <1>1, <1>2 DEF servparm_t
<1>4. servers' = [servers EXCEPT ![i] = g]
  OBVIOUS
<1>5. servers' \in Sections /\ Len(servers') = Len(servers)
  BY <1>3, <1>4 DEF Sections
<1>6. \A k \in 1..Len(servers) : servers'[k] = IF k = i THEN g ELSE servers[k]
  BY <1>4 DEF Sections
<1>. QED BY <1>2, <1>3, <1>5, <1>6 DEF Kept

\* Time stamps only.
LEMMA Stamping ==
  ASSUME servers \in Sections, NEW i \in 1..Len(servers), NEW J, Update(i, J, Stamped)
  PROVE  Kept
  BY NewAddresses, Sectioned DEF Update, Stamped, Atup

\* The results of a test that was not made, since the scheme is another.
LEMMA MarkingDown ==
  ASSUME servers \in Sections, NEW i \in 1..Len(servers), NEW J,
         Update(i, J, LAMBDA at : [at EXCEPT !.is_up = FALSE, !.i_ts = "fresh"])
  PROVE  Kept
<1>. DEFINE atup == servers[i].atup
            u == [j \in 1..Len(atup) |->
                   IF j \in J THEN [atup[j] EXCEPT !.is_up = FALSE, !.i_ts = "fresh"]
                   ELSE atup[j]]
<1>1. u \in [1..Len(atup) -> Atup]
  BY Sectioned DEF Atup
<1>2. servers' = [servers EXCEPT ![i].atup = u]
  BY DEF Update
<1>. QED BY <1>1, <1>2, NewAddresses

\* Tests are asked for (interval=onquery, with root servers to discover).
LEMMA Asking ==
  ASSUME servers \in Sections, NEW i \in 1..Len(servers), NEW J,
         Update(i, J, LAMBDA at : [at EXCEPT !.i_ts = "zero"])
  PROVE  Kept
<1>. DEFINE atup == servers[i].atup
            u == [j \in 1..Len(atup) |->
                   IF j \in J THEN [atup[j] EXCEPT !.i_ts = "zero"] ELSE atup[j]]
<1>1. u \in [1..Len(atup) -> Atup]
  BY Sectioned DEF Atup
<1>2. servers' = [servers EXCEPT ![i].atup = u]
  BY DEF Update
<1>. QED BY <1>1, <1>2, NewAddresses

\* An interval is over.
LEMMA Elapsing ==
  ASSUME servers \in Sections, NEW i \in 1..Len(servers), NEW J,
         Update(i, J, LAMBDA at : [at EXCEPT !.i_ts = "due"])
  PROVE  Kept
<1>. DEFINE atup == servers[i].atup
            u == [j \in 1..Len(atup) |->
                   IF j \in J THEN [atup[j] EXCEPT !.i_ts = "due"] ELSE atup[j]]
<1>1. u \in [1..Len(atup) -> Atup]
  BY Sectioned DEF Atup
<1>2. servers' = [servers EXCEPT ![i].atup = u]
  BY DEF Update
<1>. QED BY <1>1, <1>2, NewAddresses

\* Marks, and requests for tests, in several sections.
LEMMA Marking ==
  ASSUME servers \in Sections, NEW P, NEW up \in Ups, servers' = MarkAll(P, up)
  PROVE  Kept
<1>. DEFINE u(i) == [j \in 1..Len(servers[i].atup) |->
                      IF <<i, j>> \in P THEN Marked(servers[i].atup[j], up)
                      ELSE servers[i].atup[j]]
            g(i) == [servers[i] EXCEPT !.atup = u(i)]
<1>1. \A at \in Atup : Marked(at, up) \in Atup
  BY DEF Marked, Atup, Ups
<1>2. \A i \in 1..Len(servers) : u(i) \in Seq(Atup) /\ Len(u(i)) = Len(servers[i].atup)
  BY <1>1, Sectioned
<1>3. \A i \in 1..Len(servers) : g(i) \in servparm_t(Atup) /\ g(i).atup = u(i)
  <2>1. TAKE i \in 1..Len(servers)
  <2>2. u(i) \in Seq(Atup) /\ servers[i] \in servparm_t(Atup)
    BY <1>2, Sectioned
  <2>. HIDE DEF u
  <2>. QED BY <2>2 DEF servparm_t
<1>4. servers' = [i \in 1..Len(servers) |-> g(i)]
  BY DEF MarkAll
<1>5. Len(servers) \in Nat
  BY DEF Sections
<1>. HIDE DEF g
<1>. PICK f : f = [i \in 1..Len(servers) |-> g(i)]
  OBVIOUS
<1>6. f \in [1..Len(servers) -> servparm_t(Atup)]
  BY <1>3
<1>7. \A i \in 1..Len(servers) : f[i].atup = u(i)
  BY <1>3
<1>8. f \in Seq(servparm_t(Atup)) /\ Len(f) = Len(servers)
  BY <1>5, <1>6
<1>. HIDE DEF u
<1>. QED BY <1>2, <1>4, <1>7, <1>8 DEF Kept, Sections

\* A configuration becomes sections.
LEMMA Parsing ==
  ASSUME ServersAssumption, NEW c \in Configs
  PROVE  Parsed(c) \in Sections
<1>. DEFINE u(i) == [j \in 1..Len(c[i].atup) |-> NewAtup(c[i], c[i].atup[j])]
            g(i) == [c[i] EXCEPT !.atup = u(i)]
<1>1. c \in Seq(servparm_t(Addresses)) /\ Len(c) \in Nat
  BY DEF ServersAssumption
<1>2. \A i \in 1..Len(c) :
        /\ c[i] \in servparm_t(Addresses) /\ c[i].atup \in Seq(Addresses) /\ c[i].preset \in BOOLEAN
        /\ g(i) \in servparm_t(Atup)
  <2>1. TAKE i \in 1..Len(c)
  <2>2. c[i] \in servparm_t(Addresses)
    BY <1>1
  <2>3. c[i].atup \in Seq(Addresses) /\ c[i].preset \in BOOLEAN
    BY <2>2 DEF servparm_t
  <2>4. \A a \in Addresses : NewAtup(c[i], a) \in Atup
    BY <2>3 DEF NewAtup, FirstStamp, Atup
  <2>5. u(i) \in Seq(Atup)
    BY <2>3, <2>4
  <2>. HIDE DEF u
  <2>6. g(i) \in servparm_t(Atup)
    BY <2>2, <2>5 DEF servparm_t
  <2>. QED BY <2>2, <2>3, <2>6
<1>3. Parsed(c) = [i \in 1..Len(c) |-> g(i)]
  BY DEF Parsed
<1>. HIDE DEF g
<1>. QED BY <1>1, <1>2, <1>3 DEF Sections

-----------------------------------------------------------------------------
(* The threads.                                                            *)

\* Thread t goes to pc, at section i and with tests up to address n.
Moves(t, pc, i, n, stale) ==
  /\ thr' \in [Threads -> ThreadType]
  /\ thr'[t].pc = pc /\ thr'[t].i = i /\ thr'[t].n = n /\ thr'[t].stale = stale
  /\ \A u \in Threads \ {t} : thr'[u] = thr[u]

\* Thread t goes to pc and stays where it is in the sections.
Turns(t, pc) == Moves(t, pc, thr[t].i, thr[t].n, thr[t].stale)

LEMMA Taking ==
  ASSUME thr \in [Threads -> ThreadType], NEW t \in Threads, NEW g \in ThreadType,
         thr' = [thr EXCEPT ![t] = g]
  PROVE  Moves(t, g.pc, g.i, g.n, g.stale)
  BY DEF Moves

LEMMA Going ==
  ASSUME thr \in [Threads -> ThreadType], NEW t \in Threads,
         NEW pc \in QueryPlaces \cup StatusPlaces, Go(t, pc)
  PROVE  Turns(t, pc)
<1>1. PICK g : g = [thr[t] EXCEPT !.pc = pc]
  OBVIOUS
<1>2. /\ g \in ThreadType /\ g.pc = pc
      /\ g.i = thr[t].i /\ g.n = thr[t].n /\ g.stale = thr[t].stale
  BY <1>1 DEF ThreadType
<1>3. thr' = [thr EXCEPT ![t] = g]
  BY <1>1 DEF Go
<1>. QED BY <1>2, <1>3, Taking DEF Turns

LEMMA GoingTo ==
  ASSUME thr \in [Threads -> ThreadType], NEW t \in Threads,
         NEW pc \in QueryPlaces \cup StatusPlaces, NEW i \in Nat,
         thr' = [thr EXCEPT ![t].pc = pc, ![t].i = i]
  PROVE  Moves(t, pc, i, thr[t].n, thr[t].stale)
<1>1. PICK g : g = [thr[t] EXCEPT !.pc = pc, !.i = i]
  OBVIOUS
<1>2. g \in ThreadType /\ g.pc = pc /\ g.i = i /\ g.n = thr[t].n /\ g.stale = thr[t].stale
  BY <1>1 DEF ThreadType
<1>3. thr' = [thr EXCEPT ![t] = g]
  BY <1>1
<1>. QED BY <1>2, <1>3, Taking

\* The sections are gone through by a query thread.
LEMMA Advancing ==
  ASSUME thr \in [Threads -> ThreadType], NEW t \in Threads,
         NEW pc \in QueryPlaces \cup StatusPlaces, NEW i \in Nat, NEW sig \in BOOLEAN,
         \/ thr' = [thr EXCEPT ![t].pc = pc, ![t].i = i, ![t].sig = sig]
         \/ thr[t].pc = pc /\ thr' = [thr EXCEPT ![t].i = i, ![t].sig = sig]
         \/ thr[t].pc = pc /\ thr' = [thr EXCEPT ![t].i = i]
  PROVE  Moves(t, pc, i, thr[t].n, thr[t].stale)
<1>1. CASE thr' = [thr EXCEPT ![t].pc = pc, ![t].i = i, ![t].sig = sig]
  <2>1. PICK g : g = [thr[t] EXCEPT !.pc = pc, !.i = i, !.sig = sig]
    OBVIOUS
  <2>2. g \in ThreadType /\ g.pc = pc /\ g.i = i /\ g.n = thr[t].n /\ g.stale = thr[t].stale
    BY <2>1 DEF ThreadType
  <2>3. thr' = [thr EXCEPT ![t] = g]
    BY <1>1, <2>1
  <2>. QED BY <2>2, <2>3, Taking
<1>2. CASE thr[t].pc = pc /\ thr' = [thr EXCEPT ![t].i = i, ![t].sig = sig]
  <2>1. PICK g : g = [thr[t] EXCEPT !.i = i, !.sig = sig]
    OBVIOUS
  <2>2. /\ g \in ThreadType /\ g.pc = thr[t].pc /\ g.i = i
        /\ g.n = thr[t].n /\ g.stale = thr[t].stale
    BY <2>1 DEF ThreadType
  <2>3. thr' = [thr EXCEPT ![t] = g]
    BY <1>2, <2>1
  <2>. QED BY <1>2, <2>2, <2>3, Taking
<1>3. CASE thr[t].pc = pc /\ thr' = [thr EXCEPT ![t].i = i]
  <2>1. PICK g : g = [thr[t] EXCEPT !.i = i]
    OBVIOUS
  <2>2. /\ g \in ThreadType /\ g.pc = thr[t].pc /\ g.i = i
        /\ g.n = thr[t].n /\ g.stale = thr[t].stale
    BY <2>1 DEF ThreadType
  <2>3. thr' = [thr EXCEPT ![t] = g]
    BY <1>3, <2>1
  <2>. QED BY <1>3, <2>2, <2>3, Taking
<1>. QED BY <1>1, <1>2, <1>3

\* The addresses of a section are gone through.
LEMMA Counting ==
  ASSUME thr \in [Threads -> ThreadType], NEW t \in Threads,
         NEW pc \in QueryPlaces \cup StatusPlaces, NEW j \in Nat,
         \/ thr' = [thr EXCEPT ![t].pc = pc, ![t].j = j]
         \/ thr[t].pc = pc /\ thr' = [thr EXCEPT ![t].j = j]
  PROVE  Turns(t, pc)
<1>1. PICK g : /\ thr' = [thr EXCEPT ![t] = g]
               /\ \/ g = [thr[t] EXCEPT !.pc = pc, !.j = j]
                  \/ thr[t].pc = pc /\ g = [thr[t] EXCEPT !.j = j]
  OBVIOUS
<1>2. /\ g \in ThreadType /\ g.pc = pc
      /\ g.i = thr[t].i /\ g.n = thr[t].n /\ g.stale = thr[t].stale
  BY <1>1 DEF ThreadType
<1>. QED BY <1>1, <1>2, Taking DEF Turns

\* The tries of a test are counted.
LEMMA Trying ==
  ASSUME thr \in [Threads -> ThreadType], NEW t \in Threads, NEW k \in Nat,
         \/ thr' = [thr EXCEPT ![t].pc = "testing", ![t].iter = k]
         \/ thr[t].pc = "testing" /\ thr' = [thr EXCEPT ![t].iter = k]
  PROVE  Turns(t, "testing")
<1>1. PICK g : /\ thr' = [thr EXCEPT ![t] = g]
               /\ \/ g = [thr[t] EXCEPT !.pc = "testing", !.iter = k]
                  \/ thr[t].pc = "testing" /\ g = [thr[t] EXCEPT !.iter = k]
  OBVIOUS
<1>2. "testing" \in QueryPlaces
  BY DEF QueryPlaces, Retesting
<1>3. /\ g \in ThreadType /\ g.pc = "testing"
      /\ g.i = thr[t].i /\ g.n = thr[t].n /\ g.stale = thr[t].stale
  BY <1>1, <1>2 DEF ThreadType
<1>. QED BY <1>1, <1>3, Taking DEF Turns

\* The next section of a pass.
LEMMA NextSectioning ==
  ASSUME thr \in [Threads -> ThreadType], Status \in Threads, NextSection
  PROVE  Moves(Status, "section", thr[Status].i + 1, 0, FALSE)
<1>0. PICK g : g = [Idle EXCEPT !.pc = "section", !.i = thr[Status].i + 1]
  OBVIOUS
<1>1. g = [pc |-> "section", i |-> thr[Status].i + 1, j |-> 0, n |-> 0, iter |-> 0,
           stale |-> FALSE, sig |-> FALSE, a |-> "none"]
  BY <1>0 DEF Idle
<1>2. g \in ThreadType
  <2>1. thr[Status].i + 1 \in Nat
    BY DEF ThreadType
  <2>. QED BY <1>1, <2>1 DEF ThreadType, StatusPlaces
<1>3. thr' = [thr EXCEPT ![Status] = g]
  BY <1>0 DEF NextSection
<1>4. g.pc = "section" /\ g.i = thr[Status].i + 1 /\ g.n = 0 /\ g.stale = FALSE
  BY <1>1
<1>. QED BY <1>2, <1>3, <1>4 DEF Moves

\* A call of retest.
LEMMA Calling ==
  ASSUME thr \in [Threads -> ThreadType], NEW t \in Threads, NEW i \in Nat, NEW j \in Nat,
         NEW n \in Nat, thr' = Call(thr, t, i, j, n)
  PROVE  Moves(t, "retest", i, n, thr[t].stale)
<1>1. PICK g : g = [thr[t] EXCEPT !.pc = "retest", !.i = i, !.j = j, !.n = n]
  OBVIOUS
<1>2. "retest" \in QueryPlaces
  BY DEF QueryPlaces, Retesting
<1>3. g \in ThreadType /\ g.pc = "retest" /\ g.i = i /\ g.n = n /\ g.stale = thr[t].stale
  BY <1>1, <1>2 DEF ThreadType
<1>4. thr' = [thr EXCEPT ![t] = g]
  BY <1>1 DEF Call
<1>. QED BY <1>3, <1>4, Taking

\* The threads at certain places are finitely many.
LEMMA Finitely ==
  ASSUME ServersAssumption
  PROVE  /\ IsFiniteSet(Threads)
         /\ \A S : /\ IsFiniteSet(AtPlaces(S)) /\ Cardinality(AtPlaces(S)) \in Nat
                   /\ Cardinality(AtPlaces(S)) <= Cardinality(Threads)
                   /\ Cardinality(AtPlaces(S)) = 0 <=> AtPlaces(S) = {}
<1>1. IsFiniteSet(Threads)
  BY FS_Singleton, FS_Union DEF ServersAssumption, Threads
<1>2. ASSUME NEW S
      PROVE  /\ IsFiniteSet(AtPlaces(S)) /\ Cardinality(AtPlaces(S)) \in Nat
             /\ Cardinality(AtPlaces(S)) <= Cardinality(Threads)
             /\ Cardinality(AtPlaces(S)) = 0 <=> AtPlaces(S) = {}
  <2>1. AtPlaces(S) \subseteq Threads
    BY DEF AtPlaces
  <2>2. IsFiniteSet(AtPlaces(S)) /\ Cardinality(AtPlaces(S)) <= Cardinality(Threads)
    BY <1>1, <2>1, FS_Subset
  <2>. QED BY <2>2, FS_CardinalityType, FS_EmptySet
<1>. QED BY <1>1, <1>2

\* No thread starts or ends to use the data.
LEMMA Stayed ==
  ASSUME \A u \in Threads : thr'[u].pc \in Using <=> thr[u].pc \in Using
  PROVE  Cardinality(AtPlaces(Using))' = Cardinality(AtPlaces(Using))
<1>1. AtPlaces(Using)' = AtPlaces(Using)
  BY DEF AtPlaces, Using
<1>. QED BY <1>1

\* A thread begins to use the data.
LEMMA Entered ==
  ASSUME ServersAssumption, NEW t \in Threads, thr[t].pc \notin Using, thr'[t].pc \in Using,
         \A u \in Threads \ {t} : thr'[u] = thr[u]
  PROVE  Cardinality(AtPlaces(Using))' = Cardinality(AtPlaces(Using)) + 1
<1>1. AtPlaces(Using)' = AtPlaces(Using) \cup {t} /\ t \notin AtPlaces(Using)
  BY DEF AtPlaces, Using
<1>2. Cardinality(AtPlaces(Using) \cup {t}) = Cardinality(AtPlaces(Using)) + 1
  BY <1>1, Finitely, FS_AddElement
<1>. QED BY <1>1, <1>2

\* A thread ends to use the data.
LEMMA Left ==
  ASSUME ServersAssumption, NEW t \in Threads, thr[t].pc \in Using, thr'[t].pc \notin Using,
         \A u \in Threads \ {t} : thr'[u] = thr[u]
  PROVE  /\ Cardinality(AtPlaces(Using))' = Cardinality(AtPlaces(Using)) - 1
         /\ Cardinality(AtPlaces(Using)) > 0
<1>1. AtPlaces(Using)' = AtPlaces(Using) \ {t} /\ t \in AtPlaces(Using)
  BY DEF AtPlaces, Using
<1>2. Cardinality(AtPlaces(Using) \ {t}) = Cardinality(AtPlaces(Using)) - 1
  BY <1>1, Finitely, FS_RemoveElement
<1>3. Cardinality(AtPlaces(Using)) \in Nat /\ Cardinality(AtPlaces(Using)) # 0
  BY <1>1, Finitely
<1>. QED BY <1>1, <1>2, <1>3

\* When nobody uses the data, a change of addresses frees nothing in use.
LEMMA NothingFreed ==
  ASSUME ServersAssumption, IInv, server_data_users = 0
  PROVE  Freed(Using) = thr /\ \A t \in Threads : thr[t].pc \notin Using
<1>1. \A t \in Threads : thr[t].pc \notin Using
  BY Finitely DEF IInv, ControlInv, Counted, AtPlaces
<1>2. thr \in [Threads -> ThreadType]
  BY DEF IInv, TypeInv
<1>3. \A t \in Threads : [thr[t] EXCEPT !.stale = @ \/ thr[t].pc \in Using] = thr[t]
  <2>1. TAKE t \in Threads
  <2>2. thr[t] \in ThreadType /\ thr[t].stale \in BOOLEAN
    BY <1>2 DEF ThreadType
  <2>3. (thr[t].stale \/ thr[t].pc \in Using) = thr[t].stale
    BY <1>1, <2>2
  <2>. QED BY <2>2, <2>3 DEF ThreadType
<1>. QED BY <1>1, <1>2, <1>3 DEF Freed

\* The status thread's locals keep what the invariant speaks of.
StKept == st' \in StType /\ st'.n = st.n /\ st'.ping = st.ping

\* Where a thread is at a section, the section is there.
LEMMA InPlace ==
  ASSUME ServersAssumption, IInv
  PROVE  /\ \A t \in Threads : thr[t].pc \in Retesting =>
              /\ thr[t].i \in 1..Len(servers) /\ thr[t].n \in Nat
              /\ ~ thr[t].stale /\ thr[t].n <= Len(servers[thr[t].i].atup)
         /\ thr[Status].pc \in Visiting \ {"exclusive", "waiting"} =>
              thr[Status].i \in 1..Len(servers)
         /\ thr[Status].pc = "exclusive" /\ ~ thr[Status].stale =>
              thr[Status].i \in 1..Len(servers)
         /\ thr[Status].pc = "section" /\ thr[Status].i <= st.n =>
              thr[Status].i \in 1..Len(servers)
         /\ Status \in Threads /\ thr \in [Threads -> ThreadType] /\ thr[Status] \in ThreadType
         /\ servers \in Sections /\ Len(servers) \in Nat /\ st \in StType
<1>1. /\ thr \in [Threads -> ThreadType] /\ Status \in Threads
      /\ servers \in Sections /\ Len(servers) \in Nat /\ st \in StType /\ st.n \in Nat
  BY DEF IInv, TypeInv, Threads, Sections, StType
<1>2. \A t \in Threads : thr[t] \in ThreadType /\ thr[t].i \in Nat /\ thr[t].n \in Nat
  BY <1>1 DEF ThreadType
<1>3. thr[Status].pc \in (Visiting \ {"exclusive", "waiting"}) \cup {"section"} => ~ thr[Status].stale
  BY <1>1, <1>2 DEF IInv, ControlInv, StaleInv, Visiting, Retesting
<1>4. thr[Status].pc \in Visiting \ {"exclusive", "waiting"} => thr[Status].i \in 1..Len(servers)
  BY <1>1, <1>2, <1>3 DEF IInv, ControlInv, PassInv
<1>5. \A t \in Threads : thr[t].pc \in Retesting => ~ thr[t].stale
  BY DEF IInv, ControlInv, StaleInv, Retesting
<1>6. thr[Status].pc = "exclusive" /\ ~ thr[Status].stale => thr[Status].i \in 1..Len(servers)
  BY <1>1, <1>2 DEF IInv, ControlInv, PassInv, Visiting
<1>7. thr[Status].pc = "section" /\ thr[Status].i <= st.n => thr[Status].i \in 1..Len(servers)
  BY <1>1, <1>2, <1>3 DEF IInv, ControlInv, PassInv
<1>8. \A t \in Threads : thr[t].pc \in Retesting =>
        thr[t].i \in 1..Len(servers) /\ thr[t].n <= Len(servers[thr[t].i].atup)
  BY DEF IInv, ControlInv, TestInBounds, Retesting
<1>. QED BY <1>1, <1>2, <1>4, <1>5, <1>6, <1>7, <1>8

\* The status thread is woken or started: th is where the threads are else.
LEMMA Starting ==
  ASSUME ServersAssumption, IInv, main = "running", NEW th \in [Threads -> ThreadType],
         th[Status].pc = thr[Status].pc, StartOrSignal(th)
  PROVE  /\ thr' \in [Threads -> ThreadType] /\ \A q \in Queriers : thr'[q] = th[q]
         /\ \/ thr'[Status] = th[Status]
            \/ thr[Status].pc = "off" /\ thr'[Status].pc = "new" /\ thr'[Status].stale = th[Status].stale
         /\ StKept /\ servstat_thrid' = "status"
<1>1. Status \in Threads /\ Status \notin Queriers
  BY DEF Threads, ServersAssumption
<1>2. st \in StType /\ servstat_thrid \in {"main", "status"} /\ thr[Status].pc \in StatusPlaces
  BY DEF IInv, TypeInv
<1>3. CASE servstat_thrid = "main"
  <2>1. /\ thr' = [th EXCEPT ![Status].pc = "new"] /\ thr[Status].pc = "off"
        /\ servstat_thrid' = "status" /\ UNCHANGED st
    BY <1>3 DEF StartOrSignal, IInv, ControlInv, StartInv
  <2>2. [th[Status] EXCEPT !.pc = "new"] \in ThreadType
    <3>1. "new" \in QueryPlaces \cup StatusPlaces
      BY DEF StatusPlaces
    <3>2. th[Status] \in ThreadType
      BY <1>1
    <3>. QED BY <3>1, <3>2 DEF ThreadType
  <2>3. thr' = [th EXCEPT ![Status] = [th[Status] EXCEPT !.pc = "new"]]
    BY <2>1
  <2>4. thr' \in [Threads -> ThreadType]
    BY <2>2, <2>3
  <2>5. \A q \in Queriers : thr'[q] = th[q]
    BY <1>1, <2>3 DEF Threads
  <2>6. thr'[Status] = [th[Status] EXCEPT !.pc = "new"] /\ th[Status] \in ThreadType
    BY <1>1, <2>3
  <2>7. thr'[Status].pc = "new" /\ thr'[Status].stale = th[Status].stale
    BY <2>6 DEF ThreadType
  <2>. QED BY <1>2, <2>1, <2>4, <2>5, <2>7 DEF StKept
<1>4. CASE servstat_thrid = "status"
  <2>1. /\ thr' = th /\ servstat_thrid' = servstat_thrid
        /\ st' = [st EXCEPT !.signalled = @ \/ thr[Status].pc = "sleeping"]
    BY <1>4 DEF StartOrSignal
  <2>2. StKept
    BY <1>2, <2>1 DEF StKept, StType
  <2>. QED BY <1>1, <1>4, <2>1, <2>2 DEF Threads
<1>. QED BY <1>2, <1>3, <1>4

\* A request for tests, if there is one.
LEMMA Requesting ==
  ASSUME ServersAssumption, IInv, main = "running", NEW th \in [Threads -> ThreadType],
         th[Status].pc = thr[Status].pc, NEW sig, Request(sig, th)
  PROVE  /\ thr' \in [Threads -> ThreadType] /\ \A q \in Queriers : thr'[q] = th[q]
         /\ \/ thr'[Status] = th[Status]
            \/ thr[Status].pc = "off" /\ thr'[Status].pc = "new" /\ thr'[Status].stale = th[Status].stale
         /\ StKept /\ retest_flag' \in BOOLEAN
         /\ servstat_thrid' = "status" \/ (servstat_thrid' = servstat_thrid /\ thr' = th)
<1>1. CASE sig
  BY <1>1, Starting DEF Request, IInv, TypeInv
<1>2. CASE ~ sig
  BY <1>2 DEF Request, IInv, TypeInv, StKept, Threads
<1>. QED BY <1>1, <1>2

\* retest has found whether a server is up that can be asked for the root servers.
LEMMA OnesUp ==
  ASSUME ServersAssumption, IInv, NEW b, OneUp(b)
  PROVE  /\ StKept
         /\ \/ Turns(Status, "discover")
            \/ Moves(Status, "section", thr[Status].i + 1, 0, FALSE)
<1>1. thr \in [Threads -> ThreadType] /\ st \in StType /\ Status \in Threads
  BY InPlace
<1>2. CASE b
  BY <1>1, <1>2, Going DEF OneUp, StKept, StatusPlaces, Visiting
<1>3. CASE ~ b
  <2>1. Moves(Status, "section", thr[Status].i + 1, 0, FALSE)
    BY <1>1, <1>3, NextSectioning DEF OneUp
  <2>2. PICK k : k \in BOOLEAN /\ st' = [st EXCEPT !.keep = k]
    BY <1>1, <1>3 DEF OneUp, KeepIf
  <2>3. StKept
    BY <1>1, <2>2 DEF StKept, StType
  <2>. QED BY <2>1, <2>3
<1>. QED BY <1>2, <1>3

\* One thread moves, and the section and the addresses of its test are there.
LEMMA Bounded ==
  ASSUME ServersAssumption, IInv, Kept, NEW t \in Threads,
         \A u \in Threads \ {t} : thr'[u] = thr[u],
         thr'[t].pc \in Retesting =>
           thr'[t].i \in 1..Len(servers) /\ thr'[t].n <= Len(servers[thr'[t].i].atup)
  PROVE  TestInBounds'
<1>1. \A u \in Threads : thr'[u].pc \in Retesting =>
        thr'[u].i \in 1..Len(servers) /\ thr'[u].n <= Len(servers[thr'[u].i].atup)
  BY InPlace
<1>. QED BY <1>1 DEF TestInBounds, Kept, Retesting

\* A pass over the sections begins.
LEMMA PassKeeps ==
  ASSUME ServersAssumption, IInv, Pass
  PROVE  IInv'
<1>1. /\ UNCHANGED <<servers, server_data_users, server_status_ping, signal_interrupt, lock,
                     asleep>>
      /\ UNCHANGED <<servstat_thrid, ctl, main>>
      /\ retest_flag' = FALSE /\ schm' = "unread" /\ thr[Status].pc = "pass"
  BY DEF Pass, counts, OnlyStatus
<1>2. Moves(Status, "section", 1, thr[Status].n, thr[Status].stale)
  BY InPlace, GoingTo DEF Pass, StatusPlaces
<1>3. st' = [keep |-> FALSE, mode |-> "none", n |-> Len(servers), adrs |-> st.adrs, freed |-> st.freed,
             lost |-> st.lost, ping |-> FALSE, wait |-> "none", signalled |-> FALSE]
  BY InPlace DEF Pass, StType
<1>4. st' \in StType /\ st'.n = Len(servers) /\ st'.ping = FALSE /\ ~ thr[Status].stale
  BY <1>1, <1>3, InPlace DEF StType, IInv, ControlInv, StaleInv
<1>5. TypeInv'
  <2>1. thr'[Status].pc \in StatusPlaces /\ \A u \in Queriers : thr'[u].pc \in QueryPlaces
    BY <1>1, <1>2, <1>3, <1>4, InPlace DEF IInv, TypeInv, Moves, Turns, QueryPlaces,
       StatusPlaces, Visiting,
       Retesting, Threads, ServersAssumption
  <2>. QED
    BY <1>1, <1>2, <1>3, <1>4, <2>1 DEF IInv, TypeInv, Moves, Turns, CtlInv, CtlShape, Threads
<1>6. Locked'
  BY <1>1, <1>2, <1>3, <1>4 DEF IInv, ControlInv, TypeInv, Locked, Moves, Turns, Owning,
     Threads, ServersAssumption
<1>7. Counted'
  BY <1>1, <1>2, <1>3, <1>4, Stayed DEF IInv, ControlInv, TypeInv, Counted, Moves, Turns,
     Using, Threads
<1>8. StaleInv'
  BY <1>1, <1>2, <1>3, <1>4, InPlace DEF IInv, ControlInv, StaleInv, Moves, Turns
<1>9. StartInv'
  BY <1>1, <1>2, <1>3, <1>4 DEF IInv, ControlInv, StartInv, Moves, Turns, Threads,
     ServersAssumption
<1>10. PassInv'
  BY <1>1, <1>2, <1>3, <1>4, InPlace DEF IInv, ControlInv, PassInv, StaleInv, Moves, Turns,
     Kept, Visiting, Retesting
<1>11. OnQueryInv'
  BY <1>1, <1>2, <1>3, <1>4 DEF IInv, ControlInv, OnQueryInv, Moves, Turns, Threads,
     ServersAssumption
<1>12. TestInBounds'
  BY <1>1, <1>2, <1>3, <1>4, InPlace DEF TestInBounds, Moves, Turns, Kept, Retesting,
     Threads
<1>13. NoLostBroadcast'
  BY <1>1, <1>2, <1>3, <1>4 DEF IInv, ControlInv, TypeInv, NoLostBroadcast, Counted
<1>. QED BY <1>5, <1>6, <1>7, <1>8, <1>9, <1>10, <1>11, <1>12, <1>13 DEF IInv, ControlInv

\* A section of the pass is looked at.
LEMMA SectionKeeps ==
  ASSUME ServersAssumption, IInv, Section
  PROVE  IInv'
<1>1. /\ UNCHANGED <<server_data_users, server_status_ping, signal_interrupt, retest_flag>>
      /\ UNCHANGED <<lock, asleep, servstat_thrid, ctl, main>> /\ thr[Status].pc = "section"
  BY DEF Section, counts, flags, OnlyStatus
<1>2. thr[Status].i \in 1..Len(servers)
  BY InPlace DEF Section, Visiting
<1>3. /\ Sp = servers[thr[Status].i] /\ Count = Len(servers[thr[Status].i].atup)
      /\ Count \in Nat /\ thr[Status].i \in Nat
  BY <1>2, InPlace, Sectioned DEF Sp, Count
<1>4. Kept
  BY <1>2, InPlace, Stamping DEF Kept, Section, OneUp
<1>5. /\ StKept
      /\ \/ Turns(Status, "tests") \/ Turns(Status, "discover")
         \/ Moves(Status, "section", thr[Status].i + 1, 0, FALSE)
         \/ Moves(Status, "retest", thr[Status].i, Count, thr[Status].stale)
  <2>1. CASE Sp.rootserver # 2
    BY <2>1, InPlace, Going DEF Section, StKept, StatusPlaces, Visiting
  <2>2. CASE \E b : OneUp(b)
    BY <2>2, OnesUp
  <2>3. CASE thr' = Call(thr, Status, thr[Status].i, 1, Count) /\ st' = [st EXCEPT !.mode = "root"]
    <3>1. Moves(Status, "retest", thr[Status].i, Count, thr[Status].stale)
      BY <1>3, <2>3, InPlace, Calling
    <3>2. StKept
      BY <2>3, InPlace DEF StKept, StType
    <3>. QED BY <3>1, <3>2
  <2>. QED BY <2>1, <2>2, <2>3 DEF Section
<1>6. schm' \in {"unread", "match", "other"}
  BY DEF Section, IInv, TypeInv, ReadScheme, SchemeFile
<1>7. thr[Status].i <= st.n /\ st.n <= Len(servers) /\ ~ thr[Status].stale
  BY InPlace DEF Section, IInv, ControlInv, PassInv, StaleInv, Visiting
<1>8. TypeInv'
  BY <1>1, <1>2, <1>3, <1>4, <1>5, <1>6, <1>7 DEF IInv, TypeInv, Moves, Turns, CtlInv,
     CtlShape, QueryPlaces, StatusPlaces, Visiting, Retesting, Threads, ServersAssumption,
     StKept, Kept
<1>9. Locked'
  BY <1>1, <1>2, <1>3, <1>4, <1>5, <1>6, <1>7 DEF IInv, ControlInv, TypeInv, Locked, Moves,
     Turns, Owning, Threads, ServersAssumption
<1>10. Counted'
  BY <1>1, <1>2, <1>3, <1>4, <1>5, <1>6, <1>7, Stayed DEF IInv, ControlInv, TypeInv,
     Counted, Moves, Turns, Using, Threads, StKept
<1>11. StaleInv'
  BY <1>1, <1>2, <1>3, <1>4, <1>5, <1>6, <1>7, InPlace DEF IInv, ControlInv, StaleInv,
     Moves, Turns
<1>12. StartInv'
  BY <1>1, <1>2, <1>3, <1>4, <1>5, <1>6, <1>7 DEF IInv, ControlInv, StartInv, Moves, Turns,
     Threads, ServersAssumption
<1>13. PassInv'
  BY <1>1, <1>2, <1>3, <1>4, <1>5, <1>6, <1>7, InPlace DEF IInv, ControlInv, PassInv,
     StaleInv, Moves, Turns, Kept, Visiting, Retesting, StKept
<1>14. OnQueryInv'
  BY <1>1, <1>2, <1>3, <1>4, <1>5, <1>6, <1>7 DEF IInv, ControlInv, OnQueryInv, Moves,
     Turns, Threads, ServersAssumption
<1>15. TestInBounds'
  BY <1>2, <1>3, <1>4, <1>5, InPlace, Bounded DEF Moves, Turns, Retesting
<1>16. NoLostBroadcast'
  BY <1>1, <1>2, <1>3, <1>4, <1>5, <1>6, <1>7 DEF IInv, ControlInv, TypeInv,
     NoLostBroadcast, Counted
<1>. QED BY <1>8, <1>9, <1>10, <1>11, <1>12, <1>13, <1>14, <1>15, <1>16 DEF IInv, ControlInv

\* A section's tests begin, all at once or one by one.
LEMMA TestsKeeps ==
  ASSUME ServersAssumption, IInv, Tests
  PROVE  IInv'
<1>1. /\ UNCHANGED <<servers, server_data_users, server_status_ping, signal_interrupt, retest_flag>>
      /\ UNCHANGED <<schm, lock, asleep, servstat_thrid, ctl, main>> /\ thr[Status].pc = "tests"
  BY DEF Tests, counts, flags, OnlyStatus
<1>2. thr[Status].i \in 1..Len(servers)
  BY InPlace DEF Tests, Visiting
<1>3. /\ Sp = servers[thr[Status].i] /\ Count = Len(servers[thr[Status].i].atup)
      /\ Count \in Nat /\ thr[Status].i \in Nat
  BY <1>2, InPlace, Sectioned DEF Sp, Count
<1>4. StKept
  BY InPlace DEF Tests, StKept, StType, needs_testing
<1>5. \/ Turns(Status, "each") \/ Moves(Status, "section", thr[Status].i + 1, 0, FALSE)
      \/ Moves(Status, "retest", thr[Status].i, Count, thr[Status].stale)
  <2>1. CASE thr' = [thr EXCEPT ![Status].pc = "each", ![Status].j = 1]
    BY <2>1, InPlace, Counting DEF StatusPlaces, Visiting
  <2>2. CASE NextSection
    BY <2>2, InPlace, NextSectioning
  <2>3. CASE thr' = Call(thr, Status, thr[Status].i, 1, Count)
    BY <1>3, <2>3, InPlace, Calling
  <2>. QED BY <2>1, <2>2, <2>3 DEF Tests
<1>6. thr[Status].i <= st.n /\ st.n <= Len(servers) /\ ~ thr[Status].stale
  BY InPlace DEF Tests, IInv, ControlInv, PassInv, StaleInv, Visiting
<1>7. TypeInv'
  BY <1>1, <1>2, <1>3, <1>4, <1>5, <1>6 DEF IInv, TypeInv, Moves, Turns, CtlInv, CtlShape,
     QueryPlaces, StatusPlaces, Visiting, Retesting, Threads, ServersAssumption, StKept,
     Kept
<1>8. Locked'
  BY <1>1, <1>2, <1>3, <1>4, <1>5, <1>6 DEF IInv, ControlInv, TypeInv, Locked, Moves, Turns,
     Owning, Threads, ServersAssumption
<1>9. Counted'
  BY <1>1, <1>2, <1>3, <1>4, <1>5, <1>6, Stayed DEF IInv, ControlInv, TypeInv, Counted,
     Moves, Turns, Using, Threads, StKept
<1>10. StaleInv'
  BY <1>1, <1>2, <1>3, <1>4, <1>5, <1>6, InPlace DEF IInv, ControlInv, StaleInv, Moves,
     Turns
<1>11. StartInv'
  BY <1>1, <1>2, <1>3, <1>4, <1>5, <1>6 DEF IInv, ControlInv, StartInv, Moves, Turns,
     Threads, ServersAssumption
<1>12. PassInv'
  BY <1>1, <1>2, <1>3, <1>4, <1>5, <1>6, InPlace DEF IInv, ControlInv, PassInv, StaleInv,
     Moves, Turns, Kept, Visiting, Retesting, StKept
<1>13. OnQueryInv'
  BY <1>1, <1>2, <1>3, <1>4, <1>5, <1>6 DEF IInv, ControlInv, OnQueryInv, Moves, Turns,
     Threads, ServersAssumption
<1>14. TestInBounds'
  BY <1>1, <1>2, <1>3, <1>4, <1>5, <1>6, InPlace DEF TestInBounds, Moves, Turns, Kept,
     Retesting, Threads
<1>15. NoLostBroadcast'
  BY <1>1, <1>2, <1>3, <1>4, <1>5, <1>6 DEF IInv, ControlInv, TypeInv, NoLostBroadcast,
     Counted
<1>. QED BY <1>7, <1>8, <1>9, <1>10, <1>11, <1>12, <1>13, <1>14, <1>15 DEF IInv, ControlInv

\* The next address of a section that is tested one by one.
LEMMA IndividualKeeps ==
  ASSUME ServersAssumption, IInv, Individual
  PROVE  IInv'
<1>1. /\ UNCHANGED <<servers, server_data_users, server_status_ping, signal_interrupt,
                     retest_flag, schm>>
      /\ UNCHANGED <<lock, asleep, servstat_thrid, st, ctl, main>> /\ thr[Status].pc = "each"
  BY DEF Individual, counts, flags, OnlyStatus
<1>2. thr[Status].i \in 1..Len(servers)
  BY InPlace DEF Individual, Visiting
<1>3. /\ Sp = servers[thr[Status].i] /\ Count = Len(servers[thr[Status].i].atup)
      /\ Count \in Nat /\ thr[Status].i \in Nat
  BY <1>2, InPlace, Sectioned DEF Sp, Count
<1>4. thr[Status].j \in Nat
  BY InPlace DEF ThreadType
<1>5. \/ Turns(Status, "each") \/ Moves(Status, "section", thr[Status].i + 1, 0, FALSE)
      \/ /\ thr[Status].j <= Count
         /\ Moves(Status, "retest", thr[Status].i, thr[Status].j, thr[Status].stale)
  <2>1. CASE thr' = [thr EXCEPT ![Status].j = @ + 1]
    <3>. PICK k \in Nat : k = thr[Status].j + 1
      BY <1>4
    <3>. QED BY <1>1, <2>1, InPlace, Counting DEF StatusPlaces, Visiting
  <2>2. CASE NextSection
    BY <2>2, InPlace, NextSectioning
  <2>3. CASE /\ thr[Status].j <= Count
              /\ thr' = Call(thr, Status, thr[Status].i, thr[Status].j, thr[Status].j)
    BY <1>3, <1>4, <2>3, InPlace, Calling
  <2>4. CASE thr[Status].j > Count
    BY <2>2, <2>4 DEF Individual
  <2>5. CASE ~ thr[Status].j > Count
    <3>1. thr[Status].j <= Count
      BY <1>3, <1>4, <2>5
    <3>. QED BY <2>1, <2>2, <2>3, <3>1 DEF Individual
  <2>. QED BY <2>4, <2>5
<1>6. thr[Status].i <= st.n /\ st.n <= Len(servers) /\ ~ thr[Status].stale
  BY InPlace DEF Individual, IInv, ControlInv, PassInv, StaleInv, Visiting
<1>7. TypeInv'
  BY <1>1, <1>2, <1>3, <1>4, <1>5, <1>6 DEF IInv, TypeInv, Moves, Turns, CtlInv, CtlShape,
     QueryPlaces, StatusPlaces, Visiting, Retesting, Threads, ServersAssumption
<1>8. Locked'
  BY <1>1, <1>2, <1>3, <1>4, <1>5, <1>6 DEF IInv, ControlInv, TypeInv, Locked, Moves, Turns,
     Owning, Threads, ServersAssumption
<1>9. Counted'
  BY <1>1, <1>2, <1>3, <1>4, <1>5, <1>6, Stayed DEF IInv, ControlInv, TypeInv, Counted,
     Moves, Turns, Using, Threads
<1>10. StaleInv'
  BY <1>1, <1>2, <1>3, <1>4, <1>5, <1>6, InPlace DEF IInv, ControlInv, StaleInv, Moves,
     Turns
<1>11. StartInv'
  BY <1>1, <1>2, <1>3, <1>4, <1>5, <1>6 DEF IInv, ControlInv, StartInv, Moves, Turns,
     Threads, ServersAssumption
<1>12. PassInv'
  BY <1>1, <1>2, <1>3, <1>4, <1>5, <1>6, InPlace DEF IInv, ControlInv, PassInv, StaleInv,
     Moves, Turns, Kept, Visiting, Retesting
<1>13. OnQueryInv'
  BY <1>1, <1>2, <1>3, <1>4, <1>5, <1>6 DEF IInv, ControlInv, OnQueryInv, Moves, Turns,
     Threads, ServersAssumption
<1>14. TestInBounds'
  BY <1>1, <1>2, <1>3, <1>4, <1>5, <1>6, InPlace DEF TestInBounds, Moves, Turns, Kept,
     Retesting, Threads
<1>15. NoLostBroadcast'
  BY <1>1, <1>2, <1>3, <1>4, <1>5, <1>6 DEF IInv, ControlInv, TypeInv, NoLostBroadcast,
     Counted
<1>. QED BY <1>7, <1>8, <1>9, <1>10, <1>11, <1>12, <1>13, <1>14, <1>15 DEF IInv, ControlInv

\* A test has returned to servstat_thread.
LEMMA TestedKeeps ==
  ASSUME ServersAssumption, IInv, Tested
  PROVE  IInv'
<1>1. /\ UNCHANGED <<servers, server_data_users, server_status_ping, signal_interrupt, retest_flag>>
      /\ UNCHANGED <<schm, lock, asleep, servstat_thrid, ctl, main>> /\ thr[Status].pc = "tested"
  BY DEF Tested, counts, flags, OnlyStatus
<1>2. thr[Status].n \in Nat
  BY InPlace DEF ThreadType
<1>3. StKept /\ (\/ Turns(Status, "each") \/ Turns(Status, "discover")
                 \/ Moves(Status, "section", thr[Status].i + 1, 0, FALSE))
  <2>1. CASE \E b : OneUp(b)
    BY <2>1, OnesUp
  <2>2. CASE NextSection /\ UNCHANGED st
    BY <2>2, InPlace, NextSectioning DEF StKept
  <2>3. CASE /\ thr' = [thr EXCEPT ![Status].pc = "each", ![Status].j = thr[Status].n + 1]
             /\ UNCHANGED st
    <3>. PICK k \in Nat : k = thr[Status].n + 1
      BY <1>2
    <3>. QED BY <2>3, InPlace, Counting DEF StatusPlaces, Visiting, StKept
  <2>. QED BY <2>1, <2>2, <2>3 DEF Tested
<1>4. TypeInv'
  BY <1>1, <1>2, <1>3 DEF IInv, TypeInv, Moves, Turns, CtlInv, CtlShape, QueryPlaces,
     StatusPlaces, Visiting, Retesting, Threads, ServersAssumption, StKept, Kept
<1>5. Locked'
  BY <1>1, <1>2, <1>3 DEF IInv, ControlInv, TypeInv, Locked, Moves, Turns, Owning, Threads,
     ServersAssumption
<1>6. Counted'
  BY <1>1, <1>2, <1>3, Stayed DEF IInv, ControlInv, TypeInv, Counted, Moves, Turns, Using,
     Threads, StKept
<1>7. StaleInv'
  BY <1>1, <1>2, <1>3, InPlace DEF IInv, ControlInv, StaleInv, Moves, Turns
<1>8. StartInv'
  BY <1>1, <1>2, <1>3 DEF IInv, ControlInv, StartInv, Moves, Turns, Threads,
     ServersAssumption
<1>9. PassInv'
  BY <1>1, <1>2, <1>3, InPlace DEF IInv, ControlInv, PassInv, StaleInv, Moves, Turns, Kept,
     Visiting, Retesting, StKept
<1>10. OnQueryInv'
  BY <1>1, <1>2, <1>3 DEF IInv, ControlInv, OnQueryInv, Moves, Turns, Threads,
     ServersAssumption
<1>11. TestInBounds'
  BY <1>1, <1>2, <1>3, InPlace DEF TestInBounds, Moves, Turns, Kept, Retesting, Threads
<1>12. NoLostBroadcast'
  BY <1>1, <1>2, <1>3 DEF IInv, ControlInv, TypeInv, NoLostBroadcast, Counted
<1>. QED BY <1>4, <1>5, <1>6, <1>7, <1>8, <1>9, <1>10, <1>11, <1>12 DEF IInv, ControlInv

\* Who uses the data is counted.
LEMMA Used ==
  ASSUME ServersAssumption, IInv, NEW t \in Threads, thr[t].pc \in Using
  PROVE  server_data_users - 1 \in Nat
<1>1. t \in AtPlaces(Using)
  BY DEF AtPlaces
<1>2. server_data_users = Cardinality(AtPlaces(Using)) /\ server_data_users \in Nat
  BY DEF IInv, TypeInv, ControlInv, Counted
<1>3. server_data_users # 0
  BY <1>1, <1>2, Finitely
<1>. QED BY <1>2, <1>3

\* The thread starts (pthread_mutex_lock at the head of servstat_thread).
LEMMA CreatedKeeps ==
  ASSUME ServersAssumption, IInv, Created
  PROVE  IInv'
<1>1. /\ UNCHANGED <<servers, server_data_users, server_status_ping, retest_flag, schm>>
      /\ UNCHANGED <<asleep, st, servstat_thrid, ctl, main>>
  BY DEF Created, counts, flags, OnlyStatus
<1>2. thr[Status].pc = "new" /\ lock = Free /\ lock' = Status /\ signal_interrupt' = FALSE
  BY DEF Created
<1>3. Turns(Status, "pass")
  BY InPlace, Going DEF Created, StatusPlaces, Visiting
<1>4. TypeInv'
  <2>1. thr'[Status].pc \in StatusPlaces /\ \A u \in Queriers : thr'[u].pc \in QueryPlaces
    BY <1>1, <1>2, <1>3, InPlace DEF IInv, TypeInv, Moves, Turns, QueryPlaces, StatusPlaces,
       Visiting,
       Retesting, Threads, ServersAssumption
  <2>. QED BY <1>1, <1>2, <1>3, <2>1 DEF IInv, TypeInv, Moves, Turns, CtlInv, CtlShape, Threads
<1>5. Locked'
  BY <1>1, <1>2, <1>3 DEF IInv, ControlInv, TypeInv, Locked, Moves, Turns, Owning, Threads,
     ServersAssumption
<1>6. Counted'
  BY <1>1, <1>2, <1>3, Stayed DEF IInv, ControlInv, TypeInv, Counted, Moves, Turns, Using,
     Threads
<1>7. StaleInv'
  BY <1>1, <1>2, <1>3, InPlace DEF IInv, ControlInv, StaleInv, Moves, Turns
<1>8. StartInv'
  BY <1>1, <1>2, <1>3 DEF IInv, ControlInv, StartInv, Moves, Turns, Threads,
     ServersAssumption
<1>9. PassInv'
  BY <1>1, <1>2, <1>3, InPlace DEF IInv, ControlInv, PassInv, StaleInv, Moves, Turns, Kept,
     Visiting, Retesting
<1>10. OnQueryInv'
  BY <1>1, <1>2, <1>3 DEF IInv, ControlInv, OnQueryInv, Moves, Turns, Threads,
     ServersAssumption
<1>11. TestInBounds'
  BY <1>1, <1>2, <1>3, InPlace DEF TestInBounds, Moves, Turns, Kept, Retesting, Threads
<1>12. NoLostBroadcast'
  BY <1>1, <1>2, <1>3 DEF IInv, ControlInv, TypeInv, NoLostBroadcast, Counted
<1>. QED BY <1>4, <1>5, <1>6, <1>7, <1>8, <1>9, <1>10, <1>11, <1>12 DEF IInv, ControlInv

\* Discovery lets go of the lock, as a user of the data.
LEMMA ResolvKeeps ==
  ASSUME ServersAssumption, IInv, resolv_rootserver_addrs
  PROVE  IInv'
<1>1. /\ UNCHANGED <<servers, server_status_ping, signal_interrupt, retest_flag, schm>>
      /\ UNCHANGED <<asleep, st, servstat_thrid, ctl, main>>
  BY DEF resolv_rootserver_addrs, counts, flags, OnlyStatus
<1>2. /\ thr[Status].pc = "discover" /\ lock' = Free
      /\ server_data_users' = server_data_users + 1
  BY DEF resolv_rootserver_addrs, Enter
<1>3. Turns(Status, "resolving")
  BY InPlace, Going DEF resolv_rootserver_addrs, StatusPlaces, Visiting
<1>4. TypeInv'
  BY <1>1, <1>2, <1>3 DEF IInv, TypeInv, Moves, Turns, CtlInv, CtlShape, QueryPlaces,
     StatusPlaces, Visiting, Retesting, Threads, ServersAssumption
<1>5. Locked'
  BY <1>1, <1>2, <1>3 DEF IInv, ControlInv, TypeInv, Locked, Moves, Turns, Owning, Threads,
     ServersAssumption
<1>6. Counted'
  BY <1>1, <1>2, <1>3, Entered DEF IInv, ControlInv, TypeInv, Counted, Moves, Turns, Using,
     Threads
<1>7. StaleInv'
  BY <1>1, <1>2, <1>3, InPlace DEF IInv, ControlInv, StaleInv, Moves, Turns
<1>8. StartInv'
  BY <1>1, <1>2, <1>3 DEF IInv, ControlInv, StartInv, Moves, Turns, Threads,
     ServersAssumption
<1>9. PassInv'
  BY <1>1, <1>2, <1>3, InPlace DEF IInv, ControlInv, PassInv, StaleInv, Moves, Turns, Kept,
     Visiting, Retesting
<1>10. OnQueryInv'
  BY <1>1, <1>2, <1>3 DEF IInv, ControlInv, OnQueryInv, Moves, Turns, Threads,
     ServersAssumption
<1>11. TestInBounds'
  BY <1>1, <1>2, <1>3, InPlace DEF TestInBounds, Moves, Turns, Kept, Retesting, Threads
<1>12. NoLostBroadcast'
  BY <1>1, <1>2, <1>3 DEF IInv, ControlInv, TypeInv, NoLostBroadcast, Counted
<1>. QED BY <1>4, <1>5, <1>6, <1>7, <1>8, <1>9, <1>10, <1>11, <1>12 DEF IInv, ControlInv

\* The names of the root servers have been resolved.
LEMMA ResolveEndsKeeps ==
  ASSUME ServersAssumption, IInv, ResolveEnds
  PROVE  IInv'
<1>1. /\ UNCHANGED <<servers, server_status_ping, signal_interrupt, retest_flag>>
      /\ UNCHANGED <<schm, servstat_thrid, ctl, main>>
  BY DEF ResolveEnds, counts, flags, OnlyStatus
<1>2. /\ thr[Status].pc = "resolving" /\ lock = Free /\ lock' = Status
      /\ server_data_users' = server_data_users - 1
      /\ asleep' = IF server_data_users = 1 THEN {} ELSE asleep
  BY DEF ResolveEnds, Leave
<1>3. StKept /\ (Turns(Status, "exclusive") \/ Moves(Status, "section", thr[Status].i + 1, 0, FALSE))
  <2>1. PICK rs \in [RootNames -> Addresses \cup {"none"}] :
          IF Discovered(rs) # {}
          THEN /\ st' = [st EXCEPT !.adrs = Discovered(rs), !.freed = FALSE]
               /\ Go(Status, "exclusive")
          ELSE NextSection /\ KeepIf(Count > 0)
    BY DEF ResolveEnds
  <2>2. Discovered(rs) \subseteq Addresses
    BY DEF Discovered
  <2>3. CASE Discovered(rs) # {}
    <3>1. PICK new \in SUBSET Addresses : Discovered(rs) = new
      BY <2>2
    <3>2. StKept
      <4>1. st' = [st EXCEPT !.adrs = new, !.freed = FALSE]
        BY <2>1, <2>3, <3>1
      <4>2. new \in SUBSET Addresses
        OBVIOUS
      <4>. QED BY <4>1, <4>2, InPlace DEF StKept, StType
    <3>. QED BY <2>1, <2>3, <3>2, InPlace, Going DEF StatusPlaces, Visiting
  <2>4. CASE Discovered(rs) = {}
    <3>1. PICK k \in BOOLEAN : st' = [st EXCEPT !.keep = k]
      BY <2>1, <2>4 DEF KeepIf
    <3>2. StKept
      BY <3>1, InPlace DEF StKept, StType
    <3>. QED BY <2>1, <2>4, <3>2, InPlace, NextSectioning
  <2>. QED BY <2>3, <2>4
<1>4. server_data_users - 1 \in Nat
  BY <1>2, InPlace, Used DEF Using
<1>5. TypeInv'
  BY <1>1, <1>2, <1>3, <1>4 DEF IInv, TypeInv, Moves, Turns, CtlInv, CtlShape, QueryPlaces,
     StatusPlaces, Visiting, Retesting, Threads, ServersAssumption, StKept
<1>6. Locked'
  BY <1>1, <1>2, <1>3, <1>4 DEF IInv, ControlInv, TypeInv, Locked, Moves, Turns, Owning,
     Threads, ServersAssumption
<1>7. Counted'
  BY <1>1, <1>2, <1>3, <1>4, Left DEF IInv, ControlInv, TypeInv, Counted, Moves, Turns,
     Using, Threads, StKept
<1>8. StaleInv'
  BY <1>1, <1>2, <1>3, <1>4, InPlace DEF IInv, ControlInv, StaleInv, Moves, Turns
<1>9. StartInv'
  BY <1>1, <1>2, <1>3, <1>4 DEF IInv, ControlInv, StartInv, Moves, Turns, Threads,
     ServersAssumption
<1>10. PassInv'
  BY <1>1, <1>2, <1>3, <1>4, InPlace DEF IInv, ControlInv, PassInv, StaleInv, Moves, Turns,
     Kept, Visiting, Retesting, StKept
<1>11. OnQueryInv'
  BY <1>1, <1>2, <1>3, <1>4 DEF IInv, ControlInv, OnQueryInv, Moves, Turns, Threads,
     ServersAssumption
<1>12. TestInBounds'
  BY <1>1, <1>2, <1>3, <1>4, InPlace DEF TestInBounds, Moves, Turns, Kept, Retesting,
     Threads
<1>13. NoLostBroadcast'
  BY <1>1, <1>2, <1>3, <1>4 DEF IInv, ControlInv, TypeInv, NoLostBroadcast, Counted
<1>. QED BY <1>5, <1>6, <1>7, <1>8, <1>9, <1>10, <1>11, <1>12, <1>13 DEF IInv, ControlInv

\* Discovery waits for the users of the data.
LEMMA AwaitRootsKeeps ==
  ASSUME ServersAssumption, IInv, AwaitRoots
  PROVE  IInv'
<1>1. /\ UNCHANGED <<servers, server_data_users, server_status_ping, signal_interrupt, retest_flag>>
      /\ UNCHANGED <<schm, st, servstat_thrid, ctl, main>>
  BY DEF AwaitRoots, counts, flags, OnlyStatus
<1>2. /\ thr[Status].pc = "exclusive" /\ server_data_users > 0
      /\ asleep' = asleep \cup {Status} /\ lock' = Free
  BY DEF AwaitRoots
<1>3. Turns(Status, "waiting")
  BY InPlace, Going DEF AwaitRoots, StatusPlaces, Visiting
<1>4. TypeInv'
  BY <1>1, <1>2, <1>3 DEF IInv, TypeInv, Moves, Turns, CtlInv, CtlShape, QueryPlaces,
     StatusPlaces, Visiting, Retesting, Threads, ServersAssumption
<1>5. Locked'
  BY <1>1, <1>2, <1>3 DEF IInv, ControlInv, TypeInv, Locked, Moves, Turns, Owning, Threads,
     ServersAssumption
<1>6. Counted'
  BY <1>1, <1>2, <1>3, Stayed DEF IInv, ControlInv, TypeInv, Counted, Moves, Turns, Using,
     Threads
<1>7. StaleInv'
  BY <1>1, <1>2, <1>3, InPlace DEF IInv, ControlInv, StaleInv, Moves, Turns
<1>8. StartInv'
  BY <1>1, <1>2, <1>3 DEF IInv, ControlInv, StartInv, Moves, Turns, Threads,
     ServersAssumption
<1>9. PassInv'
  BY <1>1, <1>2, <1>3, InPlace DEF IInv, ControlInv, PassInv, StaleInv, Moves, Turns, Kept,
     Visiting, Retesting
<1>10. OnQueryInv'
  BY <1>1, <1>2, <1>3 DEF IInv, ControlInv, OnQueryInv, Moves, Turns, Threads,
     ServersAssumption
<1>11. TestInBounds'
  BY <1>1, <1>2, <1>3, InPlace DEF TestInBounds, Moves, Turns, Kept, Retesting, Threads
<1>12. NoLostBroadcast'
  BY <1>1, <1>2, <1>3 DEF IInv, ControlInv, TypeInv, NoLostBroadcast, Counted
<1>. QED BY <1>4, <1>5, <1>6, <1>7, <1>8, <1>9, <1>10, <1>11, <1>12 DEF IInv, ControlInv

\* Discovery is woken by the last user.
LEMMA RootsWokenKeeps ==
  ASSUME ServersAssumption, IInv, RootsWoken
  PROVE  IInv'
<1>1. /\ UNCHANGED <<servers, server_data_users, server_status_ping, signal_interrupt, retest_flag>>
      /\ UNCHANGED <<schm, asleep, st, servstat_thrid, ctl, main>>
  BY DEF RootsWoken, counts, flags, OnlyStatus
<1>2. thr[Status].pc = "waiting" /\ lock = Free /\ lock' = Status
  BY DEF RootsWoken
<1>3. Turns(Status, "exclusive")
  BY InPlace, Going DEF RootsWoken, StatusPlaces, Visiting
<1>4. TypeInv'
  BY <1>1, <1>2, <1>3 DEF IInv, TypeInv, Moves, Turns, CtlInv, CtlShape, QueryPlaces,
     StatusPlaces, Visiting, Retesting, Threads, ServersAssumption
<1>5. Locked'
  BY <1>1, <1>2, <1>3 DEF IInv, ControlInv, TypeInv, Locked, Moves, Turns, Owning, Threads,
     ServersAssumption
<1>6. Counted'
  BY <1>1, <1>2, <1>3, Stayed DEF IInv, ControlInv, TypeInv, Counted, Moves, Turns, Using,
     Threads
<1>7. StaleInv'
  BY <1>1, <1>2, <1>3, InPlace DEF IInv, ControlInv, StaleInv, Moves, Turns
<1>8. StartInv'
  BY <1>1, <1>2, <1>3 DEF IInv, ControlInv, StartInv, Moves, Turns, Threads,
     ServersAssumption
<1>9. PassInv'
  BY <1>1, <1>2, <1>3, InPlace DEF IInv, ControlInv, PassInv, StaleInv, Moves, Turns, Kept,
     Visiting, Retesting
<1>10. OnQueryInv'
  BY <1>1, <1>2, <1>3 DEF IInv, ControlInv, OnQueryInv, Moves, Turns, Threads,
     ServersAssumption
<1>11. TestInBounds'
  BY <1>1, <1>2, <1>3, InPlace DEF TestInBounds, Moves, Turns, Kept, Retesting, Threads
<1>12. NoLostBroadcast'
  BY <1>1, <1>2, <1>3 DEF IInv, ControlInv, TypeInv, NoLostBroadcast, Counted
<1>. QED BY <1>4, <1>5, <1>6, <1>7, <1>8, <1>9, <1>10, <1>11, <1>12 DEF IInv, ControlInv

\* Discovery's wait times out.
LEMMA RootsTimeoutKeeps ==
  ASSUME ServersAssumption, IInv, RootsTimeout
  PROVE  IInv'
<1>1. /\ UNCHANGED <<servers, server_data_users, server_status_ping, signal_interrupt>>
      /\ UNCHANGED <<retest_flag, schm, servstat_thrid, ctl, main>>
  BY DEF RootsTimeout, counts, flags, OnlyStatus
<1>2. /\ thr[Status].pc = "waiting" /\ lock = Free /\ lock' = Status
      /\ asleep' = asleep \ {Status}
  BY DEF RootsTimeout
<1>3. StKept
  BY InPlace DEF RootsTimeout, StKept, StType
<1>4. Turns(Status, "exclusive") \/ Turns(Status, "crashed")
  BY InPlace, Going DEF RootsTimeout, StatusPlaces, Visiting
<1>5. TypeInv'
  BY <1>1, <1>2, <1>3, <1>4 DEF IInv, TypeInv, Moves, Turns, CtlInv, CtlShape, QueryPlaces,
     StatusPlaces, Visiting, Retesting, Threads, ServersAssumption, StKept
<1>6. Locked'
  BY <1>1, <1>2, <1>3, <1>4 DEF IInv, ControlInv, TypeInv, Locked, Moves, Turns, Owning,
     Threads, ServersAssumption
<1>7. Counted'
  BY <1>1, <1>2, <1>3, <1>4, Stayed DEF IInv, ControlInv, TypeInv, Counted, Moves, Turns,
     Using, Threads, StKept
<1>8. StaleInv'
  BY <1>1, <1>2, <1>3, <1>4, InPlace DEF IInv, ControlInv, StaleInv, Moves, Turns
<1>9. StartInv'
  BY <1>1, <1>2, <1>3, <1>4 DEF IInv, ControlInv, StartInv, Moves, Turns, Threads,
     ServersAssumption
<1>10. PassInv'
  BY <1>1, <1>2, <1>3, <1>4, InPlace DEF IInv, ControlInv, PassInv, StaleInv, Moves, Turns,
     Kept, Visiting, Retesting, StKept
<1>11. OnQueryInv'
  BY <1>1, <1>2, <1>3, <1>4 DEF IInv, ControlInv, OnQueryInv, Moves, Turns, Threads,
     ServersAssumption
<1>12. TestInBounds'
  BY <1>1, <1>2, <1>3, <1>4, InPlace DEF TestInBounds, Moves, Turns, Kept, Retesting,
     Threads
<1>13. NoLostBroadcast'
  BY <1>1, <1>2, <1>3, <1>4 DEF IInv, ControlInv, TypeInv, NoLostBroadcast, Counted
<1>. QED BY <1>5, <1>6, <1>7, <1>8, <1>9, <1>10, <1>11, <1>12, <1>13 DEF IInv, ControlInv

\* Discovery has found no memory.
LEMMA NoRootsKeeps ==
  ASSUME ServersAssumption, IInv, NoRoots
  PROVE  IInv'
<1>1. /\ UNCHANGED <<servers, server_data_users, server_status_ping, signal_interrupt, retest_flag>>
      /\ UNCHANGED <<schm, lock, asleep, servstat_thrid, ctl, main>>
  BY DEF NoRoots, counts, flags, OnlyStatus
<1>2. thr[Status].pc = "exclusive" /\ ~ thr[Status].stale
  BY DEF NoRoots
<1>3. StKept
  BY InPlace DEF NoRoots, StKept, StType
<1>4. Moves(Status, "section", thr[Status].i + 1, 0, FALSE)
  BY InPlace, NextSectioning DEF NoRoots
<1>5. TypeInv'
  BY <1>1, <1>2, <1>3, <1>4 DEF IInv, TypeInv, Moves, Turns, CtlInv, CtlShape, QueryPlaces,
     StatusPlaces, Visiting, Retesting, Threads, ServersAssumption, StKept
<1>6. Locked'
  BY <1>1, <1>2, <1>3, <1>4 DEF IInv, ControlInv, TypeInv, Locked, Moves, Turns, Owning,
     Threads, ServersAssumption
<1>7. Counted'
  BY <1>1, <1>2, <1>3, <1>4, Stayed DEF IInv, ControlInv, TypeInv, Counted, Moves, Turns,
     Using, Threads, StKept
<1>8. StaleInv'
  BY <1>1, <1>2, <1>3, <1>4, InPlace DEF IInv, ControlInv, StaleInv, Moves, Turns
<1>9. StartInv'
  BY <1>1, <1>2, <1>3, <1>4 DEF IInv, ControlInv, StartInv, Moves, Turns, Threads,
     ServersAssumption
<1>10. PassInv'
  BY <1>1, <1>2, <1>3, <1>4, InPlace DEF IInv, ControlInv, PassInv, StaleInv, Moves, Turns,
     Kept, Visiting, Retesting, StKept
<1>11. OnQueryInv'
  BY <1>1, <1>2, <1>3, <1>4 DEF IInv, ControlInv, OnQueryInv, Moves, Turns, Threads,
     ServersAssumption
<1>12. TestInBounds'
  BY <1>1, <1>2, <1>3, <1>4, InPlace DEF TestInBounds, Moves, Turns, Kept, Retesting,
     Threads
<1>13. NoLostBroadcast'
  BY <1>1, <1>2, <1>3, <1>4 DEF IInv, ControlInv, TypeInv, NoLostBroadcast, Counted
<1>. QED BY <1>5, <1>6, <1>7, <1>8, <1>9, <1>10, <1>11, <1>12, <1>13 DEF IInv, ControlInv

\* Discovery writes to a section that is gone, and goes on or crashes.
LEMMA RootsLostKeeps ==
  ASSUME ServersAssumption, IInv, RootsLost
  PROVE  IInv'
<1>1. /\ UNCHANGED <<servers, server_data_users, server_status_ping, signal_interrupt, retest_flag>>
      /\ UNCHANGED <<schm, lock, asleep, servstat_thrid, ctl, main>> /\ thr[Status].pc = "exclusive"
  BY DEF RootsLost, counts, flags, OnlyStatus
<1>2. StKept
  BY InPlace DEF RootsLost, StKept, StType
<1>3. \/ Turns(Status, "crashed")
      \/ st.n <= Len(servers) /\ Moves(Status, "section", thr[Status].i + 1, 0, FALSE)
  BY InPlace, Going, NextSectioning DEF RootsLost, StatusPlaces
<1>4. TypeInv'
  BY <1>1, <1>2, <1>3 DEF IInv, TypeInv, Moves, Turns, CtlInv, CtlShape, QueryPlaces,
     StatusPlaces, Visiting, Retesting, Threads, ServersAssumption, StKept
<1>5. Locked'
  BY <1>1, <1>2, <1>3 DEF IInv, ControlInv, TypeInv, Locked, Moves, Turns, Owning, Threads,
     ServersAssumption
<1>6. Counted'
  BY <1>1, <1>2, <1>3, Stayed DEF IInv, ControlInv, TypeInv, Counted, Moves, Turns, Using,
     Threads, StKept
<1>7. StaleInv'
  BY <1>1, <1>2, <1>3, InPlace DEF IInv, ControlInv, StaleInv, Moves, Turns
<1>8. StartInv'
  BY <1>1, <1>2, <1>3 DEF IInv, ControlInv, StartInv, Moves, Turns, Threads,
     ServersAssumption
<1>9. PassInv'
  BY <1>1, <1>2, <1>3, InPlace DEF IInv, ControlInv, PassInv, StaleInv, Moves, Turns, Kept,
     Visiting, Retesting, StKept
<1>10. OnQueryInv'
  BY <1>1, <1>2, <1>3 DEF IInv, ControlInv, OnQueryInv, Moves, Turns, Threads,
     ServersAssumption
<1>11. TestInBounds'
  BY <1>1, <1>2, <1>3, InPlace DEF TestInBounds, Moves, Turns, Kept, Retesting, Threads
<1>12. NoLostBroadcast'
  BY <1>1, <1>2, <1>3 DEF IInv, ControlInv, TypeInv, NoLostBroadcast, Counted
<1>. QED BY <1>4, <1>5, <1>6, <1>7, <1>8, <1>9, <1>10, <1>11, <1>12 DEF IInv, ControlInv

\* A pass ends: another one, sleep, or the end of the thread.
LEMMA PassEndsKeeps ==
  ASSUME ServersAssumption, IInv, PassEnds
  PROVE  IInv'
<1>1. /\ UNCHANGED <<servers, server_data_users, server_status_ping, retest_flag>>
      /\ UNCHANGED <<schm, asleep, ctl, main>> /\ thr[Status].pc = "section"
  BY DEF PassEnds, counts, flags, OnlyStatus
<1>2. Minwait \in {"none", "short", "interval"}
  BY DEF Minwait
<1>3. StKept /\ signal_interrupt' \in BOOLEAN
  <2>1. PICK w \in {"none", "short", "interval"} : w = Minwait
    BY <1>2
  <2>2. signal_interrupt' \in BOOLEAN
    BY DEF PassEnds, IInv, TypeInv
  <2>3. UNCHANGED st \/ st' = [st EXCEPT !.signalled = FALSE, !.wait = w]
    BY <2>1 DEF PassEnds
  <2>4. StKept
    BY <2>3, InPlace DEF StKept, StType
  <2>. QED BY <2>2, <2>4
<1>4. \/ /\ Turns(Status, "pass") /\ UNCHANGED <<servstat_thrid, lock>>
      \/ /\ Turns(Status, "sleeping") /\ UNCHANGED servstat_thrid /\ lock' = Free
      \/ /\ Turns(Status, "off") /\ servstat_thrid' = "main" /\ lock' = Free
  BY InPlace, Going DEF PassEnds, StatusPlaces
<1>5. TypeInv'
  BY <1>1, <1>2, <1>3, <1>4 DEF IInv, TypeInv, Moves, Turns, CtlInv, CtlShape, QueryPlaces,
     StatusPlaces, Visiting, Retesting, Threads, ServersAssumption, StKept
<1>6. Locked'
  BY <1>1, <1>2, <1>3, <1>4 DEF IInv, ControlInv, TypeInv, Locked, Moves, Turns, Owning,
     Threads, ServersAssumption
<1>7. Counted'
  BY <1>1, <1>2, <1>3, <1>4, Stayed DEF IInv, ControlInv, TypeInv, Counted, Moves, Turns,
     Using, Threads, StKept
<1>8. StaleInv'
  BY <1>1, <1>2, <1>3, <1>4, InPlace DEF IInv, ControlInv, StaleInv, Moves, Turns
<1>9. StartInv'
  BY <1>1, <1>2, <1>3, <1>4 DEF IInv, ControlInv, StartInv, Moves, Turns, Threads,
     ServersAssumption
<1>10. PassInv'
  BY <1>1, <1>2, <1>3, <1>4, InPlace DEF IInv, ControlInv, PassInv, StaleInv, Moves, Turns,
     Kept, Visiting, Retesting, StKept
<1>11. OnQueryInv'
  BY <1>1, <1>2, <1>3, <1>4 DEF IInv, ControlInv, OnQueryInv, Moves, Turns, Threads,
     ServersAssumption
<1>12. TestInBounds'
  BY <1>1, <1>2, <1>3, <1>4, InPlace DEF TestInBounds, Moves, Turns, Kept, Retesting,
     Threads
<1>13. NoLostBroadcast'
  BY <1>1, <1>2, <1>3, <1>4 DEF IInv, ControlInv, TypeInv, NoLostBroadcast, Counted
<1>. QED BY <1>5, <1>6, <1>7, <1>8, <1>9, <1>10, <1>11, <1>12, <1>13 DEF IInv, ControlInv

\* The thread wakes for another pass.
LEMMA WakeKeeps ==
  ASSUME ServersAssumption, IInv, Wake
  PROVE  IInv'
<1>1. /\ UNCHANGED <<servers, server_data_users, server_status_ping, signal_interrupt, retest_flag>>
      /\ UNCHANGED <<schm, asleep, st, servstat_thrid, ctl, main>>
  BY DEF Wake, counts, flags, OnlyStatus
<1>2. thr[Status].pc = "sleeping" /\ lock = Free /\ lock' = Status
  BY DEF Wake
<1>3. Turns(Status, "pass")
  BY InPlace, Going DEF Wake, StatusPlaces, Visiting
<1>4. TypeInv'
  BY <1>1, <1>2, <1>3 DEF IInv, TypeInv, Moves, Turns, CtlInv, CtlShape, QueryPlaces,
     StatusPlaces, Visiting, Retesting, Threads, ServersAssumption
<1>5. Locked'
  BY <1>1, <1>2, <1>3 DEF IInv, ControlInv, TypeInv, Locked, Moves, Turns, Owning, Threads,
     ServersAssumption
<1>6. Counted'
  BY <1>1, <1>2, <1>3, Stayed DEF IInv, ControlInv, TypeInv, Counted, Moves, Turns, Using,
     Threads
<1>7. StaleInv'
  BY <1>1, <1>2, <1>3, InPlace DEF IInv, ControlInv, StaleInv, Moves, Turns
<1>8. StartInv'
  BY <1>1, <1>2, <1>3 DEF IInv, ControlInv, StartInv, Moves, Turns, Threads,
     ServersAssumption
<1>9. PassInv'
  BY <1>1, <1>2, <1>3, InPlace DEF IInv, ControlInv, PassInv, StaleInv, Moves, Turns, Kept,
     Visiting, Retesting
<1>10. OnQueryInv'
  BY <1>1, <1>2, <1>3 DEF IInv, ControlInv, OnQueryInv, Moves, Turns, Threads,
     ServersAssumption
<1>11. TestInBounds'
  BY <1>1, <1>2, <1>3, InPlace DEF TestInBounds, Moves, Turns, Kept, Retesting, Threads
<1>12. NoLostBroadcast'
  BY <1>1, <1>2, <1>3 DEF IInv, ControlInv, TypeInv, NoLostBroadcast, Counted
<1>. QED BY <1>4, <1>5, <1>6, <1>7, <1>8, <1>9, <1>10, <1>11, <1>12 DEF IInv, ControlInv

\* An element of a sequence is replaced.
LEMMA OneReplaced ==
  ASSUME NEW T, NEW s \in Seq(T), NEW i \in 1..Len(s), NEW g \in T
  PROVE  [s EXCEPT ![i] = g] \in Seq(T) /\ Len([s EXCEPT ![i] = g]) = Len(s)
  OBVIOUS

\* A section gets new addresses and another word on its root servers (discovery, or a
\* command that changes addresses).
LEMMA Replaced ==
  ASSUME servers \in Sections, NEW i, NEW u \in Seq(Atup), NEW r \in 0..2,
         servers' = [servers EXCEPT ![i].atup = u, ![i].rootserver = r]
  PROVE  servers' \in Sections /\ Len(servers') = Len(servers)
<1>1. CASE i \in 1..Len(servers)
  <2>1. servers[i] \in servparm_t(Atup)
    BY <1>1, Sectioned
  <2>2. PICK g : g = [servers[i] EXCEPT !.atup = u, !.rootserver = r]
    OBVIOUS
  <2>3. g \in servparm_t(Atup)
    BY <2>1, <2>2 DEF servparm_t
  <2>4. servers' = [servers EXCEPT ![i] = g]
    BY <1>1, <2>2 DEF Sections
  <2>5. [servers EXCEPT ![i] = g] \in Sections /\ Len([servers EXCEPT ![i] = g]) = Len(servers)
    BY <1>1, <2>3, OneReplaced DEF Sections
  <2>. QED BY <2>4, <2>5
<1>2. CASE i \notin 1..Len(servers)
  <2>1. servers' = servers
    BY <1>2 DEF Sections
  <2>. QED BY <2>1
<1>. QED BY <1>1, <1>2

\* Discovery replaces the addresses of a section.
LEMMA SetRootsKeeps ==
  ASSUME ServersAssumption, IInv, SetRoots
  PROVE  IInv'
<1>1. UNCHANGED <<server_data_users, server_status_ping, signal_interrupt, retest_flag, schm,
                  lock, asleep,
                  servstat_thrid, ctl, main>>
  BY DEF SetRoots, counts, flags, OnlyStatus
<1>2. /\ thr[Status].pc = "exclusive" /\ ~ thr[Status].stale /\ server_data_users = 0
      /\ thr[Status].i \in 1..Len(servers)
  BY InPlace DEF SetRoots
<1>3. Turns(Status, "tests") /\ \A t \in Threads : thr[t].pc \notin Using
  <2>1. thr' = [thr EXCEPT ![Status].pc = "tests"]
    BY <1>2, NothingFreed DEF SetRoots
  <2>2. Turns(Status, "tests")
    BY <2>1, InPlace, Going DEF Go, StatusPlaces, Visiting
  <2>. QED BY <1>2, <2>2, NothingFreed
<1>4. StKept
  BY InPlace DEF SetRoots, StKept, StType
<1>5. servers' \in Sections /\ Len(servers') = Len(servers)
  <2>1. st.adrs \in SUBSET Addresses
    BY InPlace DEF StType
  <2>2. Cardinality(st.adrs) \in Nat
    BY <2>1, FS_Subset, FS_CardinalityType DEF ServersAssumption
  <2>3. PICK ar \in [1..Cardinality(st.adrs) -> Addresses] :
          servers' = [servers EXCEPT
                        ![thr[Status].i].atup = [j \in 1..Len(ar) |-> NewAtup(Sp, ar[j])],
                        ![thr[Status].i].rootserver = 1]
    BY DEF SetRoots
  <2>4. /\ ar \in Seq(Addresses) /\ Len(ar) \in Nat
        /\ \A j \in 1..Len(ar) : ar[j] \in Addresses
    BY <2>2
  <2>5. Sp \in servparm_t(Atup)
    BY <1>2, InPlace, Sectioned DEF Sp
  <2>6. \A a \in Addresses : NewAtup(Sp, a) \in Atup
    BY <2>5 DEF NewAtup, FirstStamp, Atup, servparm_t
  <2>7. PICK u : u = [j \in 1..Len(ar) |-> NewAtup(Sp, ar[j])]
    OBVIOUS
  <2>8. u \in Seq(Atup)
    <3>1. \A j \in 1..Len(ar) : NewAtup(Sp, ar[j]) \in Atup
      BY <2>4, <2>6
    <3>. QED BY <2>4, <2>7, <3>1
  <2>9. servers' = [servers EXCEPT ![thr[Status].i].atup = u, ![thr[Status].i].rootserver = 1]
    BY <2>3, <2>7
  <2>10. servers \in Sections /\ 1 \in 0..2
    BY InPlace
  <2>. QED BY <2>8, <2>9, <2>10, Replaced
<1>6. TypeInv'
  BY <1>1, <1>2, <1>3, <1>4, <1>5 DEF IInv, TypeInv, Moves, Turns, CtlInv, CtlShape,
     QueryPlaces, StatusPlaces, Visiting, Retesting, Threads, ServersAssumption, StKept
<1>7. Locked'
  BY <1>1, <1>2, <1>3, <1>4, <1>5 DEF IInv, ControlInv, TypeInv, Locked, Moves, Turns,
     Owning, Threads, ServersAssumption
<1>8. Counted'
  BY <1>1, <1>2, <1>3, <1>4, <1>5, Stayed DEF IInv, ControlInv, TypeInv, Counted, Moves,
     Turns, Using, Threads, StKept
<1>9. StaleInv'
  BY <1>1, <1>2, <1>3, <1>4, <1>5, InPlace DEF IInv, ControlInv, StaleInv, Moves, Turns
<1>10. StartInv'
  BY <1>1, <1>2, <1>3, <1>4, <1>5 DEF IInv, ControlInv, StartInv, Moves, Turns, Threads,
     ServersAssumption
<1>11. PassInv'
  BY <1>1, <1>2, <1>3, <1>4, <1>5, InPlace DEF IInv, ControlInv, PassInv, StaleInv, Moves,
     Turns, Kept, Visiting, Retesting, StKept
<1>12. OnQueryInv'
  BY <1>1, <1>2, <1>3, <1>4, <1>5 DEF IInv, ControlInv, OnQueryInv, Moves, Turns, Threads,
     ServersAssumption
<1>13. TestInBounds'
  <2>1. \A u \in Threads : thr'[u].pc \notin Retesting
    BY <1>1, <1>2, <1>3, InPlace DEF IInv, ControlInv, Locked, Owning, Using, Retesting, Moves,
       Turns
  <2>. QED BY <2>1 DEF TestInBounds, Retesting
<1>14. NoLostBroadcast'
  BY <1>1, <1>2, <1>3, <1>4, <1>5 DEF IInv, ControlInv, TypeInv, NoLostBroadcast, Counted
<1>. QED BY <1>6, <1>7, <1>8, <1>9, <1>10, <1>11, <1>12, <1>13, <1>14 DEF IInv, ControlInv

\* retest looks whether there is something to test.
LEMMA RetestKeeps ==
  ASSUME ServersAssumption, IInv, NEW t \in Threads, retest(t)
  PROVE  IInv'
<1>1. /\ UNCHANGED <<server_data_users, server_status_ping, signal_interrupt, retest_flag>>
      /\ UNCHANGED <<servstat_thrid, lock, asleep, st, ctl, main>>
      /\ thr[t].pc = "retest" /\ lock = t
  BY DEF retest, counts, flags
<1>2. thr[t].i \in 1..Len(servers) /\ thr[t].n \in Nat /\ thr[t].n <= Len(servers[thr[t].i].atup)
  BY InPlace DEF retest, Retesting
<1>3. Kept
  BY <1>2, InPlace, Stamping, MarkingDown DEF retest, Kept, Sections
<1>4. schm' \in {"unread", "match", "other"}
  BY DEF retest, IInv, TypeInv, ReadScheme, SchemeFile
<1>5. Turns(t, "tested") \/ Turns(t, "uptest")
  BY InPlace, Going DEF retest, QueryPlaces, Retesting
<1>6. TypeInv'
  BY SMTT(20), <1>1, <1>2, <1>3, <1>4, <1>5 DEF IInv, TypeInv, Moves, Turns, CtlInv, CtlShape,
     QueryPlaces, StatusPlaces, Visiting, Retesting, Threads, ServersAssumption, Kept
<1>7. Locked'
  BY <1>1, <1>2, <1>3, <1>4, <1>5 DEF IInv, ControlInv, TypeInv, Locked, Moves, Turns,
     Owning, Threads, ServersAssumption
<1>8. Counted'
  BY <1>1, <1>2, <1>3, <1>4, <1>5, Stayed DEF IInv, ControlInv, TypeInv, Counted, Moves,
     Turns, Using, Threads
<1>9. StaleInv'
  BY <1>1, <1>2, <1>3, <1>4, <1>5, InPlace DEF IInv, ControlInv, StaleInv, Moves, Turns
<1>10. StartInv'
  BY <1>1, <1>2, <1>3, <1>4, <1>5 DEF IInv, ControlInv, StartInv, Moves, Turns, Threads,
     ServersAssumption
<1>11. PassInv'
  BY <1>1, <1>2, <1>3, <1>4, <1>5, InPlace DEF IInv, ControlInv, PassInv, StaleInv, Moves,
     Turns, Kept, Visiting, Retesting, Kept
<1>12. OnQueryInv'
  BY <1>1, <1>2, <1>3, <1>4, <1>5 DEF IInv, ControlInv, OnQueryInv, Moves, Turns, Threads,
     ServersAssumption
<1>13. TestInBounds'
  BY <1>2, <1>3, <1>5, Bounded DEF Moves, Turns
<1>14. NoLostBroadcast'
  BY <1>1, <1>2, <1>3, <1>4, <1>5 DEF IInv, ControlInv, TypeInv, NoLostBroadcast, Counted
<1>. QED BY <1>6, <1>7, <1>8, <1>9, <1>10, <1>11, <1>12, <1>13, <1>14 DEF IInv, ControlInv

\* uptest lets go of the lock, as a user of the data.
LEMMA UptestKeeps ==
  ASSUME ServersAssumption, IInv, NEW t \in Threads, uptest(t)
  PROVE  IInv'
<1>1. /\ UNCHANGED <<servers, signal_interrupt, retest_flag, schm, servstat_thrid, asleep, ctl,
                     main>>
      /\ thr[t].pc = "uptest" /\ lock = t /\ lock' = Free
      /\ server_data_users' = server_data_users + 1
  BY DEF uptest, Enter, flags
<1>2. \E ping \in BOOLEAN :
        /\ ping => t = Status
        /\ server_status_ping' = server_status_ping + (IF ping THEN 1 ELSE 0)
        /\ st' = [st EXCEPT !.ping = IF t = Status THEN ping ELSE @]
  <2>. DEFINE P == /\ t = Status /\ servstat_thrid = "status"
                 /\ servers[thr[t].i].uptest \in Pings
  <2>. WITNESS P \in BOOLEAN
  <2>. QED BY DEF uptest
<1>3. Turns(t, "testing")
  <2>1. thr' = [thr EXCEPT ![t].pc = "testing", ![t].iter = 0]
    BY DEF uptest
  <2>. QED BY <2>1, InPlace, Trying
<1>4. /\ st' \in StType /\ st'.n = st.n
      /\ server_status_ping' = IF thr'[Status].pc = "testing" /\ st'.ping THEN 1 ELSE 0
  <2>1. PICK ping \in BOOLEAN :
          /\ ping => t = Status
          /\ server_status_ping' = server_status_ping + (IF ping THEN 1 ELSE 0)
          /\ st' = [st EXCEPT !.ping = IF t = Status THEN ping ELSE @]
    BY <1>2
  <2>2. server_status_ping = IF thr[Status].pc = "testing" /\ st.ping THEN 1 ELSE 0
    BY DEF IInv, ControlInv, Counted
  <2>3. /\ st' \in StType /\ st'.n = st.n
        /\ st'.ping = IF t = Status THEN ping ELSE st.ping
    BY <2>1, InPlace DEF StType
  <2>. QED BY <1>1, <1>3, <2>1, <2>2, <2>3, InPlace DEF Turns, Moves
<1>5. TypeInv'
  BY <1>1, <1>2, <1>3, <1>4 DEF IInv, TypeInv, Moves, Turns, CtlInv, CtlShape, QueryPlaces,
     StatusPlaces, Visiting, Retesting, Threads, ServersAssumption
<1>6. Locked'
  BY <1>1, <1>2, <1>3, <1>4 DEF IInv, ControlInv, TypeInv, Locked, Moves, Turns, Owning,
     Threads, ServersAssumption
<1>7. Counted'
  BY <1>1, <1>2, <1>3, <1>4, Entered DEF IInv, ControlInv, TypeInv, Counted, Moves, Turns,
     Using, Threads
<1>8. StaleInv'
  BY <1>1, <1>2, <1>3, <1>4, InPlace DEF IInv, ControlInv, StaleInv, Moves, Turns
<1>9. StartInv'
  BY <1>1, <1>2, <1>3, <1>4 DEF IInv, ControlInv, StartInv, Moves, Turns, Threads,
     ServersAssumption
<1>10. PassInv'
  BY <1>1, <1>2, <1>3, <1>4, InPlace DEF IInv, ControlInv, PassInv, StaleInv, Moves, Turns,
     Kept, Visiting, Retesting
<1>11. OnQueryInv'
  BY <1>1, <1>2, <1>3, <1>4 DEF IInv, ControlInv, OnQueryInv, Moves, Turns, Threads,
     ServersAssumption
<1>12. TestInBounds'
  BY <1>1, <1>2, <1>3, <1>4, InPlace DEF TestInBounds, Moves, Turns, Kept, Retesting,
     Threads
<1>13. NoLostBroadcast'
  BY <1>1, <1>2, <1>3, <1>4 DEF IInv, ControlInv, TypeInv, NoLostBroadcast, Counted
<1>. QED BY <1>5, <1>6, <1>7, <1>8, <1>9, <1>10, <1>11, <1>12, <1>13 DEF IInv, ControlInv

\* query_uptest tries again.
LEMMA TryAgainKeeps ==
  ASSUME ServersAssumption, IInv, NEW t \in Threads, TryAgain(t)
  PROVE  IInv'
<1>1. /\ UNCHANGED <<servers, server_data_users, server_status_ping, signal_interrupt, retest_flag>>
      /\ UNCHANGED <<schm, servstat_thrid, lock, asleep, st, ctl, main>>
      /\ thr[t].pc = "testing"
  BY DEF TryAgain, counts, flags
<1>2. Turns(t, "testing")
  <2>1. thr[t].iter + 1 \in Nat
    BY InPlace DEF ThreadType
  <2>2. PICK k \in Nat : thr' = [thr EXCEPT ![t].iter = k]
    BY <2>1 DEF TryAgain
  <2>. QED BY <1>1, <2>2, InPlace, Trying
<1>3. thr[t].i \in 1..Len(servers) /\ thr[t].n \in Nat /\ thr[t].n <= Len(servers[thr[t].i].atup)
  BY <1>1, InPlace DEF Retesting
<1>4. TypeInv'
  BY <1>1, <1>2, <1>3 DEF IInv, TypeInv, Moves, Turns, CtlInv, CtlShape, QueryPlaces,
     StatusPlaces, Visiting, Retesting, Threads, ServersAssumption
<1>5. Locked'
  BY <1>1, <1>2, <1>3 DEF IInv, ControlInv, TypeInv, Locked, Moves, Turns, Owning, Threads,
     ServersAssumption
<1>6. Counted'
  BY <1>1, <1>2, <1>3, Stayed DEF IInv, ControlInv, TypeInv, Counted, Moves, Turns, Using,
     Threads
<1>7. StaleInv'
  BY <1>1, <1>2, <1>3, InPlace DEF IInv, ControlInv, StaleInv, Moves, Turns
<1>8. StartInv'
  BY <1>1, <1>2, <1>3 DEF IInv, ControlInv, StartInv, Moves, Turns, Threads,
     ServersAssumption
<1>9. PassInv'
  BY <1>1, <1>2, <1>3, InPlace DEF IInv, ControlInv, PassInv, StaleInv, Moves, Turns, Kept,
     Visiting, Retesting
<1>10. OnQueryInv'
  BY <1>1, <1>2, <1>3 DEF IInv, ControlInv, OnQueryInv, Moves, Turns, Threads,
     ServersAssumption
<1>11. TestInBounds'
  BY <1>1, <1>2, <1>3, InPlace DEF TestInBounds, Moves, Turns, Kept, Retesting, Threads
<1>12. NoLostBroadcast'
  BY <1>1, <1>2, <1>3 DEF IInv, ControlInv, TypeInv, NoLostBroadcast, Counted
<1>. QED BY <1>4, <1>5, <1>6, <1>7, <1>8, <1>9, <1>10, <1>11, <1>12 DEF IInv, ControlInv

\* A test ends, and retest goes on with its result.
LEMMA UptestEndsKeeps ==
  ASSUME ServersAssumption, IInv, NEW t \in Threads, UptestEnds(t)
  PROVE  IInv'
<1>1. /\ UNCHANGED <<signal_interrupt, retest_flag, schm, servstat_thrid, st, ctl, main>>
      /\ thr[t].pc = "testing" /\ lock = Free /\ lock' = t
      /\ server_data_users' = server_data_users - 1
      /\ asleep' = IF server_data_users = 1 THEN {} ELSE asleep
  BY DEF UptestEnds, Leave, flags
<1>2. thr[t].i \in 1..Len(servers) /\ thr[t].n \in Nat /\ thr[t].n <= Len(servers[thr[t].i].atup)
  BY InPlace DEF UptestEnds, Retesting
<1>3. Kept
  <2>. DEFINE i == thr[t].i
              J == IF servers[i].uptest \in {"ping", "query"} THEN {thr[t].j} ELSE thr[t].j .. thr[t].n
              kept == signal_interrupt /\ servers[i].uptest \in Pings
              u(up) == [j \in 1..Len(servers[i].atup) |->
                         IF j \in J THEN [servers[i].atup[j] EXCEPT !.is_up = up,
                                                         !.i_ts = IF kept THEN @ ELSE "fresh"]
                         ELSE servers[i].atup[j]]
  <2>1. PICK up \in BOOLEAN : servers' = [servers EXCEPT ![i].atup = u(up)]
    BY DEF UptestEnds, Update
  <2>2. i \in 1..Len(servers) /\ servers \in Sections
    BY <1>2, InPlace
  <2>. HIDE DEF i, J, kept
  <2>3. u(up) \in [1..Len(servers[i].atup) -> Atup]
    BY <2>2, Sectioned DEF Atup
  <2>. QED BY <2>1, <2>2, <2>3, NewAddresses
<1>4. server_status_ping' = server_status_ping - (IF t = Status /\ st.ping THEN 1 ELSE 0)
  BY DEF UptestEnds
<1>5. Turns(t, "tested") \/ Turns(t, "uptest")
  <2>1. thr[t].j + 1 \in Nat
    BY InPlace DEF ThreadType
  <2>2. Go(t, "tested") \/ \E k \in Nat : thr' = [thr EXCEPT ![t].pc = "uptest", ![t].j = k]
    BY <2>1 DEF UptestEnds
  <2>. QED BY <2>2, InPlace, Going, Counting DEF QueryPlaces, Retesting
<1>6. server_data_users - 1 \in Nat
  BY <1>1, Used DEF Using
<1>7. TypeInv'
  BY SMTT(20), <1>1, <1>2, <1>3, <1>4, <1>5, <1>6 DEF IInv, TypeInv, Moves, Turns, CtlInv, CtlShape,
     QueryPlaces, StatusPlaces, Visiting, Retesting, Threads, ServersAssumption, Kept
<1>8. Locked'
  BY <1>1, <1>2, <1>3, <1>4, <1>5, <1>6 DEF IInv, ControlInv, TypeInv, Locked, Moves, Turns,
     Owning, Threads, ServersAssumption
<1>9. Counted'
  BY <1>1, <1>2, <1>3, <1>4, <1>5, <1>6, Left DEF IInv, ControlInv, TypeInv, Counted, Moves,
     Turns, Using, Threads
<1>10. StaleInv'
  BY <1>1, <1>2, <1>3, <1>4, <1>5, <1>6, InPlace DEF IInv, ControlInv, StaleInv, Moves,
     Turns
<1>11. StartInv'
  BY <1>1, <1>2, <1>3, <1>4, <1>5, <1>6 DEF IInv, ControlInv, StartInv, Moves, Turns,
     Threads, ServersAssumption
<1>12. PassInv'
  BY <1>1, <1>2, <1>3, <1>4, <1>5, <1>6, InPlace DEF IInv, ControlInv, PassInv, StaleInv,
     Moves, Turns, Kept, Visiting, Retesting, Kept
<1>13. OnQueryInv'
  BY <1>1, <1>2, <1>3, <1>4, <1>5, <1>6 DEF IInv, ControlInv, OnQueryInv, Moves, Turns,
     Threads, ServersAssumption
<1>14. TestInBounds'
  BY <1>2, <1>3, <1>5, Bounded DEF Moves, Turns
<1>15. NoLostBroadcast'
  BY <1>1, <1>2, <1>3, <1>4, <1>5, <1>6 DEF IInv, ControlInv, TypeInv, NoLostBroadcast,
     Counted
<1>. QED BY <1>7, <1>8, <1>9, <1>10, <1>11, <1>12, <1>13, <1>14, <1>15 DEF IInv, ControlInv

\* A query thread begins to test the sections with interval=onquery.
LEMMA TestOnqueryKeeps ==
  ASSUME ServersAssumption, IInv, NEW q \in Queriers, test_onquery(q)
  PROVE  IInv'
<1>1. q \in Threads /\ q # Status
  BY DEF Threads, ServersAssumption
<1>2. /\ UNCHANGED <<servers, server_data_users, server_status_ping, signal_interrupt, retest_flag>>
      /\ UNCHANGED <<servstat_thrid, asleep, st, ctl, main>>
      /\ schm' = "unread" /\ thr[q].pc = "idle" /\ main = "running" /\ lock = Free /\ lock' = q
  BY DEF test_onquery, counts, flags
<1>3. Moves(q, "onquery", 1, thr[q].n, thr[q].stale)
  <2>1. thr' = [thr EXCEPT ![q].pc = "onquery", ![q].i = 1, ![q].sig = FALSE]
    BY DEF test_onquery
  <2>2. "onquery" \in QueryPlaces /\ 1 \in Nat
    BY DEF QueryPlaces
  <2>. QED BY <1>1, <2>1, <2>2, InPlace, Advancing
<1>4. TypeInv'
  BY <1>1, <1>2, <1>3 DEF IInv, TypeInv, Moves, Turns, CtlInv, CtlShape, QueryPlaces,
     StatusPlaces, Visiting, Retesting, Threads, ServersAssumption
<1>5. Locked'
  BY <1>1, <1>2, <1>3 DEF IInv, ControlInv, TypeInv, Locked, Moves, Turns, Owning, Threads,
     ServersAssumption
<1>6. Counted'
  BY <1>1, <1>2, <1>3, Stayed DEF IInv, ControlInv, TypeInv, Counted, Moves, Turns, Using,
     Threads
<1>7. StaleInv'
  BY <1>1, <1>2, <1>3, InPlace DEF IInv, ControlInv, StaleInv, Moves, Turns
<1>8. StartInv'
  BY <1>1, <1>2, <1>3 DEF IInv, ControlInv, StartInv, Moves, Turns, Threads,
     ServersAssumption
<1>9. PassInv'
  BY <1>1, <1>2, <1>3, InPlace DEF IInv, ControlInv, PassInv, StaleInv, Moves, Turns, Kept,
     Visiting, Retesting
<1>10. OnQueryInv'
  BY <1>1, <1>2, <1>3 DEF IInv, ControlInv, OnQueryInv, Moves, Turns, Threads,
     ServersAssumption
<1>11. TestInBounds'
  BY <1>1, <1>2, <1>3, InPlace DEF TestInBounds, Moves, Turns, Kept, Retesting, Threads
<1>12. NoLostBroadcast'
  BY <1>1, <1>2, <1>3 DEF IInv, ControlInv, TypeInv, NoLostBroadcast, Counted
<1>. QED BY <1>4, <1>5, <1>6, <1>7, <1>8, <1>9, <1>10, <1>11, <1>12 DEF IInv, ControlInv

\* A query thread is at a section.
LEMMA OnQueryKeeps ==
  ASSUME ServersAssumption, IInv, NEW q \in Queriers, OnQuery(q)
  PROVE  IInv'
<1>1. q \in Threads /\ q # Status
  BY DEF Threads, ServersAssumption
<1>2. /\ UNCHANGED <<server_data_users, server_status_ping, signal_interrupt, retest_flag>>
      /\ UNCHANGED <<schm, servstat_thrid, lock, asleep, st, ctl, main>>
      /\ thr[q].pc = "onquery" /\ thr[q].i <= Len(servers)
  BY DEF OnQuery, counts, flags
<1>3. thr[q].i \in 1..Len(servers)
  BY <1>2, InPlace DEF IInv, ControlInv, OnQueryInv
<1>4. Len(servers[thr[q].i].atup) \in Nat
  BY <1>3, InPlace, Sectioned
<1>5. Kept
  BY <1>3, InPlace, Asking DEF OnQuery, Kept, Sections
<1>6. \/ Moves(q, "retest", thr[q].i, Len(servers[thr[q].i].atup), thr[q].stale)
      \/ Moves(q, "onquery", thr[q].i + 1, thr[q].n, thr[q].stale)
  <2>1. PICK k \in Nat : k = thr[q].i + 1
    BY <1>3
  <2>2. CASE thr' = Call(thr, q, thr[q].i, 1, Len(servers[thr[q].i].atup))
    <3>1. PICK i \in Nat, n \in Nat : i = thr[q].i /\ n = Len(servers[thr[q].i].atup)
      BY <1>3, <1>4
    <3>2. thr' = Call(thr, q, i, 1, n)
      BY <2>2, <3>1
    <3>3. Moves(q, "retest", i, n, thr[q].stale)
      BY <1>1, <3>2, InPlace, Calling
    <3>. QED BY <3>1, <3>3
  <2>3. CASE thr' = [thr EXCEPT ![q].i = @ + 1, ![q].sig = TRUE]
    <3>1. thr' = [thr EXCEPT ![q].i = k, ![q].sig = TRUE]
      BY <2>1, <2>3
    <3>. QED BY <1>1, <1>2, <2>1, <3>1, InPlace, Advancing DEF QueryPlaces
  <2>4. CASE thr' = [thr EXCEPT ![q].i = @ + 1]
    <3>1. thr' = [thr EXCEPT ![q].i = k]
      BY <2>1, <2>4
    <3>. QED BY <1>1, <1>2, <2>1, <3>1, InPlace, Advancing DEF QueryPlaces
  <2>. QED BY <2>2, <2>3, <2>4 DEF OnQuery
<1>7. TypeInv'
  <2>1. thr'[Status].pc \in StatusPlaces /\ \A u \in Queriers : thr'[u].pc \in QueryPlaces
    BY <1>1, <1>2, <1>5, <1>6, InPlace DEF IInv, TypeInv, Moves, Turns, QueryPlaces,
       StatusPlaces, Visiting,
       Retesting, Threads, ServersAssumption
  <2>. QED
    BY <1>1, <1>2, <1>5, <1>6, <2>1 DEF IInv, TypeInv, Moves, Turns, CtlInv, CtlShape, Threads, Kept
<1>8. Locked'
  BY <1>1, <1>2, <1>3, <1>4, <1>5, <1>6 DEF IInv, ControlInv, TypeInv, Locked, Moves, Turns,
     Owning, Threads, ServersAssumption
<1>9. Counted'
  BY <1>1, <1>2, <1>3, <1>4, <1>5, <1>6, Stayed DEF IInv, ControlInv, TypeInv, Counted,
     Moves, Turns, Using, Threads
<1>10. StaleInv'
  BY <1>1, <1>2, <1>3, <1>4, <1>5, <1>6, InPlace DEF IInv, ControlInv, StaleInv, Moves,
     Turns
<1>11. StartInv'
  BY <1>1, <1>2, <1>3, <1>4, <1>5, <1>6 DEF IInv, ControlInv, StartInv, Moves, Turns,
     Threads, ServersAssumption
<1>12. PassInv'
  BY <1>1, <1>2, <1>3, <1>4, <1>5, <1>6, InPlace DEF IInv, ControlInv, PassInv, StaleInv,
     Moves, Turns, Kept, Visiting, Retesting, Kept
<1>13. OnQueryInv'
  BY <1>1, <1>2, <1>3, <1>4, <1>5, <1>6 DEF IInv, ControlInv, OnQueryInv, Moves, Turns,
     Threads, ServersAssumption
<1>14. TestInBounds'
  BY <1>1, <1>3, <1>5, <1>6, Bounded DEF Moves, Retesting
<1>15. NoLostBroadcast'
  BY <1>1, <1>2, <1>3, <1>4, <1>5, <1>6 DEF IInv, ControlInv, TypeInv, NoLostBroadcast,
     Counted
<1>. QED BY <1>7, <1>8, <1>9, <1>10, <1>11, <1>12, <1>13, <1>14, <1>15 DEF IInv, ControlInv

\* retest has returned to test_onquery.
LEMMA OnQueryTestedKeeps ==
  ASSUME ServersAssumption, IInv, NEW q \in Queriers, OnQueryTested(q)
  PROVE  IInv'
<1>1. q \in Threads /\ q # Status
  BY DEF Threads, ServersAssumption
<1>2. /\ UNCHANGED <<servers, server_data_users, server_status_ping, signal_interrupt, retest_flag>>
      /\ UNCHANGED <<schm, servstat_thrid, lock, asleep, st, ctl, main>>
      /\ thr[q].pc = "tested"
  BY DEF OnQueryTested, counts, flags
<1>3. thr[q].i \in 1..Len(servers)
  BY <1>1, <1>2, InPlace DEF Retesting
<1>4. Moves(q, "onquery", thr[q].i + 1, thr[q].n, thr[q].stale)
  <2>1. PICK k \in Nat : k = thr[q].i + 1
    BY <1>3
  <2>2. thr' = [thr EXCEPT ![q].pc = "onquery", ![q].i = k]
    BY <2>1 DEF OnQueryTested
  <2>. QED BY <1>1, <2>1, <2>2, InPlace, GoingTo DEF QueryPlaces
<1>5. TypeInv'
  BY <1>1, <1>2, <1>3, <1>4 DEF IInv, TypeInv, Moves, Turns, CtlInv, CtlShape, QueryPlaces,
     StatusPlaces, Visiting, Retesting, Threads, ServersAssumption
<1>6. Locked'
  BY <1>1, <1>2, <1>3, <1>4 DEF IInv, ControlInv, TypeInv, Locked, Moves, Turns, Owning,
     Threads, ServersAssumption
<1>7. Counted'
  BY <1>1, <1>2, <1>3, <1>4, Stayed DEF IInv, ControlInv, TypeInv, Counted, Moves, Turns,
     Using, Threads
<1>8. StaleInv'
  BY <1>1, <1>2, <1>3, <1>4, InPlace DEF IInv, ControlInv, StaleInv, Moves, Turns
<1>9. StartInv'
  BY <1>1, <1>2, <1>3, <1>4 DEF IInv, ControlInv, StartInv, Moves, Turns, Threads,
     ServersAssumption
<1>10. PassInv'
  BY <1>1, <1>2, <1>3, <1>4, InPlace DEF IInv, ControlInv, PassInv, StaleInv, Moves, Turns,
     Kept, Visiting, Retesting
<1>11. OnQueryInv'
  BY <1>1, <1>2, <1>3, <1>4 DEF IInv, ControlInv, OnQueryInv, Moves, Turns, Threads,
     ServersAssumption
<1>12. TestInBounds'
  BY <1>1, <1>2, <1>3, <1>4, InPlace DEF TestInBounds, Moves, Turns, Kept, Retesting,
     Threads
<1>13. NoLostBroadcast'
  BY <1>1, <1>2, <1>3, <1>4 DEF IInv, ControlInv, TypeInv, NoLostBroadcast, Counted
<1>. QED BY <1>5, <1>6, <1>7, <1>8, <1>9, <1>10, <1>11, <1>12, <1>13 DEF IInv, ControlInv

\* A query thread has gone through the sections, and may ask for tests.
LEMMA OnQueryEndsKeeps ==
  ASSUME ServersAssumption, IInv, NEW q \in Queriers, OnQueryEnds(q)
  PROVE  IInv'
<1>1. q \in Threads /\ q # Status
  BY DEF Threads, ServersAssumption
<1>2. /\ UNCHANGED <<servers, server_data_users, server_status_ping, signal_interrupt>>
      /\ UNCHANGED <<schm, asleep, ctl, main>>
      /\ thr[q].pc = "onquery" /\ lock' = Free
  BY DEF OnQueryEnds, counts
<1>3. main = "running" /\ lock = q
  BY <1>1, <1>2 DEF IInv, ControlInv, StartInv, Locked, Owning
<1>4. PICK g : g = [Idle EXCEPT !.pc = "ready"]
  OBVIOUS
<1>5. g \in ThreadType /\ g.pc = "ready" /\ g.stale = FALSE
  <2>1. g = [pc |-> "ready", i |-> 0, j |-> 0, n |-> 0, iter |-> 0,
             stale |-> FALSE, sig |-> FALSE, a |-> "none"]
    BY <1>4 DEF Idle
  <2>. QED BY <2>1 DEF ThreadType, QueryPlaces
<1>6. PICK th : th = [thr EXCEPT ![q] = g]
  OBVIOUS
<1>7. /\ th \in [Threads -> ThreadType] /\ th[q] = g /\ th[Status] = thr[Status]
      /\ \A u \in Threads \ {q} : th[u] = thr[u]
  BY <1>1, <1>5, <1>6, InPlace
<1>8. Request(thr[q].sig, th)
  BY <1>4, <1>6 DEF OnQueryEnds
<1>9. /\ thr' \in [Threads -> ThreadType] /\ thr'[q] = g
      /\ \A u \in Queriers \ {q} : thr'[u] = thr[u]
      /\ \/ thr'[Status] = thr[Status]
         \/ thr[Status].pc = "off" /\ thr'[Status].pc = "new" /\ thr'[Status].stale = thr[Status].stale
      /\ StKept /\ retest_flag' \in BOOLEAN
      /\ servstat_thrid' = "status" \/ (servstat_thrid' = servstat_thrid /\ thr'[Status] = thr[Status])
  <2>1. /\ thr' \in [Threads -> ThreadType] /\ \A u \in Queriers : thr'[u] = th[u]
        /\ \/ thr'[Status] = th[Status]
           \/ thr[Status].pc = "off" /\ thr'[Status].pc = "new" /\ thr'[Status].stale = th[Status].stale
        /\ StKept /\ retest_flag' \in BOOLEAN
        /\ servstat_thrid' = "status" \/ (servstat_thrid' = servstat_thrid /\ thr' = th)
    BY <1>3, <1>7, <1>8, Requesting
  <2>. QED BY <1>1, <1>7, <2>1 DEF Threads
<1>10. TypeInv'
  <2>1. thr'[Status].pc \in StatusPlaces /\ \A u \in Queriers : thr'[u].pc \in QueryPlaces
    BY <1>1, <1>2, <1>5, <1>9, InPlace DEF IInv, TypeInv, Moves, Turns, QueryPlaces,
       StatusPlaces, Visiting,
       Retesting, Threads, ServersAssumption
  <2>. QED
    BY <1>1, <1>2, <1>5, <1>9, <2>1 DEF IInv, TypeInv, Moves, Turns, CtlInv, CtlShape, Threads,
       StKept
<1>11. Locked'
  BY <1>1, <1>2, <1>3, <1>5, <1>9 DEF IInv, ControlInv, TypeInv,
     Locked, Moves, Turns, Owning, Threads, ServersAssumption
<1>12. Counted'
  BY <1>1, <1>2, <1>3, <1>5, <1>9, Stayed DEF IInv, ControlInv,
     TypeInv, Counted, Moves, Turns, Using, Threads, StKept
<1>13. StaleInv'
  BY <1>1, <1>5, <1>9, InPlace DEF IInv, ControlInv, StaleInv, Moves, Turns, Threads
<1>14. StartInv'
  BY <1>1, <1>2, <1>3, <1>5, <1>9 DEF IInv, ControlInv, StartInv,
     Moves, Turns, Threads, ServersAssumption
<1>15. PassInv'
  BY <1>1, <1>2, <1>3, <1>5, <1>9, InPlace DEF IInv, ControlInv,
     PassInv, StaleInv, Moves, Turns, Kept, Visiting, Retesting, StKept
<1>16. OnQueryInv'
  BY <1>1, <1>2, <1>3, <1>5, <1>9 DEF IInv, ControlInv, OnQueryInv,
     Moves, Turns, Threads, ServersAssumption
<1>17. TestInBounds'
  BY <1>1, <1>2, <1>3, <1>5, <1>9, InPlace DEF TestInBounds, Moves,
     Turns, Kept, Retesting, Threads
<1>18. NoLostBroadcast'
  BY <1>1, <1>2, <1>3, <1>5, <1>9 DEF IInv, ControlInv, TypeInv,
     NoLostBroadcast, Counted
<1>. QED BY <1>10, <1>11, <1>12, <1>13, <1>14, <1>15, <1>16, <1>17, <1>18 DEF IInv,
     ControlInv

\* A query thread begins to read the sections.
LEMMA LockDataKeeps ==
  ASSUME ServersAssumption, IInv, NEW q \in Queriers, lock_server_data(q)
  PROVE  IInv'
<1>1. q \in Threads /\ q # Status
  BY DEF Threads, ServersAssumption
<1>2. /\ UNCHANGED <<servers, server_status_ping, signal_interrupt, retest_flag>>
      /\ UNCHANGED <<schm, servstat_thrid, lock, asleep, st, ctl, main>>
      /\ thr[q].pc \in {"ready", "idle"} /\ main = "running" /\ lock = Free
      /\ server_data_users' = server_data_users + 1
  BY DEF lock_server_data, Enter, flags
<1>3. Turns(q, "reading")
  BY <1>1, InPlace, Going DEF lock_server_data, QueryPlaces
<1>4. TypeInv'
  BY <1>1, <1>2, <1>3 DEF IInv, TypeInv, Moves, Turns, CtlInv, CtlShape, QueryPlaces,
     StatusPlaces, Visiting, Retesting, Threads, ServersAssumption
<1>5. Locked'
  BY <1>1, <1>2, <1>3 DEF IInv, ControlInv, TypeInv, Locked, Moves, Turns, Owning, Threads,
     ServersAssumption
<1>6. Counted'
  BY <1>1, <1>2, <1>3, Entered DEF IInv, ControlInv, TypeInv, Counted, Moves, Turns, Using,
     Threads
<1>7. StaleInv'
  BY <1>1, <1>2, <1>3, InPlace DEF IInv, ControlInv, StaleInv, Moves, Turns
<1>8. StartInv'
  BY <1>1, <1>2, <1>3 DEF IInv, ControlInv, StartInv, Moves, Turns, Threads,
     ServersAssumption
<1>9. PassInv'
  BY <1>1, <1>2, <1>3, InPlace DEF IInv, ControlInv, PassInv, StaleInv, Moves, Turns, Kept,
     Visiting, Retesting
<1>10. OnQueryInv'
  BY <1>1, <1>2, <1>3 DEF IInv, ControlInv, OnQueryInv, Moves, Turns, Threads,
     ServersAssumption
<1>11. TestInBounds'
  BY <1>1, <1>2, <1>3, InPlace DEF TestInBounds, Moves, Turns, Kept, Retesting, Threads
<1>12. NoLostBroadcast'
  BY <1>1, <1>2, <1>3 DEF IInv, ControlInv, TypeInv, NoLostBroadcast, Counted
<1>. QED BY <1>4, <1>5, <1>6, <1>7, <1>8, <1>9, <1>10, <1>11, <1>12 DEF IInv, ControlInv

\* A query thread has read the sections, and may want a server tested.
LEMMA UnlockDataKeeps ==
  ASSUME ServersAssumption, IInv, NEW q \in Queriers, unlock_server_data(q)
  PROVE  IInv'
<1>1. q \in Threads /\ q # Status
  BY DEF Threads, ServersAssumption
<1>2. /\ UNCHANGED <<servers, server_status_ping, signal_interrupt, retest_flag>>
      /\ UNCHANGED <<schm, servstat_thrid, lock, st, ctl, main>>
      /\ thr[q].pc = "reading" /\ lock = Free
      /\ server_data_users' = server_data_users - 1
      /\ asleep' = IF server_data_users = 1 THEN {} ELSE asleep
  BY DEF unlock_server_data, Leave, flags
<1>3. Moves(q, "idle", 0, 0, FALSE) \/ Moves(q, "asking", 0, 0, FALSE)
  <2>1. CASE thr' = [thr EXCEPT ![q] = Idle]
    <3>1. Idle \in ThreadType /\ Idle.pc = "idle" /\ Idle.i = 0 /\ Idle.n = 0 /\ ~ Idle.stale
      BY DEF Idle, ThreadType, QueryPlaces
    <3>. QED BY <1>1, <2>1, <3>1, InPlace DEF Moves
  <2>2. ASSUME NEW p \in Queried,
               thr' = [thr EXCEPT ![q] = [Idle EXCEPT !.pc = "asking", !.a = At(p).a]]
        PROVE  Moves(q, "asking", 0, 0, FALSE)
    <3>1. p[1] \in 1..Len(servers) /\ p[2] \in 1..Len(servers[p[1]].atup)
      BY InPlace, Sectioned DEF Queried, Ats
    <3>2. At(p) \in Atup
      BY <3>1, InPlace, Sectioned DEF At
    <3>3. At(p).a \in Addresses
      BY <3>2 DEF Atup
    <3>4. PICK g : g = [Idle EXCEPT !.pc = "asking", !.a = At(p).a]
      OBVIOUS
    <3>5. g = [pc |-> "asking", i |-> 0, j |-> 0, n |-> 0, iter |-> 0,
               stale |-> FALSE, sig |-> FALSE, a |-> At(p).a]
      BY <3>4 DEF Idle
    <3>6. g \in ThreadType /\ g.pc = "asking" /\ g.i = 0 /\ g.n = 0 /\ g.stale = FALSE
      BY <3>3, <3>5 DEF ThreadType, QueryPlaces
    <3>7. thr' = [thr EXCEPT ![q] = g]
      BY <2>2, <3>4
    <3>. QED BY <1>1, <3>6, <3>7, InPlace DEF Moves
  <2>. QED BY <2>1, <2>2 DEF unlock_server_data
<1>4. server_data_users - 1 \in Nat
  BY <1>1, <1>2, Used DEF Using
<1>5. TypeInv'
  BY <1>1, <1>2, <1>3, <1>4 DEF IInv, TypeInv, Moves, Turns, CtlInv, CtlShape, QueryPlaces,
     StatusPlaces, Visiting, Retesting, Threads, ServersAssumption
<1>6. Locked'
  BY <1>1, <1>2, <1>3, <1>4 DEF IInv, ControlInv, TypeInv, Locked, Moves, Turns, Owning,
     Threads, ServersAssumption
<1>7. Counted'
  BY <1>1, <1>2, <1>3, <1>4, Left DEF IInv, ControlInv, TypeInv, Counted, Moves, Turns,
     Using, Threads
<1>8. StaleInv'
  BY <1>1, <1>2, <1>3, <1>4, InPlace DEF IInv, ControlInv, StaleInv, Moves, Turns
<1>9. StartInv'
  BY <1>1, <1>2, <1>3, <1>4 DEF IInv, ControlInv, StartInv, Moves, Turns, Threads,
     ServersAssumption
<1>10. PassInv'
  BY <1>1, <1>2, <1>3, <1>4, InPlace DEF IInv, ControlInv, PassInv, StaleInv, Moves, Turns,
     Kept, Visiting, Retesting
<1>11. OnQueryInv'
  BY <1>1, <1>2, <1>3, <1>4 DEF IInv, ControlInv, OnQueryInv, Moves, Turns, Threads,
     ServersAssumption
<1>12. TestInBounds'
  BY <1>1, <1>2, <1>3, <1>4, InPlace DEF TestInBounds, Moves, Turns, Kept, Retesting,
     Threads
<1>13. NoLostBroadcast'
  BY <1>1, <1>2, <1>3, <1>4 DEF IInv, ControlInv, TypeInv, NoLostBroadcast, Counted
<1>. QED BY <1>5, <1>6, <1>7, <1>8, <1>9, <1>10, <1>11, <1>12, <1>13 DEF IInv, ControlInv

\* A server is marked, or its test is asked for, by a query thread.
LEMMA SchedKeeps ==
  ASSUME ServersAssumption, IInv, NEW q \in Queriers, sched_server_test(q)
  PROVE  IInv'
<1>1. q \in Threads /\ q # Status
  BY DEF Threads, ServersAssumption
<1>2. /\ UNCHANGED <<server_data_users, server_status_ping, signal_interrupt, retest_flag>>
      /\ UNCHANGED <<schm, servstat_thrid, lock, asleep, ctl, main>>
      /\ thr[q].pc = "asking"
  BY DEF sched_server_test, counts, flags
<1>3. Kept
  BY InPlace, Marking DEF sched_server_test, Ups
<1>4. StKept
  BY InPlace DEF sched_server_test, StKept, StType
<1>5. Moves(q, "idle", 0, 0, FALSE)
  <2>1. thr' = [thr EXCEPT ![q] = Idle]
    BY DEF sched_server_test
  <2>2. Idle \in ThreadType /\ Idle.pc = "idle" /\ Idle.i = 0 /\ Idle.n = 0 /\ ~ Idle.stale
    BY DEF Idle, ThreadType, QueryPlaces
  <2>. QED BY <1>1, <2>1, <2>2, InPlace DEF Moves
<1>6. TypeInv'
  BY <1>1, <1>2, <1>3, <1>4, <1>5 DEF IInv, TypeInv, Moves, Turns, CtlInv, CtlShape,
     QueryPlaces, StatusPlaces, Visiting, Retesting, Threads, ServersAssumption, StKept,
     Kept
<1>7. Locked'
  BY <1>1, <1>2, <1>3, <1>4, <1>5 DEF IInv, ControlInv, TypeInv, Locked, Moves, Turns,
     Owning, Threads, ServersAssumption
<1>8. Counted'
  BY <1>1, <1>2, <1>3, <1>4, <1>5, Stayed DEF IInv, ControlInv, TypeInv, Counted, Moves,
     Turns, Using, Threads, StKept
<1>9. StaleInv'
  BY <1>1, <1>2, <1>3, <1>4, <1>5, InPlace DEF IInv, ControlInv, StaleInv, Moves, Turns
<1>10. StartInv'
  BY <1>1, <1>2, <1>3, <1>4, <1>5 DEF IInv, ControlInv, StartInv, Moves, Turns, Threads,
     ServersAssumption
<1>11. PassInv'
  BY <1>1, <1>2, <1>3, <1>4, <1>5, InPlace DEF IInv, ControlInv, PassInv, StaleInv, Moves,
     Turns, Kept, Visiting, Retesting, StKept, Kept
<1>12. OnQueryInv'
  BY <1>1, <1>2, <1>3, <1>4, <1>5 DEF IInv, ControlInv, OnQueryInv, Moves, Turns, Threads,
     ServersAssumption
<1>13. TestInBounds'
  BY <1>1, <1>2, <1>3, <1>4, <1>5, InPlace DEF TestInBounds, Moves, Turns, Kept, Retesting,
     Threads
<1>14. NoLostBroadcast'
  BY <1>1, <1>2, <1>3, <1>4, <1>5 DEF IInv, ControlInv, TypeInv, NoLostBroadcast, Counted
<1>. QED BY <1>6, <1>7, <1>8, <1>9, <1>10, <1>11, <1>12, <1>13, <1>14 DEF IInv, ControlInv

\* pdnsd-ctl marks servers, or asks for their tests.
LEMMA MarkServersKeeps ==
  ASSUME ServersAssumption, IInv, NEW I, NEW up \in Ups, mark_servers(I, up)
  PROVE  IInv'
<1>1. /\ UNCHANGED <<server_data_users, server_status_ping, signal_interrupt, schm, lock, asleep,
                     main>>
      /\ main = "running"
  BY DEF mark_servers, Command, counts
<1>2. CtlInv' /\ ctl'.pc = ctl.pc
  BY DEF mark_servers, IInv, TypeInv, CtlInv, CtlShape
<1>3. Kept
  BY InPlace, Marking DEF mark_servers
<1>4. /\ thr' \in [Threads -> ThreadType] /\ \A u \in Queriers : thr'[u] = thr[u]
      /\ \/ thr'[Status] = thr[Status]
         \/ thr[Status].pc = "off" /\ thr'[Status].pc = "new" /\ thr'[Status].stale = thr[Status].stale
      /\ StKept /\ retest_flag' \in BOOLEAN
      /\ servstat_thrid' = "status" \/ (servstat_thrid' = servstat_thrid /\ thr' = thr)
  BY <1>1, InPlace, Requesting DEF mark_servers
<1>5. TypeInv'
  BY <1>1, <1>2, <1>3, <1>4 DEF IInv, TypeInv, Moves, Turns, CtlInv, CtlShape, QueryPlaces,
     StatusPlaces, Visiting, Retesting, Threads, ServersAssumption, StKept, Kept
<1>6. Locked'
  BY <1>1, <1>2, <1>3, <1>4 DEF IInv, ControlInv, TypeInv, Locked, Moves, Turns, Owning,
     Threads, ServersAssumption
<1>7. Counted'
  BY <1>1, <1>2, <1>3, <1>4, Stayed DEF IInv, ControlInv, TypeInv, Counted, Moves, Turns,
     Using, Threads, StKept
<1>8. StaleInv'
  BY <1>1, <1>2, <1>3, <1>4, InPlace DEF IInv, ControlInv, StaleInv, Moves, Turns, Threads
<1>9. StartInv'
  BY <1>1, <1>2, <1>3, <1>4 DEF IInv, ControlInv, StartInv, Moves, Turns, Threads,
     ServersAssumption
<1>10. PassInv'
  BY <1>1, <1>2, <1>3, <1>4, InPlace DEF IInv, ControlInv, PassInv, StaleInv, Moves, Turns,
     Kept, Visiting, Retesting, StKept, Kept, Threads
<1>11. OnQueryInv'
  BY <1>1, <1>2, <1>3, <1>4 DEF IInv, ControlInv, OnQueryInv, Moves, Turns, Threads,
     ServersAssumption
<1>12. TestInBounds'
  BY <1>1, <1>2, <1>3, <1>4, InPlace DEF TestInBounds, Moves, Turns, Kept, Retesting,
     Threads
<1>13. NoLostBroadcast'
  BY <1>1, <1>2, <1>3, <1>4 DEF IInv, ControlInv, TypeInv, NoLostBroadcast, Counted
<1>. QED BY <1>5, <1>6, <1>7, <1>8, <1>9, <1>10, <1>11, <1>12, <1>13 DEF IInv, ControlInv

\* pdnsd-ctl changes the addresses of a section, or finds them the same.
LEMMA ChangeServersKeeps ==
  ASSUME ServersAssumption, IInv, NEW i \in Nat \ {0}, NEW ar \in Lists, NEW up \in Ups,
         change_servers(i, ar, up)
  PROVE  IInv'
<1>1. /\ UNCHANGED <<server_data_users, server_status_ping, schm, asleep, main>>
      /\ main = "running" /\ ctl.pc = "idle" /\ lock = Free
  BY DEF change_servers, Command, counts
<1>2. /\ CtlInv' /\ Kept /\ signal_interrupt' \in BOOLEAN
      /\ \/ ctl'.pc = "idle" /\ lock' = Free
         \/ ctl'.pc = "exclusive" /\ lock' = Control
  <2>1. ar \in Seq(Addresses)
    BY DEF ServersAssumption
  <2>2. CASE ctl' = [ctl EXCEPT !.left = @ - 1] /\ UNCHANGED <<signal_interrupt, lock>>
    <3>1. Kept
      BY <2>2, InPlace, Marking DEF change_servers, Exclusive, Kept, Sections
    <3>2. CtlInv' /\ ctl'.pc = ctl.pc
      BY <2>2 DEF IInv, TypeInv, CtlInv, CtlShape
    <3>. QED BY <1>1, <2>2, <3>1, <3>2 DEF IInv, TypeInv
  <2>3. CASE Exclusive([ctl EXCEPT !.op = "change", !.i = i, !.new = ar, !.up = up]) /\ UNCHANGED servers
    <3>1. ctl' = [pc |-> "exclusive", op |-> "change", i |-> i, up |-> up, new |-> ar, left |-> ctl.left - 1]
      BY <2>3 DEF Exclusive, IInv, TypeInv, CtlInv, CtlShape
    <3>2. CtlInv' /\ ctl'.pc = "exclusive"
      BY <2>1, <3>1 DEF CtlInv, CtlShape
    <3>. QED BY <2>3, <3>2, InPlace DEF Exclusive, Kept, Sections, IInv, TypeInv
  <2>. QED BY <2>2, <2>3 DEF change_servers
<1>3. /\ thr' \in [Threads -> ThreadType] /\ \A u \in Queriers : thr'[u] = thr[u]
      /\ \/ thr'[Status] = thr[Status]
         \/ thr[Status].pc = "off" /\ thr'[Status].pc = "new" /\ thr'[Status].stale = thr[Status].stale
      /\ StKept /\ retest_flag' \in BOOLEAN
      /\ servstat_thrid' = "status" \/ (servstat_thrid' = servstat_thrid /\ thr' = thr)
  <2>1. CASE \E sig : Request(sig, thr)
    BY <1>1, <2>1, InPlace, Requesting
  <2>2. CASE UNCHANGED <<retest_flag, thr, st, servstat_thrid>>
    BY <2>2, InPlace DEF StKept, IInv, TypeInv
  <2>. QED BY <2>1, <2>2 DEF change_servers
<1>4. TypeInv'
  BY <1>1, <1>2, <1>3 DEF IInv, TypeInv, Moves, Turns, CtlInv, CtlShape, QueryPlaces,
     StatusPlaces, Visiting, Retesting, Threads, ServersAssumption, StKept, Kept
<1>5. Locked'
  BY <1>1, <1>2, <1>3 DEF IInv, ControlInv, TypeInv, Locked, Moves, Turns, Owning, Threads,
     ServersAssumption
<1>6. Counted'
  BY <1>1, <1>2, <1>3, Stayed DEF IInv, ControlInv, TypeInv, Counted, Moves, Turns, Using,
     Threads, StKept
<1>7. StaleInv'
  BY <1>1, <1>2, <1>3, InPlace DEF IInv, ControlInv, StaleInv, Moves, Turns, Threads
<1>8. StartInv'
  BY <1>1, <1>2, <1>3 DEF IInv, ControlInv, StartInv, Moves, Turns, Threads,
     ServersAssumption
<1>9. PassInv'
  BY <1>1, <1>2, <1>3, InPlace DEF IInv, ControlInv, PassInv, StaleInv, Moves, Turns, Kept,
     Visiting, Retesting, StKept, Kept, Threads
<1>10. OnQueryInv'
  BY <1>1, <1>2, <1>3 DEF IInv, ControlInv, OnQueryInv, Moves, Turns, Threads,
     ServersAssumption
<1>11. TestInBounds'
  BY SMTT(20), <1>1, <1>2, <1>3, InPlace DEF TestInBounds, Moves, Turns, Kept, Retesting, Threads
<1>12. NoLostBroadcast'
  BY <1>1, <1>2, <1>3 DEF IInv, ControlInv, TypeInv, NoLostBroadcast, Counted
<1>. QED BY <1>4, <1>5, <1>6, <1>7, <1>8, <1>9, <1>10, <1>11, <1>12 DEF IInv, ControlInv

\* A new configuration file has been read.
LEMMA ReloadConfigKeeps ==
  ASSUME ServersAssumption, IInv, NEW c \in Configs, reload_config_file(c)
  PROVE  IInv'
<1>1. /\ UNCHANGED <<servers, server_data_users, server_status_ping, retest_flag, schm>>
      /\ UNCHANGED <<servstat_thrid, asleep, thr, st, main>>
      /\ main = "running" /\ ctl.pc = "idle" /\ lock = Free /\ lock' = Control
  BY DEF reload_config_file, Command, Exclusive, counts
<1>2. CtlInv' /\ ctl'.pc = "exclusive" /\ signal_interrupt' \in BOOLEAN
  <2>1. ctl' = [pc |-> "exclusive", op |-> "reload", i |-> ctl.i, up |-> ctl.up, new |-> c,
               left |-> ctl.left - 1]
    BY DEF reload_config_file, Exclusive, IInv, TypeInv, CtlInv, CtlShape
  <2>2. CtlInv' /\ ctl'.pc = "exclusive"
    BY <2>1 DEF IInv, TypeInv, CtlInv, CtlShape
  <2>. QED BY <2>2 DEF reload_config_file, Exclusive, IInv, TypeInv
<1>3. TypeInv'
  BY <1>1, <1>2 DEF IInv, TypeInv, Moves, Turns, CtlInv, CtlShape, QueryPlaces,
     StatusPlaces, Visiting, Retesting, Threads, ServersAssumption
<1>4. Locked'
  BY <1>1, <1>2 DEF IInv, ControlInv, TypeInv, Locked, Moves, Turns, Owning, Threads,
     ServersAssumption
<1>5. Counted'
  BY <1>1, <1>2, Stayed DEF IInv, ControlInv, TypeInv, Counted, Moves, Turns, Using, Threads
<1>6. StaleInv'
  BY <1>1, <1>2, InPlace DEF IInv, ControlInv, StaleInv, Moves, Turns
<1>7. StartInv'
  BY <1>1, <1>2 DEF IInv, ControlInv, StartInv, Moves, Turns, Threads, ServersAssumption
<1>8. PassInv'
  BY <1>1, <1>2, InPlace DEF IInv, ControlInv, PassInv, StaleInv, Moves, Turns, Kept,
     Visiting, Retesting
<1>9. OnQueryInv'
  BY <1>1, <1>2 DEF IInv, ControlInv, OnQueryInv, Moves, Turns, Threads, ServersAssumption
<1>10. TestInBounds'
  BY <1>1, <1>2, InPlace DEF TestInBounds, Moves, Turns, Kept, Retesting, Threads
<1>11. NoLostBroadcast'
  BY <1>1, <1>2 DEF IInv, ControlInv, TypeInv, NoLostBroadcast, Counted
<1>. QED BY <1>3, <1>4, <1>5, <1>6, <1>7, <1>8, <1>9, <1>10, <1>11 DEF IInv, ControlInv

\* The control thread waits for the users of the data.
LEMMA AwaitKeeps ==
  ASSUME ServersAssumption, IInv, Await
  PROVE  IInv'
<1>1. /\ UNCHANGED <<servers, server_data_users, server_status_ping, signal_interrupt, retest_flag>>
      /\ UNCHANGED <<schm, servstat_thrid, thr, st, main>>
      /\ ctl.pc = "exclusive" /\ lock' = Free /\ server_data_users > 0
      /\ asleep' = asleep \cup {Control}
  BY DEF Await, counts, flags
<1>2. CtlInv' /\ ctl'.pc = "waiting"
  BY DEF Await, IInv, TypeInv, CtlInv, CtlShape
<1>3. TypeInv'
  BY <1>1, <1>2 DEF IInv, TypeInv, Moves, Turns, CtlInv, CtlShape, QueryPlaces,
     StatusPlaces, Visiting, Retesting, Threads, ServersAssumption
<1>4. Locked'
  BY <1>1, <1>2 DEF IInv, ControlInv, TypeInv, Locked, Moves, Turns, Owning, Threads,
     ServersAssumption
<1>5. Counted'
  BY <1>1, <1>2, Stayed DEF IInv, ControlInv, TypeInv, Counted, Moves, Turns, Using, Threads
<1>6. StaleInv'
  BY <1>1, <1>2, InPlace DEF IInv, ControlInv, StaleInv, Moves, Turns
<1>7. StartInv'
  BY <1>1, <1>2 DEF IInv, ControlInv, StartInv, Moves, Turns, Threads, ServersAssumption
<1>8. PassInv'
  BY <1>1, <1>2, InPlace DEF IInv, ControlInv, PassInv, StaleInv, Moves, Turns, Kept,
     Visiting, Retesting
<1>9. OnQueryInv'
  BY <1>1, <1>2 DEF IInv, ControlInv, OnQueryInv, Moves, Turns, Threads, ServersAssumption
<1>10. TestInBounds'
  BY <1>1, <1>2, InPlace DEF TestInBounds, Moves, Turns, Kept, Retesting, Threads
<1>11. NoLostBroadcast'
  BY <1>1, <1>2 DEF IInv, ControlInv, TypeInv, NoLostBroadcast, Counted
<1>. QED BY <1>3, <1>4, <1>5, <1>6, <1>7, <1>8, <1>9, <1>10, <1>11 DEF IInv, ControlInv

\* The last user has woken the control thread.
LEMMA WokenKeeps ==
  ASSUME ServersAssumption, IInv, Woken
  PROVE  IInv'
<1>1. /\ UNCHANGED <<servers, server_data_users, server_status_ping, signal_interrupt, retest_flag>>
      /\ UNCHANGED <<schm, servstat_thrid, asleep, thr, st, main>>
      /\ ctl.pc = "waiting" /\ lock = Free /\ lock' = Control
  BY DEF Woken, counts, flags
<1>2. CtlInv' /\ ctl'.pc = "exclusive"
  BY DEF Woken, IInv, TypeInv, CtlInv, CtlShape
<1>3. TypeInv'
  BY <1>1, <1>2 DEF IInv, TypeInv, Moves, Turns, CtlInv, CtlShape, QueryPlaces,
     StatusPlaces, Visiting, Retesting, Threads, ServersAssumption
<1>4. Locked'
  BY <1>1, <1>2 DEF IInv, ControlInv, TypeInv, Locked, Moves, Turns, Owning, Threads,
     ServersAssumption
<1>5. Counted'
  BY <1>1, <1>2, Stayed DEF IInv, ControlInv, TypeInv, Counted, Moves, Turns, Using, Threads
<1>6. StaleInv'
  BY <1>1, <1>2, InPlace DEF IInv, ControlInv, StaleInv, Moves, Turns
<1>7. StartInv'
  BY <1>1, <1>2 DEF IInv, ControlInv, StartInv, Moves, Turns, Threads, ServersAssumption
<1>8. PassInv'
  BY <1>1, <1>2, InPlace DEF IInv, ControlInv, PassInv, StaleInv, Moves, Turns, Kept,
     Visiting, Retesting
<1>9. OnQueryInv'
  BY <1>1, <1>2 DEF IInv, ControlInv, OnQueryInv, Moves, Turns, Threads, ServersAssumption
<1>10. TestInBounds'
  BY <1>1, <1>2, InPlace DEF TestInBounds, Moves, Turns, Kept, Retesting, Threads
<1>11. NoLostBroadcast'
  BY <1>1, <1>2 DEF IInv, ControlInv, TypeInv, NoLostBroadcast, Counted
<1>. QED BY <1>3, <1>4, <1>5, <1>6, <1>7, <1>8, <1>9, <1>10, <1>11 DEF IInv, ControlInv

\* The control thread's wait times out.
LEMMA TimedOutKeeps ==
  ASSUME ServersAssumption, IInv, TimedOut
  PROVE  IInv'
<1>1. /\ UNCHANGED <<servers, server_data_users, server_status_ping, signal_interrupt, retest_flag>>
      /\ UNCHANGED <<schm, servstat_thrid, lock, thr, st, main>>
      /\ ctl.pc = "waiting" /\ lock = Free /\ asleep' = asleep \ {Control}
  BY DEF TimedOut, counts, flags
<1>2. CtlInv' /\ ctl'.pc = "idle"
  BY DEF TimedOut, Done, Ups, IInv, TypeInv, CtlInv, CtlShape
<1>3. TypeInv'
  BY <1>1, <1>2 DEF IInv, TypeInv, Moves, Turns, CtlInv, CtlShape, QueryPlaces,
     StatusPlaces, Visiting, Retesting, Threads, ServersAssumption
<1>4. Locked'
  BY <1>1, <1>2 DEF IInv, ControlInv, TypeInv, Locked, Moves, Turns, Owning, Threads,
     ServersAssumption
<1>5. Counted'
  BY <1>1, <1>2, Stayed DEF IInv, ControlInv, TypeInv, Counted, Moves, Turns, Using, Threads
<1>6. StaleInv'
  BY <1>1, <1>2, InPlace DEF IInv, ControlInv, StaleInv, Moves, Turns
<1>7. StartInv'
  BY <1>1, <1>2 DEF IInv, ControlInv, StartInv, Moves, Turns, Threads, ServersAssumption
<1>8. PassInv'
  BY <1>1, <1>2, InPlace DEF IInv, ControlInv, PassInv, StaleInv, Moves, Turns, Kept,
     Visiting, Retesting
<1>9. OnQueryInv'
  BY <1>1, <1>2 DEF IInv, ControlInv, OnQueryInv, Moves, Turns, Threads, ServersAssumption
<1>10. TestInBounds'
  BY <1>1, <1>2, InPlace DEF TestInBounds, Moves, Turns, Kept, Retesting, Threads
<1>11. NoLostBroadcast'
  BY <1>1, <1>2 DEF IInv, ControlInv, TypeInv, NoLostBroadcast, Counted
<1>. QED BY <1>3, <1>4, <1>5, <1>6, <1>7, <1>8, <1>9, <1>10, <1>11 DEF IInv, ControlInv

\* There is no memory for the new addresses.
LEMMA ChangeFailsKeeps ==
  ASSUME ServersAssumption, IInv, ChangeFails
  PROVE  IInv'
<1>1. /\ UNCHANGED <<servers, server_data_users, server_status_ping, signal_interrupt, retest_flag>>
      /\ UNCHANGED <<schm, servstat_thrid, asleep, thr, st, main>>
      /\ ctl.pc = "exclusive" /\ lock' = Free
  BY DEF ChangeFails, Access, counts, flags
<1>2. CtlInv' /\ ctl'.pc = "idle"
  BY DEF ChangeFails, Done, Ups, IInv, TypeInv, CtlInv, CtlShape
<1>3. TypeInv'
  BY <1>1, <1>2 DEF IInv, TypeInv, Moves, Turns, CtlInv, CtlShape, QueryPlaces,
     StatusPlaces, Visiting, Retesting, Threads, ServersAssumption
<1>4. Locked'
  BY <1>1, <1>2 DEF IInv, ControlInv, TypeInv, Locked, Moves, Turns, Owning, Threads,
     ServersAssumption
<1>5. Counted'
  BY <1>1, <1>2, Stayed DEF IInv, ControlInv, TypeInv, Counted, Moves, Turns, Using, Threads
<1>6. StaleInv'
  BY <1>1, <1>2, InPlace DEF IInv, ControlInv, StaleInv, Moves, Turns
<1>7. StartInv'
  BY <1>1, <1>2 DEF IInv, ControlInv, StartInv, Moves, Turns, Threads, ServersAssumption
<1>8. PassInv'
  BY <1>1, <1>2, InPlace DEF IInv, ControlInv, PassInv, StaleInv, Moves, Turns, Kept,
     Visiting, Retesting
<1>9. OnQueryInv'
  BY <1>1, <1>2 DEF IInv, ControlInv, OnQueryInv, Moves, Turns, Threads, ServersAssumption
<1>10. TestInBounds'
  BY <1>1, <1>2, InPlace DEF TestInBounds, Moves, Turns, Kept, Retesting, Threads
<1>11. NoLostBroadcast'
  BY <1>1, <1>2 DEF IInv, ControlInv, TypeInv, NoLostBroadcast, Counted
<1>. QED BY <1>3, <1>4, <1>5, <1>6, <1>7, <1>8, <1>9, <1>10, <1>11 DEF IInv, ControlInv

\* main() creates the status thread.
LEMMA MainCreatesKeeps ==
  ASSUME ServersAssumption, IInv, MainCreates
  PROVE  IInv'
<1>1. /\ UNCHANGED <<servers, server_data_users, server_status_ping, signal_interrupt, retest_flag>>
      /\ UNCHANGED <<schm, servstat_thrid, lock, asleep, st, ctl>>
      /\ main = "create" /\ main' = "assign"
  BY DEF MainCreates, counts, flags
<1>2. thr[Status].pc = "off" /\ servstat_thrid = "main"
  BY <1>1 DEF IInv, ControlInv, StartInv
<1>3. Turns(Status, "new")
  BY InPlace, Going DEF MainCreates, StatusPlaces
<1>4. TypeInv'
  BY <1>1, <1>2, <1>3 DEF IInv, TypeInv, Moves, Turns, CtlInv, CtlShape, QueryPlaces,
     StatusPlaces, Visiting, Retesting, Threads, ServersAssumption
<1>5. Locked'
  BY <1>1, <1>2, <1>3 DEF IInv, ControlInv, TypeInv, Locked, Moves, Turns, Owning, Threads,
     ServersAssumption
<1>6. Counted'
  BY <1>1, <1>2, <1>3, Stayed DEF IInv, ControlInv, TypeInv, Counted, Moves, Turns, Using,
     Threads
<1>7. StaleInv'
  BY <1>1, <1>2, <1>3, InPlace DEF IInv, ControlInv, StaleInv, Moves, Turns
<1>8. StartInv'
  BY <1>1, <1>2, <1>3 DEF IInv, ControlInv, StartInv, Moves, Turns, Threads,
     ServersAssumption
<1>9. PassInv'
  BY <1>1, <1>2, <1>3, InPlace DEF IInv, ControlInv, PassInv, StaleInv, Moves, Turns, Kept,
     Visiting, Retesting
<1>10. OnQueryInv'
  BY <1>1, <1>2, <1>3 DEF IInv, ControlInv, OnQueryInv, Moves, Turns, Threads,
     ServersAssumption
<1>11. TestInBounds'
  BY <1>1, <1>2, <1>3, InPlace DEF TestInBounds, Moves, Turns, Kept, Retesting, Threads
<1>12. NoLostBroadcast'
  BY <1>1, <1>2, <1>3 DEF IInv, ControlInv, TypeInv, NoLostBroadcast, Counted
<1>. QED BY <1>4, <1>5, <1>6, <1>7, <1>8, <1>9, <1>10, <1>11, <1>12 DEF IInv, ControlInv

\* main() stores the id of the status thread.
LEMMA MainAssignsKeeps ==
  ASSUME ServersAssumption, IInv, MainAssigns
  PROVE  IInv'
<1>1. /\ UNCHANGED <<servers, server_data_users, server_status_ping, signal_interrupt, retest_flag>>
      /\ UNCHANGED <<schm, lock, asleep, thr, st, ctl>>
      /\ main = "assign" /\ main' = "running" /\ servstat_thrid' = "status"
  BY DEF MainAssigns, counts, flags
<1>2. TypeInv'
  BY <1>1 DEF IInv, TypeInv, Moves, Turns, CtlInv, CtlShape, QueryPlaces, StatusPlaces,
     Visiting, Retesting, Threads, ServersAssumption
<1>3. Locked'
  BY <1>1 DEF IInv, ControlInv, TypeInv, Locked, Moves, Turns, Owning, Threads,
     ServersAssumption
<1>4. Counted'
  BY <1>1, Stayed DEF IInv, ControlInv, TypeInv, Counted, Moves, Turns, Using, Threads
<1>5. StaleInv'
  BY <1>1, InPlace DEF IInv, ControlInv, StaleInv, Moves, Turns
<1>6. StartInv'
  BY <1>1 DEF IInv, ControlInv, StartInv, Moves, Turns, Threads, ServersAssumption
<1>7. PassInv'
  BY <1>1, InPlace DEF IInv, ControlInv, PassInv, StaleInv, Moves, Turns, Kept, Visiting,
     Retesting
<1>8. OnQueryInv'
  BY <1>1 DEF IInv, ControlInv, OnQueryInv, Moves, Turns, Threads, ServersAssumption
<1>9. TestInBounds'
  BY <1>1, InPlace DEF TestInBounds, Moves, Turns, Kept, Retesting, Threads
<1>10. NoLostBroadcast'
  BY <1>1 DEF IInv, ControlInv, TypeInv, NoLostBroadcast, Counted
<1>. QED BY <1>2, <1>3, <1>4, <1>5, <1>6, <1>7, <1>8, <1>9, <1>10 DEF IInv, ControlInv

\* The interval of a section is over for an address.
LEMMA ElapseKeeps ==
  ASSUME ServersAssumption, IInv, NEW p \in Ats, Elapse(p)
  PROVE  IInv'
<1>1. /\ UNCHANGED <<server_data_users, server_status_ping, signal_interrupt, retest_flag>>
      /\ UNCHANGED <<schm, servstat_thrid, lock, asleep, thr, st, ctl, main>>
  BY DEF Elapse, counts, flags
<1>2. Kept
  <2>1. p[1] \in 1..Len(servers)
    BY DEF Ats
  <2>. QED BY <2>1, InPlace, Elapsing DEF Elapse
<1>3. TypeInv'
  BY <1>1, <1>2 DEF IInv, TypeInv, Moves, Turns, CtlInv, CtlShape, QueryPlaces,
     StatusPlaces, Visiting, Retesting, Threads, ServersAssumption, Kept
<1>4. Locked'
  BY <1>1, <1>2 DEF IInv, ControlInv, TypeInv, Locked, Moves, Turns, Owning, Threads,
     ServersAssumption
<1>5. Counted'
  BY <1>1, <1>2, Stayed DEF IInv, ControlInv, TypeInv, Counted, Moves, Turns, Using, Threads
<1>6. StaleInv'
  BY <1>1, <1>2, InPlace DEF IInv, ControlInv, StaleInv, Moves, Turns
<1>7. StartInv'
  BY <1>1, <1>2 DEF IInv, ControlInv, StartInv, Moves, Turns, Threads, ServersAssumption
<1>8. PassInv'
  BY <1>1, <1>2, InPlace DEF IInv, ControlInv, PassInv, StaleInv, Moves, Turns, Kept,
     Visiting, Retesting, Kept
<1>9. OnQueryInv'
  BY <1>1, <1>2 DEF IInv, ControlInv, OnQueryInv, Moves, Turns, Threads, ServersAssumption
<1>10. TestInBounds'
  BY <1>1, <1>2, InPlace DEF TestInBounds, Moves, Turns, Kept, Retesting, Threads
<1>11. NoLostBroadcast'
  BY <1>1, <1>2 DEF IInv, ControlInv, TypeInv, NoLostBroadcast, Counted
<1>. QED BY <1>3, <1>4, <1>5, <1>6, <1>7, <1>8, <1>9, <1>10, <1>11 DEF IInv, ControlInv

\* While the control thread has exclusive access, nobody is at a test, in a pass or reading.
LEMMA Alone ==
  ASSUME ServersAssumption, IInv, Access
  PROVE  /\ lock = Control /\ main = "running"
         /\ \A t \in Threads : thr[t].pc \notin Owning \cup Using \cup Retesting
         /\ thr[Status].pc \in {"off", "new", "sleeping", "waiting"}
<1>1. lock = Control /\ main = "running"
  BY DEF Access, IInv, ControlInv, Locked, StartInv
<1>2. Control \notin Threads
  BY DEF Threads, ServersAssumption
<1>3. \A t \in Threads : thr[t].pc \notin Owning \cup Using
  BY <1>1, <1>2, NothingFreed DEF Access, IInv, ControlInv, Locked
<1>4. \A t \in Threads : thr[t].pc \notin Retesting
  BY <1>3 DEF Owning, Using, Retesting
<1>5. thr[Status].pc \in {"off", "new", "sleeping", "waiting"}
  BY <1>3, InPlace DEF IInv, TypeInv, StatusPlaces, Visiting, Retesting, Owning, Using
<1>. QED BY <1>1, <1>3, <1>4, <1>5

\* The addresses of a section are changed.
LEMMA ChangeKeeps ==
  ASSUME ServersAssumption, IInv, Change
  PROVE  IInv'
<1>1. /\ UNCHANGED <<server_data_users, server_status_ping, signal_interrupt, schm, asleep, main>>
      /\ Access /\ ctl.op = "change" /\ lock' = Free
  BY DEF Change, counts
<1>2. CtlInv' /\ ctl'.pc = "idle"
  BY DEF Change, Done, Ups, IInv, TypeInv, CtlInv, CtlShape
<1>3. servers' \in Sections /\ Len(servers') = Len(servers)
  <2>. DEFINE new == [j \in 1..Len(ctl.new) |->
                        Marked([a |-> ctl.new[j], is_up |-> servers[ctl.i].preset, i_ts |-> "zero"], ctl.up)]
  <2>1. servers' = [servers EXCEPT ![ctl.i].atup = new, ![ctl.i].rootserver = NoDiscovery(@)]
    BY DEF Change
  <2>2. servers \in Sections
    BY InPlace
  <2>3. CASE ctl.i \in 1..Len(servers)
    <3>1. servers[ctl.i] \in servparm_t(Atup)
      BY <2>2, <2>3, Sectioned
    <3>2. servers[ctl.i].preset \in BOOLEAN /\ servers[ctl.i].rootserver \in 0..2
      BY <3>1 DEF servparm_t
    <3>3. ctl.new \in Seq(Addresses) /\ ctl.up \in Ups
      BY <1>1 DEF IInv, TypeInv, CtlInv
    <3>4. \A j \in 1..Len(ctl.new) :
            Marked([a |-> ctl.new[j], is_up |-> servers[ctl.i].preset, i_ts |-> "zero"], ctl.up) \in Atup
      <4>1. \A at \in Atup : Marked(at, ctl.up) \in Atup
        BY <3>3 DEF Marked, Ups, Atup
      <4>2. \A a \in Addresses : [a |-> a, is_up |-> servers[ctl.i].preset, i_ts |-> "zero"] \in Atup
        BY <3>2 DEF Atup
      <4>3. \A j \in 1..Len(ctl.new) : ctl.new[j] \in Addresses
        BY <3>3
      <4>. QED BY <4>1, <4>2, <4>3
    <3>5. Len(ctl.new) \in Nat
      BY <3>3
    <3>6. PICK u : u = new
      OBVIOUS
    <3>7. u \in Seq(Atup)
      BY <3>4, <3>5, <3>6
    <3>8. PICK r \in 0..2 : r = NoDiscovery(servers[ctl.i].rootserver)
      BY <3>2 DEF NoDiscovery
    <3>9. servers' = [servers EXCEPT ![ctl.i].atup = u, ![ctl.i].rootserver = r]
      BY <2>1, <2>2, <2>3, <3>6, <3>8 DEF Sections
    <3>. QED BY <2>2, <3>7, <3>9, Replaced
  <2>4. CASE ctl.i \notin 1..Len(servers)
    <3>1. servers' = servers
      BY <2>1, <2>2, <2>4 DEF Sections
    <3>. QED BY <2>2, <3>1
  <2>. QED BY <2>3, <2>4
<1>4. /\ thr' \in [Threads -> ThreadType] /\ \A u \in Queriers : thr'[u] = thr[u]
      /\ \/ thr'[Status] = thr[Status]
         \/ thr[Status].pc = "off" /\ thr'[Status].pc = "new" /\ thr'[Status].stale = thr[Status].stale
      /\ StKept /\ retest_flag' \in BOOLEAN
      /\ servstat_thrid' = "status" \/ (servstat_thrid' = servstat_thrid /\ thr' = thr)
  <2>1. Freed(Using) = thr
    BY <1>1, NothingFreed DEF Access
  <2>2. \E sig : Request(sig, thr)
    BY <2>1 DEF Change
  <2>. QED BY <1>1, <2>2, Alone, InPlace, Requesting
<1>5. /\ lock = Control /\ ctl.pc = "exclusive" /\ main = "running"
      /\ \A t \in Threads : thr[t].pc \notin Owning \cup Using \cup Retesting
  BY <1>1, Alone DEF Access
<1>6. TypeInv'
  BY <1>1, <1>2, <1>3, <1>4, <1>5 DEF IInv, TypeInv, Moves, Turns, CtlInv, CtlShape,
     QueryPlaces, StatusPlaces, Visiting, Retesting, Threads, ServersAssumption, StKept
<1>7. Locked'
  BY <1>1, <1>2, <1>3, <1>4, <1>5 DEF IInv, ControlInv, TypeInv, Locked, Moves, Turns,
     Owning, Threads, ServersAssumption
<1>8. Counted'
  BY <1>1, <1>2, <1>3, <1>4, <1>5, Stayed DEF IInv, ControlInv, TypeInv, Counted, Moves,
     Turns, Using, Threads, StKept
<1>9. StaleInv'
  BY <1>1, <1>2, <1>3, <1>4, <1>5, InPlace DEF IInv, ControlInv, StaleInv, Moves, Turns,
     Threads
<1>10. StartInv'
  BY <1>1, <1>2, <1>3, <1>4, <1>5 DEF IInv, ControlInv, StartInv, Moves, Turns, Threads,
     ServersAssumption
<1>11. PassInv'
  BY <1>1, <1>2, <1>3, <1>4, <1>5, InPlace DEF IInv, ControlInv, PassInv, StaleInv, Moves,
     Turns, Kept, Visiting, Retesting, StKept, Threads
<1>12. OnQueryInv'
  BY <1>1, <1>2, <1>3, <1>4, <1>5 DEF IInv, ControlInv, OnQueryInv, Moves, Turns, Threads,
     ServersAssumption
<1>13. TestInBounds'
  <2>1. \A u \in Threads : thr'[u].pc \notin Retesting
    BY <1>4, <1>5 DEF Retesting, Threads
  <2>. QED BY <2>1 DEF TestInBounds, Retesting
<1>14. NoLostBroadcast'
  BY <1>1, <1>2, <1>3, <1>4, <1>5 DEF IInv, ControlInv, TypeInv, NoLostBroadcast, Counted
<1>. QED BY <1>6, <1>7, <1>8, <1>9, <1>10, <1>11, <1>12, <1>13, <1>14 DEF IInv, ControlInv

\* The configuration is reloaded.
LEMMA ReloadKeeps ==
  ASSUME ServersAssumption, IInv, Reload
  PROVE  IInv'
<1>1. /\ UNCHANGED <<server_data_users, server_status_ping, signal_interrupt, retest_flag, schm,
                     asleep, main>>
      /\ Access /\ ctl.op = "reload" /\ lock' = Free
  BY DEF Reload, counts, flags
<1>2. CtlInv' /\ ctl'.pc = "idle"
  BY DEF Reload, Done, Ups, IInv, TypeInv, CtlInv, CtlShape
<1>3. servers' \in Sections
  <2>1. ctl.new \in Configs
    BY <1>1 DEF IInv, TypeInv, CtlInv
  <2>. QED BY <2>1, Parsing DEF Reload
<1>4. /\ lock = Control /\ ctl.pc = "exclusive" /\ main = "running"
      /\ \A t \in Threads : thr[t].pc \notin Owning \cup Using \cup Retesting
      /\ thr[Status].pc \in {"off", "new", "sleeping", "waiting"}
  BY <1>1, Alone DEF Access
<1>5. PICK th : th = Freed(Using \cup {"waiting", "exclusive"})
  OBVIOUS
<1>6. /\ th \in [Threads -> ThreadType]
      /\ \A t \in Threads :
           /\ th[t].pc = thr[t].pc /\ th[t].i = thr[t].i /\ th[t].n = thr[t].n
           /\ th[t].stale = (thr[t].stale \/ thr[t].pc \in Using \cup {"waiting", "exclusive"})
  BY <1>5, InPlace DEF Freed, ThreadType
<1>7. /\ thr' \in [Threads -> ThreadType] /\ \A q \in Queriers : thr'[q] = th[q]
      /\ \/ thr'[Status] = th[Status]
         \/ thr[Status].pc = "off" /\ thr'[Status].pc = "new" /\ thr'[Status].stale = th[Status].stale
      /\ StKept /\ servstat_thrid' = "status"
  <2>1. StartOrSignal(th)
    BY <1>5 DEF Reload
  <2>. QED BY <1>4, <1>6, <2>1, InPlace, Starting
<1>8. /\ \A q \in Queriers :
           /\ thr'[q].pc = thr[q].pc /\ thr'[q].i = thr[q].i /\ thr'[q].stale = thr[q].stale
           /\ thr'[q].pc \in QueryPlaces \ (Owning \cup Using \cup Retesting)
      /\ \/ /\ thr'[Status].pc = thr[Status].pc /\ thr'[Status].i = thr[Status].i
            /\ thr'[Status].stale = (thr[Status].stale \/ thr[Status].pc = "waiting")
         \/ /\ thr[Status].pc = "off" /\ thr'[Status].pc = "new"
            /\ thr'[Status].stale = thr[Status].stale
  <2>1. ASSUME NEW q \in Queriers
        PROVE  /\ q \in Threads /\ thr[q].pc \notin Using \cup {"waiting", "exclusive"}
               /\ thr[q].pc \in QueryPlaces \ (Owning \cup Using \cup Retesting)
               /\ thr[q].stale \in BOOLEAN
    BY <1>4, InPlace DEF Threads, IInv, TypeInv, QueryPlaces, Retesting, ThreadType, Using
  <2>2. \A q \in Queriers :
          /\ thr'[q].pc = thr[q].pc /\ thr'[q].i = thr[q].i /\ thr'[q].stale = thr[q].stale
          /\ thr'[q].pc \in QueryPlaces \ (Owning \cup Using \cup Retesting)
    BY <1>6, <1>7, <2>1
  <2>3. thr[Status].pc \in Using \cup {"waiting", "exclusive"} <=> thr[Status].pc = "waiting"
    BY <1>4 DEF Using
  <2>4. /\ th[Status].pc = thr[Status].pc /\ th[Status].i = thr[Status].i
        /\ th[Status].stale = (thr[Status].stale \/ thr[Status].pc = "waiting")
    BY <1>6, <2>3, InPlace
  <2>5. thr[Status].pc = "off" => th[Status].stale = thr[Status].stale
    BY <2>4, InPlace DEF ThreadType
  <2>. QED BY <1>7, <2>2, <2>4, <2>5
<1>9. TypeInv'
  BY <1>1, <1>2, <1>3, <1>4, <1>7, <1>8 DEF IInv, TypeInv, Moves, Turns, CtlInv, CtlShape,
     QueryPlaces, StatusPlaces, Visiting, Retesting, Threads, ServersAssumption, StKept
<1>10. Locked'
  BY <1>1, <1>2, <1>3, <1>4, <1>8 DEF IInv, ControlInv, TypeInv, Locked, Moves, Turns,
     Owning, Threads, ServersAssumption
<1>11. Counted'
  BY <1>1, <1>2, <1>3, <1>4, <1>8, Stayed DEF IInv, ControlInv, TypeInv, Counted, Moves,
     Turns, Using, Threads, StKept
<1>12. StaleInv'
  BY <1>1, <1>2, <1>3, <1>4, <1>8, InPlace DEF IInv, ControlInv, StaleInv, Moves, Turns,
     Threads
<1>13. StartInv'
  BY <1>1, <1>2, <1>4, <1>7, <1>8 DEF IInv, ControlInv, StartInv, Moves, Turns, Threads,
     ServersAssumption
<1>14. PassInv'
  BY <1>1, <1>4, <1>7, <1>8, InPlace DEF IInv, ControlInv, PassInv, StaleInv, Moves, Turns,
     Kept, Visiting, Retesting, StKept, Threads
<1>15. OnQueryInv'
  BY <1>1, <1>2, <1>3, <1>4, <1>8 DEF IInv, ControlInv, OnQueryInv, Moves, Turns, Threads,
     ServersAssumption
<1>16. TestInBounds'
  <2>1. \A u \in Threads : thr'[u].pc \notin Retesting
    BY <1>4, <1>8 DEF Retesting, Threads
  <2>. QED BY <2>1 DEF TestInBounds, Retesting
<1>17. NoLostBroadcast'
  BY <1>1, <1>2, <1>3, <1>4, <1>5, <1>6, <1>7, <1>8 DEF IInv, ControlInv, TypeInv,
     NoLostBroadcast, Counted
<1>. QED BY <1>9, <1>10, <1>11, <1>12, <1>13, <1>14, <1>15, <1>16, <1>17 DEF IInv,
     ControlInv

-----------------------------------------------------------------------------
(* The theorems.                                                           *)

\* The invariant holds when pdnsd starts.
LEMMA Initially ==
  ASSUME ServersAssumption, Init
  PROVE  IInv
<1>1. Status \in Threads /\ Status \notin Queriers /\ Control \notin Threads /\ Free \notin Threads
  BY DEF Threads, ServersAssumption
<1>2. servers \in Sections
  BY Parsing DEF Init
<1>3. thr \in [Threads -> ThreadType] /\ \A t \in Threads :
        /\ thr[t].pc = IF t = Status THEN "off" ELSE "idle"
        /\ thr[t].stale = FALSE
  <2>1. ASSUME NEW pc \in {"off", "idle"}
        PROVE  /\ [Idle EXCEPT !.pc = pc] \in ThreadType
               /\ [Idle EXCEPT !.pc = pc].pc = pc /\ [Idle EXCEPT !.pc = pc].stale = FALSE
    <3>1. PICK g : g = [Idle EXCEPT !.pc = pc]
      OBVIOUS
    <3>2. g = [pc |-> pc, i |-> 0, j |-> 0, n |-> 0, iter |-> 0,
               stale |-> FALSE, sig |-> FALSE, a |-> "none"]
      BY <3>1 DEF Idle
    <3>3. pc \in QueryPlaces \cup StatusPlaces
      BY DEF QueryPlaces, StatusPlaces
    <3>4. g \in ThreadType /\ g.pc = pc /\ g.stale = FALSE
      BY <3>2, <3>3 DEF ThreadType
    <3>. QED BY <3>1, <3>4
  <2>3. thr = [t \in Threads |-> [Idle EXCEPT !.pc = IF t = Status THEN "off" ELSE "idle"]]
    BY DEF Init
  <2>. QED BY <2>1, <2>3
<1>4. st \in StType /\ CtlInv
  BY DEF Init, StType, CtlInv, CtlShape, Ups
<1>5. TypeInv
  BY <1>1, <1>2, <1>3, <1>4 DEF Init, counts, flags, TypeInv, QueryPlaces, StatusPlaces, Threads
<1>6. AtPlaces(Using) = {}
  BY <1>3 DEF AtPlaces, Using
<1>7. Counted
  BY <1>1, <1>3, <1>6, FS_EmptySet DEF Init, Counted
<1>8. Locked
  BY <1>1, <1>3 DEF Init, Locked, Owning, ServersAssumption
<1>9. StaleInv /\ PassInv
  BY <1>1, <1>3 DEF StaleInv, PassInv, Visiting, Retesting
<1>10. StartInv
  BY <1>1, <1>3 DEF Init, StartInv, Threads
<1>11. OnQueryInv /\ TestInBounds
  BY <1>1, <1>3 DEF OnQueryInv, TestInBounds, Threads
<1>12. NoLostBroadcast
  BY DEF Init, NoLostBroadcast
<1>. QED BY <1>5, <1>7, <1>8, <1>9, <1>10, <1>11, <1>12 DEF IInv, ControlInv

\* A step of the status thread.
LEMMA StatusStepKeeps ==
  ASSUME ServersAssumption, IInv, StatusStep
  PROVE  IInv'
<1>1. Status \in Threads
  BY DEF Threads
<1>. QED BY <1>1, CreatedKeeps, PassKeeps, SectionKeeps, TestsKeeps, IndividualKeeps, TestedKeeps,
            ResolvKeeps, ResolveEndsKeeps, AwaitRootsKeeps, RootsWokenKeeps, RootsTimeoutKeeps,
            SetRootsKeeps, NoRootsKeeps, RootsLostKeeps, PassEndsKeeps, WakeKeeps,
            RetestKeeps, UptestKeeps, TryAgainKeeps, UptestEndsKeeps DEF StatusStep

\* A step of a thread that answers a query.
LEMMA QueryStepKeeps ==
  ASSUME ServersAssumption, IInv, NEW q \in Queriers, QueryStep(q)
  PROVE  IInv'
<1>1. q \in Threads
  BY DEF Threads
<1>. QED
  BY <1>1, TestOnqueryKeeps, OnQueryKeeps, OnQueryTestedKeeps, OnQueryEndsKeeps, LockDataKeeps,
            UnlockDataKeeps, SchedKeeps, RetestKeeps, UptestKeeps, TryAgainKeeps, UptestEndsKeeps
            DEF QueryStep

\* A step of the thread of the control socket.
LEMMA ControlStepKeeps ==
  ASSUME ServersAssumption, IInv, ControlStep
  PROVE  IInv'
<1>1. CASE CTL_SERVER
  <2>1. PICK I \in Targets, up \in Ups :
          \/ mark_servers(I, up)
          \/ \E i \in I, ar \in Lists : I = {i} /\ change_servers(i, ar, up)
    BY <1>1 DEF CTL_SERVER
  <2>2. I \subseteq Nat \ {0}
    BY InPlace DEF Targets, Named
  <2>. QED BY <2>1, <2>2, MarkServersKeeps, ChangeServersKeeps
<1>2. CASE CTL_CONFIG
  BY <1>2, ReloadConfigKeeps DEF CTL_CONFIG
<1>. QED BY <1>1, <1>2, AwaitKeeps, WokenKeeps, TimedOutKeeps, ChangeKeeps, ChangeFailsKeeps,
            ReloadKeeps DEF ControlStep

\* The invariant holds in every state, for any threads, configurations and addresses: the
\* counters are exact, servers_lock is held by who is in the middle of something, and
\* only discovery's wait is overtaken by a reload.
THEOREM Invariance == Spec => []IInv
<1>1. Init => IInv
  BY ServersAssumption, Initially
<1>2. IInv /\ [Next]_vars => IInv'
  <2>1. SUFFICES ASSUME IInv, [Next]_vars PROVE IInv'
    OBVIOUS
  <2>2. CASE Next
    BY <2>1, <2>2, ServersAssumption, StatusStepKeeps, QueryStepKeeps, ControlStepKeeps,
       MainCreatesKeeps, MainAssignsKeeps, ElapseKeeps DEF Next
  <2>3. CASE UNCHANGED vars
    <3>1. UNCHANGED <<servers, server_data_users, server_status_ping, signal_interrupt, retest_flag,
                      schm, servstat_thrid, lock, asleep, thr, st, ctl, main>>
      BY <2>3 DEF vars, counts, flags
    <3>2. TypeInv'
      BY <2>1, <3>1 DEF IInv, TypeInv, CtlInv, CtlShape
    <3>3. ControlInv'
      BY <2>1, <3>1 DEF IInv, ControlInv, Locked, Counted, AtPlaces, StaleInv, StartInv, PassInv,
         OnQueryInv, TestInBounds, NoLostBroadcast
    <3>. QED BY <3>2, <3>3 DEF IInv
  <2>. QED BY <2>1, <2>2, <2>3
<1>. QED BY <1>1, <1>2, PTL DEF Spec

\* The users of the server data are counted (lock_server_data, uptest and
\* resolv_rootserver_addrs count up, as they let go of servers_lock; the end of each counts
\* down), the data are freed only when there are none, who waits for that is woken by the
\* last of them, and no test is at a section or an address that is gone.
THEOREM DataIsGuarded == Spec => []DataGuarded
<1>1. IInv => DataGuarded
  <2>1. SUFFICES ASSUME IInv PROVE DataGuarded
    OBVIOUS
  <2>2. server_data_users = Cardinality(AtPlaces(Using))
    BY <2>1 DEF IInv, ControlInv, Counted
  <2>3. UsersCounted
    BY <2>1, <2>2 DEF IInv, ControlInv, Counted, UsersCounted, AtPlaces
  <2>4. TypeOK
    <3>1. Cardinality(AtPlaces(Using)) <= Cardinality(Threads) /\ Cardinality(Threads) \in Nat
      BY ServersAssumption, Finitely, FS_CardinalityType
    <3>2. server_data_users \in 0..Cardinality(Threads)
      BY <2>1, <2>2, <3>1 DEF IInv, TypeInv
    <3>. QED BY <2>1, <3>2 DEF IInv, TypeInv, ControlInv, Counted, TypeOK, Sections
  <2>5. NothingFreedInUse
    BY <2>1 DEF IInv, ControlInv, StaleInv, NothingFreedInUse, Using
  <2>6. TestInBounds /\ NoLostBroadcast
    BY <2>1 DEF IInv, ControlInv
  <2>. QED BY <2>3, <2>4, <2>5, <2>6 DEF DataGuarded
<1>. QED BY <1>1, Invariance, PTL

-----------------------------------------------------------------------------
(* The status thread does not sleep, or end, over work.  Beside IInv, the  *)
(* pass keeps count of what it has passed.                                 *)

\* Only test_onquery, between two sections or in a test, has still to signal.
SigInv == \A q \in Queriers : thr[q].sig => thr[q].pc \in Retesting \cup {"onquery"}

\* A pass that still has its sections remembers (keep_testing) that it has passed one that
\* is tested at intervals, and discovery begins only for a section with addresses.
KeepInv ==
  thr[Status].pc \in Visiting \cup {"section"} /\ ~ st.lost /\ ~ thr[Status].stale =>
    /\ st.n = Len(servers)
    /\ \A k \in 1..Len(servers) :
         needs_intermittent_testing(servers[k]) /\ k < thr[Status].i => st.keep
    /\ \/ thr[Status].pc = "each"
       \/ thr[Status].pc \in Retesting /\ st.mode \in {"all", "each"}
       => (needs_intermittent_testing(servers[thr[Status].i]) => st.keep)
    /\ thr[Status].pc \in {"discover", "resolving"} => Len(servers[thr[Status].i].atup) > 0

AwakeInv == SigInv /\ KeepInv /\ ThreadAwake

\* A test is asked for.
Asked == \E i \in 1..Len(servers) :
           \E j \in 1..Len(servers[i].atup) : servers[i].atup[j].i_ts = "zero"

\* The sections are the same but for their addresses.
SameSections ==
  /\ Len(servers') = Len(servers)
  /\ \A i \in 1..Len(servers) :
       needs_intermittent_testing(servers'[i]) = needs_intermittent_testing(servers[i])

LEMMA Addressed ==
  ASSUME NEW s
  PROVE  (\E i \in 1..Len(s) : \E j \in 1..Len(s[i].atup) : s[i].atup[j].i_ts = "zero")
         <=> \E p \in UNION {{i} \X (1..Len(s[i].atup)) : i \in 1..Len(s)} :
               s[p[1]].atup[p[2]].i_ts = "zero"
<1>. DEFINE A == UNION {{i} \X (1..Len(s[i].atup)) : i \in 1..Len(s)}
<1>1. ASSUME NEW i \in 1..Len(s), NEW j \in 1..Len(s[i].atup)
      PROVE  <<i, j>> \in A
  OBVIOUS
<1>2. ASSUME NEW p \in A
      PROVE  p[1] \in 1..Len(s) /\ p[2] \in 1..Len(s[p[1]].atup)
  OBVIOUS
<1>. QED BY <1>1, <1>2

\* Minwait and PromptTest speak of Asked.
LEMMA AskedAt ==
  /\ Asked <=> \E p \in Ats : At(p).i_ts = "zero"
  /\ Asked' <=> (\E p \in Ats : At(p).i_ts = "zero")'
  BY Addressed DEF Asked, Ats, At

\* As many addresses, tested or not, are put in the place of a section's.
LEMMA NewTests ==
  ASSUME servers \in Sections, NEW i \in 1..Len(servers), NEW u,
         u \in [1..Len(servers[i].atup) -> Atup], servers' = [servers EXCEPT ![i].atup = u]
  PROVE  /\ SameSections /\ Kept
         /\ (\A j \in 1..Len(servers[i].atup) :
               u[j].i_ts = "zero" => servers[i].atup[j].i_ts = "zero") => (Asked' => Asked)
<1>1. servers[i] \in servparm_t(Atup) /\ Len(servers[i].atup) \in Nat
  BY Sectioned
<1>2. Len(u) = Len(servers[i].atup)
  BY <1>1
<1>. PICK g : g = [servers[i] EXCEPT !.atup = u]
  OBVIOUS
<1>3. /\ g.atup = u /\ g.interval = servers[i].interval /\ g.uptest = servers[i].uptest
      /\ g.scheme = servers[i].scheme
  BY <1>1 DEF servparm_t
<1>4. servers' = [servers EXCEPT ![i] = g]
  OBVIOUS
<1>5. /\ Len(servers') = Len(servers)
      /\ \A k \in 1..Len(servers) : servers'[k] = IF k = i THEN g ELSE servers[k]
  BY <1>4 DEF Sections
<1>6. SameSections
  BY <1>3, <1>5 DEF SameSections, needs_intermittent_testing
<1>7. ASSUME \A j \in 1..Len(servers[i].atup) :
               u[j].i_ts = "zero" => servers[i].atup[j].i_ts = "zero",
             Asked'
      PROVE  Asked
  <2>1. PICK k \in 1..Len(servers) :
          \E j \in 1..Len(servers'[k].atup) : servers'[k].atup[j].i_ts = "zero"
    BY <1>5, <1>7 DEF Asked
  <2>2. CASE k = i
    BY <1>2, <1>3, <1>5, <1>7, <2>1, <2>2 DEF Asked
  <2>3. CASE k # i
    BY <1>5, <2>1, <2>3 DEF Asked
  <2>. QED BY <2>2, <2>3
<1>. QED BY <1>6, <1>7, NewAddresses

\* Marks, and requests for tests, in several sections.
LEMMA MarkTests ==
  ASSUME servers \in Sections, NEW P, NEW up \in Ups, servers' = MarkAll(P, up)
  PROVE  SameSections /\ Kept /\ (Asked' => Asked \/ Asks(P, up))
<1>1. Kept
  BY Marking
<1>. DEFINE u(i) == [j \in 1..Len(servers[i].atup) |->
                      IF <<i, j>> \in P THEN Marked(servers[i].atup[j], up)
                      ELSE servers[i].atup[j]]
            g(i) == [servers[i] EXCEPT !.atup = u(i)]
<1>2. \A i \in 1..Len(servers) : servers'[i] = g(i)
  BY DEF MarkAll
<1>3. ASSUME NEW i \in 1..Len(servers)
      PROVE  /\ needs_intermittent_testing(g(i)) = needs_intermittent_testing(servers[i])
             /\ g(i).atup = u(i)
  <2>1. servers[i] \in servparm_t(Atup)
    BY Sectioned
  <2>. HIDE DEF u
  <2>. QED BY <2>1 DEF servparm_t, needs_intermittent_testing
<1>. HIDE DEF g
<1>4. SameSections
  BY <1>1, <1>2, <1>3 DEF SameSections, Kept
<1>5. ASSUME Asked' PROVE Asked \/ Asks(P, up)
  <2>1. PICK i \in 1..Len(servers) :
          \E j \in 1..Len(servers[i].atup) : servers'[i].atup[j].i_ts = "zero"
    BY <1>1, <1>5 DEF Asked, Kept
  <2>. PICK j \in 1..Len(servers[i].atup) : servers'[i].atup[j].i_ts = "zero"
    BY <2>1
  <2>2. u(i)[j].i_ts = "zero" /\ servers[i].atup[j] \in Atup
    BY <1>2, <1>3, <2>1, Sectioned
  <2>3. CASE servers[i].atup[j].i_ts = "zero"
    BY <2>3 DEF Asked
  <2>4. CASE servers[i].atup[j].i_ts # "zero"
    <3>1. <<i, j>> \in P /\ up = "retest"
      BY <2>2, <2>4 DEF Marked, Atup
    <3>. QED BY <2>4, <3>1 DEF Asks, At
  <2>. QED BY <2>3, <2>4
<1>. QED BY <1>1, <1>4, <1>5

\* The result of a test, also of one not made or interrupted.
LEMMA Results ==
  ASSUME NEW at \in Atup, NEW up \in BOOLEAN, NEW kept \in BOOLEAN
  PROVE  /\ [at EXCEPT !.is_up = up, !.i_ts = IF kept THEN @ ELSE "fresh"] \in Atup
         /\ [at EXCEPT !.is_up = up, !.i_ts = "fresh"] \in Atup
         /\ [at EXCEPT !.i_ts = "fresh"] \in Atup
         /\ [at EXCEPT !.is_up = up, !.i_ts = IF kept THEN @ ELSE "fresh"].i_ts = "zero"
               => at.i_ts = "zero"
         /\ [at EXCEPT !.is_up = up, !.i_ts = "fresh"].i_ts = "fresh"
         /\ [at EXCEPT !.i_ts = "fresh"].i_ts = "fresh"
  BY DEF Atup

\* retest leaves the sections as they are but for the results, and asks for nothing.
LEMMA RetestTests ==
  ASSUME ServersAssumption, IInv, NEW t \in Threads, retest(t)
  PROVE  SameSections /\ Kept /\ (Asked' => Asked)
<1>. PICK i : i = thr[t].i
  OBVIOUS
<1>. PICK J : J = thr[t].j .. thr[t].n
  OBVIOUS
<1>1. servers \in Sections /\ i \in 1..Len(servers)
  BY InPlace DEF retest, Retesting
<1>. DEFINE atup == servers[i].atup
            d == [j \in 1..Len(atup) |->
                   IF j \in J THEN [atup[j] EXCEPT !.is_up = FALSE, !.i_ts = "fresh"] ELSE atup[j]]
            f == [j \in 1..Len(atup) |->
                   IF j \in J THEN [atup[j] EXCEPT !.i_ts = "fresh"] ELSE atup[j]]
<1>2. \/ UNCHANGED servers
      \/ servers' = [servers EXCEPT ![i].atup = d]
      \/ servers' = [servers EXCEPT ![i].atup = f]
  BY DEF retest, Update, Stamped
<1>3. CASE UNCHANGED servers
  BY <1>1, <1>3 DEF SameSections, Kept, Asked, Sections
<1>4. \A j \in 1..Len(atup) : atup[j] \in Atup
  BY <1>1, Sectioned
<1>5. CASE servers' = [servers EXCEPT ![i].atup = d]
  <2>1. /\ d \in [1..Len(atup) -> Atup]
        /\ \A j \in 1..Len(atup) : d[j].i_ts = "zero" => atup[j].i_ts = "zero"
    BY <1>4, Results
  <2>. HIDE DEF d
  <2>. QED BY ZenonT(40), <1>1, <1>5, <2>1, NewTests
<1>6. CASE servers' = [servers EXCEPT ![i].atup = f]
  <2>1. /\ f \in [1..Len(atup) -> Atup]
        /\ \A j \in 1..Len(atup) : f[j].i_ts = "zero" => atup[j].i_ts = "zero"
    BY <1>4, Results
  <2>. HIDE DEF f
  <2>. QED BY ZenonT(40), <1>1, <1>6, <2>1, NewTests
<1>. QED BY <1>2, <1>3, <1>5, <1>6

\* Nor does the end of a test ask for another.
LEMMA UptestEndsTests ==
  ASSUME ServersAssumption, IInv, NEW t \in Threads, UptestEnds(t)
  PROVE  SameSections /\ Kept /\ (Asked' => Asked)
<1>1. PICK i : i = thr[t].i
  OBVIOUS
<1>2. PICK J : J = IF servers[i].uptest \in {"ping", "query"} THEN {thr[t].j} ELSE thr[t].j .. thr[t].n
  OBVIOUS
<1>3. PICK kept \in BOOLEAN : kept <=> signal_interrupt /\ servers[i].uptest \in Pings
  OBVIOUS
<1>4. servers \in Sections /\ i \in 1..Len(servers)
  BY <1>1, InPlace DEF UptestEnds, Retesting
<1>. DEFINE atup == servers[i].atup
            u(up) == [j \in 1..Len(atup) |->
                       IF j \in J THEN [atup[j] EXCEPT !.is_up = up,
                                                       !.i_ts = IF kept THEN @ ELSE "fresh"]
                       ELSE atup[j]]
<1>5. PICK up \in BOOLEAN : servers' = [servers EXCEPT ![i].atup = u(up)]
  BY ZenonT(40), <1>1, <1>2, <1>3 DEF UptestEnds, Update
<1>6. \A j \in 1..Len(atup) : atup[j] \in Atup
  BY <1>4, Sectioned
<1>7. ASSUME NEW at \in Atup
      PROVE  /\ [at EXCEPT !.is_up = up, !.i_ts = IF kept THEN @ ELSE "fresh"] \in Atup
             /\ [at EXCEPT !.is_up = up, !.i_ts = IF kept THEN @ ELSE "fresh"].i_ts = "zero"
                   => at.i_ts = "zero"
  BY <1>3, Results, Zenon
<1>8. PICK v : v = u(up)
  OBVIOUS
<1>9. /\ v \in [1..Len(atup) -> Atup]
      /\ \A j \in 1..Len(atup) : v[j].i_ts = "zero" => atup[j].i_ts = "zero"
  BY <1>6, <1>7, <1>8
<1>10. servers' = [servers EXCEPT ![i].atup = v]
  BY <1>5, <1>8
<1>. QED BY <1>4, <1>9, <1>10, NewTests

\* A step of the status thread that does not end a pass.
LEMMA StatusAwake ==
  ASSUME ServersAssumption, IInv, AwakeInv, KeepInv',
         \A q \in Queriers : thr'[q] = thr[q], thr'[Status].pc \notin {"sleeping", "off"}
  PROVE  AwakeInv'
<1>1. SigInv'
  BY DEF AwakeInv, SigInv
<1>2. ThreadAwake'
  BY DEF ThreadAwake, PromptTest, PeriodicServed, InterruptionEnds
<1>. QED BY <1>1, <1>2 DEF AwakeInv

\* A pass stays at its section.
LEMMA Onward ==
  ASSUME ServersAssumption, IInv, KeepInv, SameSections,
         thr[Status].pc \in Visiting \cup {"section"},
         thr'[Status].i = thr[Status].i, thr'[Status].stale = thr[Status].stale,
         st'.n = st.n, st.lost => st'.lost, st.keep => st'.keep,
         \/ thr'[Status].pc = "each"
         \/ thr'[Status].pc \in Retesting /\ st'.mode \in {"all", "each"}
         => (needs_intermittent_testing(servers[thr[Status].i]) => st'.keep),
         thr'[Status].pc \in {"discover", "resolving"} => Len(servers'[thr[Status].i].atup) > 0,
         thr'[Status].pc \in Visiting => thr[Status].i <= st.n
  PROVE  KeepInv'
<1>. SUFFICES ASSUME thr'[Status].pc \in Visiting \cup {"section"}, ~ st'.lost,
                     ~ thr'[Status].stale
              PROVE  KeepInv'
  BY DEF KeepInv, Visiting, Retesting
<1>1. /\ st.n = Len(servers)
      /\ \A k \in 1..Len(servers) :
           needs_intermittent_testing(servers[k]) /\ k < thr[Status].i => st.keep
  BY DEF KeepInv
<1>2. thr'[Status].pc \in Visiting => thr[Status].i \in 1..Len(servers)
  BY <1>1, InPlace DEF IInv, ControlInv, PassInv
<1>. QED BY <1>1, <1>2 DEF KeepInv, SameSections, Visiting, Retesting

\* A pass goes to the next section, with its section counted in keep_testing.
LEMMA NextOn ==
  ASSUME ServersAssumption, IInv, KeepInv, SameSections, NextSection,
         thr[Status].pc \in Visiting \cup {"section"},
         st'.n = st.n, st.lost \/ thr[Status].stale => st'.lost, st.keep => st'.keep,
         ~ st'.lost => (needs_intermittent_testing(servers[thr[Status].i]) => st'.keep)
  PROVE  KeepInv' /\ thr'[Status].pc = "section" /\ \A q \in Queriers : thr'[q] = thr[q]
<1>1. Moves(Status, "section", thr[Status].i + 1, 0, FALSE)
  BY InPlace, NextSectioning
<1>2. thr'[Status].pc = "section" /\ \A q \in Queriers : thr'[q] = thr[q]
  BY <1>1 DEF Moves, ServersAssumption, Threads
<1>3. ASSUME ~ st'.lost PROVE KeepInv'
  <2>1. /\ st.n = Len(servers)
        /\ \A k \in 1..Len(servers) :
             needs_intermittent_testing(servers[k]) /\ k < thr[Status].i => st.keep
    BY <1>3, InPlace DEF KeepInv, StType, ThreadType
  <2>2. thr[Status].i \in Nat /\ Len(servers) \in Nat
    BY InPlace DEF ThreadType
  <2>3. \A k \in 1..Len(servers) :
          needs_intermittent_testing(servers[k]) /\ k < thr[Status].i + 1 => st'.keep
    BY <1>3, <2>1, <2>2
  <2>. QED BY <1>1, <2>1, <2>3 DEF KeepInv, SameSections, Moves, Visiting, Retesting
<1>4. ASSUME st'.lost PROVE KeepInv'
  BY <1>4 DEF KeepInv
<1>. QED BY <1>2, <1>3, <1>4

\* The end of the search for a server that is up, before root servers are discovered.
LEMMA UpAwake ==
  ASSUME ServersAssumption, IInv, KeepInv, SameSections, Kept, NEW b, OneUp(b),
         b => Count > 0, thr[Status].pc \in {"section", "tested"}, thr[Status].i <= st.n
  PROVE  /\ KeepInv' /\ thr'[Status].pc \in {"discover", "section"}
         /\ \A q \in Queriers : thr'[q] = thr[q]
<1>1. ~ thr[Status].stale /\ thr[Status].i \in 1..Len(servers) /\ Status \notin Queriers
  BY InPlace DEF IInv, ControlInv, StaleInv, ServersAssumption, Visiting, Retesting
<1>2. CASE b
  <2>1. Turns(Status, "discover") /\ UNCHANGED st
    BY <1>2, InPlace, Going DEF OneUp, StatusPlaces, Visiting
  <2>2. Len(servers'[thr[Status].i].atup) > 0
    BY <1>1, <1>2 DEF Kept, Count, Sp
  <2>3. /\ thr'[Status].pc = "discover" /\ \A q \in Queriers : thr'[q] = thr[q]
        /\ thr'[Status].i = thr[Status].i /\ thr'[Status].stale = thr[Status].stale
    BY <1>1, <2>1 DEF Turns, Moves, Threads
  <2>. QED BY <2>1, <2>2, <2>3, Onward DEF Visiting, Retesting
<1>3. CASE ~ b
  <2>1. NextSection /\ KeepIf(needs_intermittent_testing(servers[thr[Status].i]))
    BY <1>3 DEF OneUp, Sp
  <2>2. /\ st'.n = st.n /\ st'.lost = st.lost /\ (st.keep => st'.keep)
        /\ needs_intermittent_testing(servers[thr[Status].i]) => st'.keep
    BY <2>1, InPlace DEF KeepIf, StType
  <2>. QED BY <1>1, <2>1, <2>2, NextOn DEF Visiting, Retesting
<1>. QED BY <1>2, <1>3

\* A pass begins.
LEMMA PassAwake ==
  ASSUME ServersAssumption, IInv, AwakeInv, Pass
  PROVE  AwakeInv'
<1>1. Moves(Status, "section", 1, thr[Status].n, thr[Status].stale)
  BY InPlace, GoingTo DEF Pass, StatusPlaces
<1>2. st'.n = Len(servers) /\ UNCHANGED servers
  BY InPlace DEF Pass, StType
<1>3. KeepInv'
  BY <1>1, <1>2, InPlace DEF KeepInv, Moves, Visiting, Retesting
<1>. QED BY <1>1, <1>3, StatusAwake DEF Moves, Threads, ServersAssumption

\* A section of the pass is looked at.
LEMMA SectionAwake ==
  ASSUME ServersAssumption, IInv, AwakeInv, Section
  PROVE  AwakeInv'
<1>1. thr[Status].pc = "section" /\ thr[Status].i <= st.n /\ thr[Status].i \in 1..Len(servers)
  BY InPlace DEF Section
<1>2. /\ servers \in Sections /\ Count \in Nat /\ thr[Status].i \in Nat
      /\ KeepInv /\ Status \notin Queriers
  BY <1>1, InPlace, Sectioned DEF Count, Sp, AwakeInv, ServersAssumption
<1>3. SameSections /\ Kept
  <2>1. CASE UNCHANGED servers
    BY <1>2, <2>1 DEF SameSections, Kept
  <2>2. CASE Update(thr[Status].i, 1..Count, Stamped)
    <3>1. PICK i : i = thr[Status].i
      OBVIOUS
    <3>2. PICK u : u = [j \in 1..Len(servers[i].atup) |->
                         IF j \in 1..Count THEN [servers[i].atup[j] EXCEPT !.i_ts = "fresh"]
                         ELSE servers[i].atup[j]]
      OBVIOUS
    <3>3. servers' = [servers EXCEPT ![i].atup = u]
      BY <2>2, <3>1, <3>2 DEF Update, Stamped
    <3>4. i \in 1..Len(servers) /\ \A j \in 1..Len(servers[i].atup) : servers[i].atup[j] \in Atup
      BY <1>1, <1>2, <3>1, Sectioned
    <3>5. u \in [1..Len(servers[i].atup) -> Atup]
      BY <3>2, <3>4, Results
    <3>. QED BY <1>2, <3>3, <3>4, <3>5, NewTests
  <2>. QED BY <2>1, <2>2 DEF Section, OneUp
<1>4. CASE Sp.rootserver # 2
  <2>1. Turns(Status, "tests") /\ UNCHANGED st
    BY <1>4, InPlace, Going DEF Section, StatusPlaces, Visiting
  <2>2. /\ thr'[Status].pc = "tests" /\ \A q \in Queriers : thr'[q] = thr[q]
        /\ thr'[Status].i = thr[Status].i /\ thr'[Status].stale = thr[Status].stale
    BY <1>2, <2>1 DEF Turns, Moves, Threads
  <2>3. KeepInv'
    BY <1>1, <1>2, <1>3, <2>1, <2>2, Onward DEF Retesting
  <2>. QED BY <2>2, <2>3, StatusAwake
<1>5. CASE \E b : OneUp(b) /\ (b => Count > 0)
  <2>1. PICK b : OneUp(b) /\ (b => Count > 0)
    BY <1>5
  <2>. QED BY <1>1, <1>2, <1>3, <2>1, UpAwake, StatusAwake
<1>6. CASE thr' = Call(thr, Status, thr[Status].i, 1, Count) /\ st' = [st EXCEPT !.mode = "root"]
  <2>1. Moves(Status, "retest", thr[Status].i, Count, thr[Status].stale)
    BY <1>1, <1>2, <1>6, InPlace, Calling
  <2>2. /\ thr'[Status].pc = "retest" /\ \A q \in Queriers : thr'[q] = thr[q]
        /\ thr'[Status].i = thr[Status].i /\ thr'[Status].stale = thr[Status].stale
    BY <1>2, <2>1 DEF Moves, Threads
  <2>3. st'.mode = "root" /\ st'.n = st.n /\ st'.lost = st.lost /\ st'.keep = st.keep
    BY <1>6, InPlace DEF StType
  <2>4. KeepInv'
    BY <1>1, <1>2, <1>3, <2>2, <2>3, Onward DEF Retesting
  <2>. QED BY <2>2, <2>4, StatusAwake
<1>7. CASE Sp.rootserver = 2
  <2>1. PICK f \in SchemeFile :
          IF ~ scheme_ok(Sp, f)
               THEN Update(thr[Status].i, 1..Count, Stamped) /\ OneUp(FALSE)
               ELSE IF Sp.uptest \notin {"ping", "pingone", "query"}
               THEN /\ thr' = Call(thr, Status, thr[Status].i, 1, Count)
                    /\ st' = [st EXCEPT !.mode = "root"] /\ UNCHANGED servers
               ELSE IF Sp.interval = "periodic" THEN OneUp(Count > 0) /\ UNCHANGED servers
               ELSE /\ OneUp(\E j \in 1..Count : Sp.atup[j].is_up \/ Sp.atup[j].i_ts = "zero")
                    /\ Update(thr[Status].i, 1..Count, Stamped)
    BY <1>7 DEF Section
  <2>2. (\E j \in 1..Count : Sp.atup[j].is_up \/ Sp.atup[j].i_ts = "zero") => Count > 0
    BY <1>2
  <2>3. \/ OneUp(FALSE) \/ OneUp(Count > 0)
        \/ OneUp(\E j \in 1..Count : Sp.atup[j].is_up \/ Sp.atup[j].i_ts = "zero")
        \/ thr' = Call(thr, Status, thr[Status].i, 1, Count) /\ st' = [st EXCEPT !.mode = "root"]
    BY <2>1, Zenon
  <2>4. CASE OneUp(FALSE)
    BY <1>5, <2>4, Zenon
  <2>5. CASE OneUp(Count > 0)
    <3>1. PICK b : b = (Count > 0)
      OBVIOUS
    <3>2. OneUp(b)
      BY <2>5, <3>1
    <3>3. b => Count > 0
      BY <3>1
    <3>. QED BY <1>5, <3>2, <3>3, Zenon
  <2>6. CASE OneUp(\E j \in 1..Count : Sp.atup[j].is_up \/ Sp.atup[j].i_ts = "zero")
    <3>1. PICK b : b = (\E j \in 1..Count : Sp.atup[j].is_up \/ Sp.atup[j].i_ts = "zero")
      OBVIOUS
    <3>2. OneUp(b)
      BY <2>6, <3>1
    <3>3. b => Count > 0
      BY <2>2, <3>1
    <3>. QED BY <1>5, <3>2, <3>3, Zenon
  <2>. QED BY <1>6, <2>3, <2>4, <2>5, <2>6
<1>. QED BY <1>4, <1>7

\* A section's tests begin.
LEMMA TestsAwake ==
  ASSUME ServersAssumption, IInv, AwakeInv, Tests
  PROVE  AwakeInv'
<1>1. thr[Status].pc = "tests" /\ thr[Status].i \in 1..Len(servers) /\ UNCHANGED servers
  BY InPlace DEF Tests, Visiting
<1>2. /\ servers \in Sections /\ Count \in Nat /\ thr[Status].i \in Nat
      /\ KeepInv /\ Status \notin Queriers /\ SameSections
  BY <1>1, InPlace, Sectioned DEF Count, Sp, AwakeInv, ServersAssumption, SameSections
<1>3. /\ st'.n = st.n /\ st'.lost = st.lost /\ (st.keep => st'.keep)
      /\ needs_intermittent_testing(servers[thr[Status].i]) => st'.keep
  BY InPlace DEF Tests, StType, Sp, needs_testing, needs_intermittent_testing
<1>4. thr[Status].i <= st.n
  BY <1>1 DEF IInv, ControlInv, PassInv, Visiting
<1>5. CASE NextSection
  BY <1>1, <1>2, <1>3, <1>5, NextOn, StatusAwake, InPlace DEF Visiting, IInv, ControlInv, StaleInv
<1>6. CASE Turns(Status, "each") \/ Moves(Status, "retest", thr[Status].i, Count, thr[Status].stale)
  <2>1. /\ thr'[Status].pc \in {"each", "retest"} /\ \A q \in Queriers : thr'[q] = thr[q]
        /\ thr'[Status].i = thr[Status].i /\ thr'[Status].stale = thr[Status].stale
    BY <1>2, <1>6 DEF Turns, Moves, Threads
  <2>2. KeepInv'
    BY <1>1, <1>2, <1>3, <1>4, <2>1, Onward DEF Visiting
  <2>. QED BY <2>1, <2>2, StatusAwake
<1>7. \/ NextSection \/ Turns(Status, "each")
      \/ Moves(Status, "retest", thr[Status].i, Count, thr[Status].stale)
  <2>1. \/ NextSection \/ thr' = Call(thr, Status, thr[Status].i, 1, Count)
        \/ thr' = [thr EXCEPT ![Status].pc = "each", ![Status].j = 1]
    BY DEF Tests
  <2>. QED BY <1>1, <1>2, <2>1, InPlace, Calling, Counting DEF StatusPlaces, Visiting
<1>. QED BY <1>5, <1>6, <1>7

\* An address of the section is looked at.
LEMMA IndividualAwake ==
  ASSUME ServersAssumption, IInv, AwakeInv, Individual
  PROVE  AwakeInv'
<1>1. /\ thr[Status].pc = "each" /\ thr[Status].i \in 1..Len(servers) /\ thr[Status].i \in Nat
      /\ thr[Status].j \in Nat /\ thr[Status].j + 1 \in Nat /\ UNCHANGED <<servers, st>>
  BY InPlace DEF Individual, Visiting, ThreadType
<1>2. KeepInv /\ Status \notin Queriers /\ SameSections
  BY <1>1, InPlace DEF AwakeInv, ServersAssumption, SameSections
<1>3. thr[Status].i <= st.n /\ ~ thr[Status].stale
  BY <1>1 DEF IInv, ControlInv, PassInv, StaleInv, Visiting, Threads
<1>4. ~ st.lost => (needs_intermittent_testing(servers[thr[Status].i]) => st.keep)
  BY <1>1, <1>2, <1>3 DEF KeepInv, Visiting
<1>5. CASE NextSection
  BY <1>1, <1>2, <1>3, <1>4, <1>5, NextOn, StatusAwake DEF Visiting
<1>6. CASE \E n \in Nat : Turns(Status, "each") \/ Moves(Status, "retest", thr[Status].i, n, thr[Status].stale)
  <2>1. /\ thr'[Status].pc \in {"each", "retest"} /\ \A q \in Queriers : thr'[q] = thr[q]
        /\ thr'[Status].i = thr[Status].i /\ thr'[Status].stale = thr[Status].stale
    BY <1>2, <1>6 DEF Turns, Moves, Threads
  <2>2. KeepInv'
    <3>1. CASE st.lost
      BY <1>1, <3>1 DEF KeepInv
    <3>2. CASE ~ st.lost
      BY <1>1, <1>2, <1>3, <1>4, <2>1, <3>2, Onward DEF Visiting
    <3>. QED BY <3>1, <3>2
  <2>. QED BY <2>1, <2>2, StatusAwake
<1>7. \/ NextSection \/ Turns(Status, "each")
      \/ Moves(Status, "retest", thr[Status].i, thr[Status].j, thr[Status].stale)
  <2>1. \/ NextSection \/ thr' = Call(thr, Status, thr[Status].i, thr[Status].j, thr[Status].j)
        \/ thr' = [thr EXCEPT ![Status].j = @ + 1]
    BY DEF Individual
  <2>2. CASE thr' = [thr EXCEPT ![Status].j = @ + 1]
    <3>1. PICK k \in Nat : k = thr[Status].j + 1
      BY <1>1
    <3>2. thr' = [thr EXCEPT ![Status].j = k]
      BY <2>2, <3>1
    <3>. QED BY <1>1, <3>2, InPlace, Counting DEF StatusPlaces, Visiting
  <2>3. CASE thr' = Call(thr, Status, thr[Status].i, thr[Status].j, thr[Status].j)
    BY <1>1, <2>3, InPlace, Calling
  <2>. QED BY <2>1, <2>2, <2>3
<1>. QED BY <1>1, <1>5, <1>6, <1>7

\* retest has returned to servstat_thread.
LEMMA TestedAwake ==
  ASSUME ServersAssumption, IInv, AwakeInv, Tested
  PROVE  AwakeInv'
<1>1. /\ thr[Status].pc = "tested" /\ thr[Status].i \in 1..Len(servers) /\ thr[Status].i \in Nat
      /\ thr[Status].n + 1 \in Nat /\ UNCHANGED servers
  BY InPlace DEF Tested, Retesting
<1>2. KeepInv /\ Status \notin Queriers /\ SameSections /\ Kept
  BY <1>1, InPlace DEF AwakeInv, ServersAssumption, SameSections, Kept
<1>3. thr[Status].i <= st.n /\ ~ thr[Status].stale
  BY <1>1 DEF IInv, ControlInv, PassInv, StaleInv, Visiting, Retesting, Threads
<1>4. CASE st.mode = "root" /\ OneUp(\E j \in 1..Count : Sp.atup[j].is_up)
  <2>1. PICK b : b = (\E j \in 1..Count : Sp.atup[j].is_up)
    OBVIOUS
  <2>2. OneUp(b)
    BY <1>4, <2>1
  <2>3. Count \in Nat
    BY <1>1, InPlace, Sectioned DEF Count, Sp
  <2>4. b => Count > 0
    <3>1. (\E j \in 1..Count : Sp.atup[j].is_up) => Count > 0
      BY <2>3
    <3>. QED BY <2>1, <3>1
  <2>. QED BY <1>1, <1>2, <1>3, <2>2, <2>4, UpAwake, StatusAwake
<1>5. CASE st.mode = "all" /\ NextSection /\ UNCHANGED st
  <2>1. ~ st.lost => (needs_intermittent_testing(servers[thr[Status].i]) => st.keep)
    BY <1>1, <1>2, <1>3, <1>5 DEF KeepInv, Visiting, Retesting
  <2>. QED BY <1>1, <1>2, <1>3, <1>5, <2>1, NextOn, StatusAwake DEF Visiting, Retesting
<1>6. CASE /\ st.mode = "each" /\ UNCHANGED st
           /\ thr' = [thr EXCEPT ![Status].pc = "each", ![Status].j = thr[Status].n + 1]
  <2>1. ~ st.lost => (needs_intermittent_testing(servers[thr[Status].i]) => st.keep)
    BY <1>1, <1>2, <1>3, <1>6 DEF KeepInv, Visiting, Retesting
  <2>2. Turns(Status, "each")
    BY <1>1, <1>6, InPlace, Counting DEF StatusPlaces, Visiting
  <2>3. /\ thr'[Status].pc = "each" /\ \A q \in Queriers : thr'[q] = thr[q]
        /\ thr'[Status].i = thr[Status].i /\ thr'[Status].stale = thr[Status].stale
    BY <1>2, <2>2 DEF Turns, Moves, Threads
  <2>4. KeepInv'
    <3>1. CASE st.lost
      BY <1>6, <3>1 DEF KeepInv
    <3>2. CASE ~ st.lost
      BY <1>1, <1>2, <1>3, <1>6, <2>1, <2>3, <3>2, Onward DEF Visiting, Retesting
    <3>. QED BY <3>1, <3>2
  <2>. QED BY <2>3, <2>4, StatusAwake
<1>. QED BY <1>4, <1>5, <1>6 DEF Tested

\* The status thread stays at its section, in discovery or in a test.
LEMMA StaysAwake ==
  ASSUME ServersAssumption, IInv, AwakeInv, SameSections, Kept, NEW pc, Turns(Status, pc),
         \/ pc \in {"resolving", "exclusive", "waiting", "crashed"}
         \/ thr[Status].pc \in Retesting /\ pc \in Retesting /\ st'.mode = st.mode,
         thr[Status].pc = "discover" \/ pc # "resolving",
         thr[Status].pc \in Visiting,
         st'.n = st.n, st'.lost = st.lost, st.keep => st'.keep
  PROVE  AwakeInv'
<1>1. /\ thr'[Status].pc = pc /\ \A q \in Queriers : thr'[q] = thr[q]
      /\ thr'[Status].i = thr[Status].i /\ thr'[Status].stale = thr[Status].stale
  BY DEF Turns, Moves, Threads, ServersAssumption
<1>2. thr[Status].i <= st.n /\ KeepInv
  BY DEF IInv, ControlInv, PassInv, AwakeInv
<1>3. CASE st.lost \/ thr[Status].stale
  <2>1. KeepInv'
    BY <1>1, <1>3 DEF KeepInv
  <2>. QED BY <1>1, <2>1, StatusAwake DEF Retesting
<1>4. CASE ~ st.lost /\ ~ thr[Status].stale
  <2>1. /\ thr[Status].pc = "discover" => Len(servers[thr[Status].i].atup) > 0
        /\ thr[Status].pc \in Retesting /\ st.mode \in {"all", "each"}
             => (needs_intermittent_testing(servers[thr[Status].i]) => st.keep)
        /\ st.n = Len(servers)
    BY <1>2, <1>4 DEF KeepInv
  <2>2. thr[Status].i \in 1..Len(servers)
    BY <1>2, <1>4, <2>1, InPlace DEF IInv, ControlInv, PassInv
  <2>3. pc \in {"discover", "resolving"} => Len(servers'[thr[Status].i].atup) > 0
    BY <2>1, <2>2 DEF Kept, Retesting
  <2>4. KeepInv'
    BY <1>1, <1>2, <1>4, <2>1, <2>3, Onward DEF Retesting
  <2>. QED BY <1>1, <2>4, StatusAwake DEF Retesting
<1>. QED BY <1>3, <1>4

\* Discovery: the names are resolved without the lock, and then nobody may use the data.
LEMMA DiscoveryAwake ==
  ASSUME ServersAssumption, IInv, AwakeInv,
         resolv_rootserver_addrs \/ AwaitRoots \/ RootsWoken \/ RootsTimeout
  PROVE  AwakeInv'
<1>1. SameSections /\ Kept
  BY InPlace DEF SameSections, Kept, resolv_rootserver_addrs, AwaitRoots, RootsWoken, RootsTimeout
<1>2. CASE resolv_rootserver_addrs
  BY <1>1, <1>2, InPlace, Going, StaysAwake DEF resolv_rootserver_addrs, StatusPlaces, Visiting
<1>3. CASE AwaitRoots
  BY <1>1, <1>3, InPlace, Going, StaysAwake DEF AwaitRoots, StatusPlaces, Visiting
<1>4. CASE RootsWoken
  BY <1>1, <1>4, InPlace, Going, StaysAwake DEF RootsWoken, StatusPlaces, Visiting
<1>5. CASE RootsTimeout
  <2>1. st'.n = st.n /\ st'.lost = st.lost /\ (st.keep => st'.keep)
    BY <1>5, InPlace DEF RootsTimeout, StType
  <2>2. Turns(Status, "exclusive") \/ Turns(Status, "crashed")
    BY <1>5, InPlace, Going DEF RootsTimeout, StatusPlaces, Visiting
  <2>3. thr[Status].pc = "waiting"
    BY <1>5 DEF RootsTimeout
  <2>4. CASE Turns(Status, "exclusive")
    BY <1>1, <2>1, <2>3, <2>4, StaysAwake DEF Visiting
  <2>5. CASE Turns(Status, "crashed")
    BY <1>1, <2>1, <2>3, <2>5, StaysAwake DEF Visiting
  <2>. QED BY <2>2, <2>4, <2>5
<1>. QED BY <1>2, <1>3, <1>4, <1>5

\* The names are resolved, or are not.
LEMMA ResolveEndsAwake ==
  ASSUME ServersAssumption, IInv, AwakeInv, ResolveEnds
  PROVE  AwakeInv'
<1>1. thr[Status].pc = "resolving" /\ thr[Status].i \in 1..Len(servers) /\ UNCHANGED servers
  BY InPlace DEF ResolveEnds, Visiting
<1>2. SameSections /\ Kept /\ KeepInv
  BY <1>1, InPlace DEF SameSections, Kept, AwakeInv
<1>3. CASE \E a : st' = [st EXCEPT !.adrs = a, !.freed = FALSE] /\ Go(Status, "exclusive")
  <2>1. st'.n = st.n /\ st'.lost = st.lost /\ st'.keep = st.keep
    BY <1>3, InPlace DEF StType
  <2>. QED
    BY <1>1, <1>2, <1>3, <2>1, InPlace, Going, StaysAwake DEF StatusPlaces, Visiting
<1>4. CASE NextSection /\ KeepIf(Count > 0)
  <2>1. /\ ~ st.lost => Len(servers[thr[Status].i].atup) > 0
        /\ ~ thr[Status].stale
    BY <1>1, <1>2 DEF KeepInv, Visiting, IInv, ControlInv, StaleInv, Threads
  <2>2. st'.n = st.n /\ st'.lost = st.lost /\ (st'.keep <=> st.keep \/ Count > 0)
    BY <1>4, InPlace DEF KeepIf, StType
  <2>3. ~ st'.lost => st'.keep
    BY <2>1, <2>2 DEF Count, Sp
  <2>. QED BY <1>1, <1>2, <1>4, <2>1, <2>2, <2>3, NextOn, StatusAwake DEF Visiting
<1>. QED BY <1>3, <1>4 DEF ResolveEnds

\* A section gets new addresses and another word on its root servers: what is tested, and
\* how, stays.
LEMMA ReplacedSame ==
  ASSUME servers \in Sections, NEW i, NEW u, NEW r,
         servers' = [servers EXCEPT ![i].atup = u, ![i].rootserver = r]
  PROVE  /\ SameSections
         /\ \A k \in 1..Len(servers) \ {i} : servers'[k] = servers[k]
         /\ i \in 1..Len(servers) => servers'[i].atup = u
<1>1. CASE i \in 1..Len(servers)
  <2>1. servers[i] \in servparm_t(Atup)
    BY <1>1, Sectioned
  <2>2. PICK g : g = [servers[i] EXCEPT !.atup = u, !.rootserver = r]
    OBVIOUS
  <2>3. /\ g.interval = servers[i].interval /\ g.uptest = servers[i].uptest
        /\ g.scheme = servers[i].scheme /\ g.atup = u
    BY <2>1, <2>2 DEF servparm_t
  <2>4. servers' = [servers EXCEPT ![i] = g]
    BY <1>1, <2>2 DEF Sections
  <2>5. /\ Len(servers') = Len(servers)
        /\ \A k \in 1..Len(servers) : servers'[k] = IF k = i THEN g ELSE servers[k]
    BY <2>4 DEF Sections
  <2>. QED BY <2>3, <2>5 DEF SameSections, needs_intermittent_testing
<1>2. CASE i \notin 1..Len(servers)
  <2>1. servers' = servers
    BY <1>2 DEF Sections
  <2>. QED BY <1>2, <2>1 DEF SameSections
<1>. QED BY <1>1, <1>2

\* Discovery replaces the addresses of a section, or fails to.
LEMMA RootsAwake ==
  ASSUME ServersAssumption, IInv, AwakeInv, SetRoots \/ NoRoots \/ RootsLost
  PROVE  AwakeInv'
<1>1. thr[Status].pc = "exclusive" /\ KeepInv /\ thr[Status].i <= st.n
  BY DEF SetRoots, NoRoots, RootsLost, AwakeInv, IInv, ControlInv, PassInv, Visiting
<1>2. CASE SetRoots
  <2>1. SameSections
    <3>1. \E u : servers' = [servers EXCEPT ![thr[Status].i].atup = u, ![thr[Status].i].rootserver = 1]
      BY <1>2 DEF SetRoots
    <3>. QED BY <3>1, InPlace, ReplacedSame
  <2>2. Turns(Status, "tests")
    <3>1. thr' = [thr EXCEPT ![Status].pc = "tests"]
      BY <1>2, NothingFreed DEF SetRoots
    <3>. QED BY <3>1, InPlace, Going DEF Go, StatusPlaces, Visiting
  <2>3. /\ thr'[Status].pc = "tests" /\ \A q \in Queriers : thr'[q] = thr[q]
        /\ thr'[Status].i = thr[Status].i /\ thr'[Status].stale = thr[Status].stale
    BY <2>2 DEF Turns, Moves, Threads, ServersAssumption
  <2>4. st'.n = st.n /\ st'.lost = st.lost /\ st'.keep = st.keep
    BY <1>2, InPlace DEF SetRoots, StType
  <2>5. KeepInv'
    BY <1>1, <2>1, <2>3, <2>4, Onward DEF Visiting, Retesting
  <2>. QED BY <2>3, <2>5, StatusAwake
<1>3. CASE NoRoots
  <2>1. SameSections /\ NextSection /\ ~ thr[Status].stale
    BY <1>3, InPlace DEF NoRoots, SameSections
  <2>2. st'.n = st.n /\ st'.lost = st.lost /\ st'.keep = TRUE
    BY <1>3, InPlace DEF NoRoots, StType
  <2>. QED BY <1>1, <2>1, <2>2, NextOn, StatusAwake DEF Visiting
<1>4. CASE RootsLost
  <2>1. SameSections
    BY <1>4, InPlace DEF RootsLost, SameSections
  <2>2. st'.n = st.n /\ st'.lost = TRUE /\ st'.keep = st.keep
    BY <1>4, InPlace DEF RootsLost, StType
  <2>3. CASE NextSection
    BY <1>1, <2>1, <2>2, <2>3, NextOn, StatusAwake DEF Visiting
  <2>4. CASE Go(Status, "crashed")
    <3>1. Turns(Status, "crashed")
      BY <2>4, InPlace, Going DEF StatusPlaces
    <3>2. KeepInv'
      BY <2>2 DEF KeepInv
    <3>. QED BY <3>1, <3>2, StatusAwake DEF Turns, Moves, Threads, ServersAssumption
  <2>. QED BY <1>4, <2>3, <2>4 DEF RootsLost
<1>. QED BY <1>2, <1>3, <1>4

\* The thread starts, or wakes, and begins a pass.
LEMMA BeginsAwake ==
  ASSUME ServersAssumption, IInv, AwakeInv, Created \/ Wake
  PROVE  AwakeInv'
<1>1. Turns(Status, "pass")
  BY InPlace, Going DEF Created, Wake, StatusPlaces
<1>2. thr'[Status].pc = "pass" /\ \A q \in Queriers : thr'[q] = thr[q]
  BY <1>1 DEF Turns, Moves, Threads, ServersAssumption
<1>3. KeepInv'
  BY <1>2 DEF KeepInv, Visiting, Retesting
<1>. QED BY <1>2, <1>3, StatusAwake

\* The end of a pass: the thread goes to sleep with the time it looked up (Minwait), and
\* ends only if it has passed no section that is tested at intervals.
LEMMA PassEndsAwake ==
  ASSUME ServersAssumption, IInv, AwakeInv, PassEnds
  PROVE  AwakeInv'
<1>1. thr[Status].pc = "section" /\ thr[Status].i > st.n /\ UNCHANGED <<servers, main>>
  BY DEF PassEnds
<1>2. KeepInv /\ SigInv /\ ~ thr[Status].stale
  BY <1>1 DEF AwakeInv, IInv, ControlInv, StaleInv, Threads
<1>3. \E pc \in {"pass", "sleeping", "off"} : Go(Status, pc)
  BY DEF PassEnds
<1>4. /\ \A q \in Queriers : thr'[q] = thr[q]
      /\ thr'[Status].pc \in {"pass", "sleeping", "off"}
  BY <1>3, InPlace, Going DEF Turns, Moves, Threads, ServersAssumption, StatusPlaces
<1>5. KeepInv' /\ SigInv'
  BY <1>2, <1>4 DEF KeepInv, SigInv, Visiting, Retesting
<1>6. CASE Go(Status, "pass")
  <2>1. thr'[Status].pc = "pass"
    BY <1>6, InPlace, Going DEF Turns, Moves, StatusPlaces
  <2>. QED BY <1>4, <1>5, <2>1, StatusAwake
<1>7. CASE /\ signal_interrupt' = FALSE /\ st.keep /\ Go(Status, "sleeping")
           /\ st' = [st EXCEPT !.signalled = FALSE, !.wait = Minwait]
  <2>1. thr'[Status].pc = "sleeping"
    BY <1>7, InPlace, Going DEF Turns, Moves, StatusPlaces
  <2>2. st'.wait = Minwait
    BY <1>7, InPlace DEF StType
  <2>3. PromptTest'
    <3>1. SUFFICES ASSUME (\E p \in Ats : At(p).i_ts = "zero")' PROVE st'.wait = "short"
      BY DEF PromptTest
    <3>2. Asked
      BY <1>1, <3>1, AskedAt DEF Asked
    <3>. QED BY <2>2, <3>2, AskedAt DEF Minwait
  <2>4. PeriodicServed' /\ InterruptionEnds'
    BY <1>7, <2>1 DEF PeriodicServed, InterruptionEnds
  <2>. QED BY <1>5, <2>3, <2>4 DEF AwakeInv, ThreadAwake
<1>8. CASE /\ signal_interrupt' = FALSE /\ ~ st.keep /\ Go(Status, "off") /\ UNCHANGED st
  <2>1. thr'[Status].pc = "off"
    BY <1>8, InPlace, Going DEF Turns, Moves, StatusPlaces
  <2>2. PromptTest' /\ InterruptionEnds'
    BY <1>8, <2>1 DEF PromptTest, InterruptionEnds
  <2>3. PeriodicServed'
    <3>1. CASE st.lost
      BY <1>8, <3>1 DEF PeriodicServed, Astray
    <3>2. CASE ~ st.lost
      <4>1. st.n = Len(servers) /\ st.n \in Nat /\ thr[Status].i \in Nat
        BY <1>1, <1>2, <3>2, InPlace DEF KeepInv, StType, ThreadType
      <4>2. \A k \in 1..Len(servers) : ~ needs_intermittent_testing(servers[k])
        BY <1>1, <1>2, <1>8, <3>2, <4>1 DEF KeepInv
      <4>. QED BY <1>1, <4>2 DEF PeriodicServed, needs_intermittent_testing
    <3>. QED BY <3>1, <3>2
  <2>. QED BY <1>5, <2>2, <2>3 DEF AwakeInv, ThreadAwake
<1>. QED BY <1>6, <1>7, <1>8 DEF PassEnds

\* The tests of the status thread.
LEMMA StatusTestsAwake ==
  ASSUME ServersAssumption, IInv, AwakeInv,
         retest(Status) \/ uptest(Status) \/ TryAgain(Status) \/ UptestEnds(Status)
  PROVE  AwakeInv'
<1>1. thr[Status].pc \in Retesting /\ Status \in Threads
  BY InPlace DEF retest, uptest, TryAgain, UptestEnds, Retesting
<1>2. SameSections /\ Kept
  <2>1. CASE UNCHANGED servers
    BY <2>1, InPlace DEF SameSections, Kept
  <2>. QED BY <1>1, <2>1, RetestTests, UptestEndsTests DEF uptest, TryAgain
<1>3. st'.n = st.n /\ st'.lost = st.lost /\ st'.keep = st.keep /\ st'.mode = st.mode
  <2>1. UNCHANGED st \/ \E ping : st' = [st EXCEPT !.ping = ping]
    BY DEF retest, uptest, TryAgain, UptestEnds
  <2>. QED BY <2>1, InPlace DEF StType
<1>4. \E pc \in Retesting : Turns(Status, pc)
  <2>1. CASE retest(Status)
    BY <2>1, InPlace, Going DEF retest, QueryPlaces, Retesting
  <2>2. CASE uptest(Status) \/ TryAgain(Status)
    <3>1. thr[Status].iter + 1 \in Nat /\ 0 \in Nat
      BY InPlace DEF ThreadType
    <3>2. \E k \in Nat : \/ thr' = [thr EXCEPT ![Status].pc = "testing", ![Status].iter = k]
                         \/ thr[Status].pc = "testing" /\ thr' = [thr EXCEPT ![Status].iter = k]
      BY <2>2, <3>1 DEF uptest, TryAgain
    <3>. QED BY <1>1, <3>2, InPlace, Trying DEF Retesting
  <2>3. CASE UptestEnds(Status)
    <3>1. thr[Status].j + 1 \in Nat
      BY InPlace DEF ThreadType
    <3>2. \/ Go(Status, "tested")
          \/ \E k \in Nat : thr' = [thr EXCEPT ![Status].pc = "uptest", ![Status].j = k]
      BY <2>3, <3>1 DEF UptestEnds
    <3>. QED BY <1>1, <3>2, InPlace, Going, Counting DEF QueryPlaces, Retesting
  <2>. QED BY <2>1, <2>2, <2>3
<1>5. PICK pc \in Retesting : Turns(Status, pc)
  BY <1>4
<1>6. thr[Status].pc \in Visiting /\ pc # "resolving"
  BY <1>1 DEF Visiting, Retesting
<1>. QED BY <1>1, <1>2, <1>3, <1>5, <1>6, StaysAwake

\* What the other threads do to the status thread's locals: they may signal.
StLike ==
  /\ st'.keep = st.keep /\ st'.mode = st.mode /\ st'.n = st.n /\ st'.lost = st.lost
  /\ st'.wait = st.wait /\ (st.signalled => st'.signalled)

\* A step of another thread, which may start the status thread or, with a command,
\* interrupt its test.
LEMMA OthersAwake ==
  ASSUME ServersAssumption, IInv, AwakeInv, SameSections, SigInv', StLike,
         thr'[Status].pc = "sleeping" /\ Asked' =>
           \/ st'.signalled
           \/ Asked /\ (\E q \in Queriers : thr[q].sig) => \E q \in Queriers : thr'[q].sig,
         thr'[Status].pc = "sleeping" /\ Asked' /\ ~ Asked =>
           st'.signalled \/ \E q \in Queriers : thr'[q].sig,
         \/ thr'[Status] = thr[Status]
         \/ thr[Status].pc = "off" /\ thr'[Status].pc = "new",
         thr[Status].pc \in {"discover", "resolving"} =>
           Len(servers'[thr[Status].i].atup) = Len(servers[thr[Status].i].atup),
         servstat_thrid' \in {servstat_thrid, "status"},
         main' = main \/ main # "create" \/ thr'[Status].pc = "new",
         signal_interrupt' => signal_interrupt \/ thr[Status].pc = "testing"
  PROVE  AwakeInv'
<1>1. KeepInv /\ PromptTest /\ PeriodicServed /\ InterruptionEnds
  BY DEF AwakeInv, ThreadAwake
<1>2. CASE thr[Status].pc = "off" /\ thr'[Status].pc = "new"
  <2>1. KeepInv' /\ ThreadAwake'
    BY <1>2 DEF KeepInv, ThreadAwake, PromptTest, PeriodicServed, InterruptionEnds, Visiting,
       Retesting
  <2>. QED BY <2>1 DEF AwakeInv
<1>3. CASE thr'[Status] = thr[Status]
  <2>1. KeepInv'
    <3>1. SUFFICES ASSUME thr[Status].pc \in Visiting \cup {"section"}, ~ st.lost,
                          ~ thr[Status].stale
                   PROVE  KeepInv'
      BY <1>3 DEF KeepInv, StLike, Visiting, Retesting
    <3>2. thr[Status].pc \in Retesting \cup {"each"} => thr[Status].i \in 1..Len(servers)
      BY InPlace DEF Visiting, Retesting
    <3>. QED BY <1>1, <1>3, <3>1, <3>2 DEF KeepInv, SameSections, StLike, Visiting, Retesting
  <2>2. PromptTest'
    <3>1. SUFFICES ASSUME thr[Status].pc = "sleeping", Asked', ~ st'.signalled
                   PROVE  st'.wait = "short" \/ \E q \in Queriers : thr'[q].sig
      BY <1>3, AskedAt DEF PromptTest
    <3>2. CASE Asked
      <4>1. st.wait = "short" \/ \E q \in Queriers : thr[q].sig
        BY <1>1, <3>1, <3>2, AskedAt DEF PromptTest, StLike
      <4>. QED BY <1>3, <3>1, <3>2, <4>1 DEF StLike
    <3>3. CASE ~ Asked
      BY <1>3, <3>1, <3>3
    <3>. QED BY <3>2, <3>3
  <2>3. PeriodicServed'
    <3>1. SUFFICES ASSUME \E i \in 1..Len(servers) : needs_intermittent_testing(servers[i]),
                          thr[Status].pc = "off"
                   PROVE  Astray' \/ main' = "create"
      BY <1>3 DEF PeriodicServed, SameSections, needs_intermittent_testing
    <3>2. Astray \/ main = "create"
      BY <1>1, <3>1 DEF PeriodicServed
    <3>. QED BY <1>3, <3>1, <3>2 DEF Astray, StaleId, StLike
  <2>4. InterruptionEnds'
    BY <1>1, <1>3 DEF InterruptionEnds
  <2>. QED BY <2>1, <2>2, <2>3, <2>4 DEF AwakeInv, ThreadAwake
<1>. QED BY <1>2, <1>3

\* A step that neither asks for a test nor ends test_onquery.
LEMMA QuietAwake ==
  ASSUME ServersAssumption, IInv, AwakeInv, SameSections, SigInv', StLike,
         Asked' => Asked,
         \A q \in Queriers : thr[q].sig => thr'[q].sig,
         thr'[Status] = thr[Status],
         thr[Status].pc \in {"discover", "resolving"} =>
           Len(servers'[thr[Status].i].atup) = Len(servers[thr[Status].i].atup),
         UNCHANGED <<servstat_thrid, main>>,
         signal_interrupt' => signal_interrupt \/ thr[Status].pc = "testing"
  PROVE  AwakeInv'
  BY OthersAwake

\* Where a thread goes, with what it has to signal (rv of test_onquery).
LEMMA Carrying ==
  ASSUME thr \in [Threads -> ThreadType], NEW t \in Threads,
         NEW pc \in QueryPlaces \cup StatusPlaces, NEW k \in Nat,
         \/ Go(t, pc)
         \/ thr' = [thr EXCEPT ![t].pc = pc, ![t].i = k]
         \/ thr' = [thr EXCEPT ![t].pc = pc, ![t].j = k]
         \/ thr' = [thr EXCEPT ![t].pc = pc, ![t].iter = k]
         \/ thr[t].pc = pc /\ thr' = [thr EXCEPT ![t].i = k]
         \/ thr[t].pc = pc /\ thr' = [thr EXCEPT ![t].iter = k]
         \/ pc = "retest" /\ \E n : thr' = Call(thr, t, k, 1, n)
  PROVE  thr'[t].pc = pc /\ thr'[t].sig = thr[t].sig /\ \A u \in Threads \ {t} : thr'[u] = thr[u]
<1>1. PICK g : /\ thr' = [thr EXCEPT ![t] = g]
               /\ \/ g = [thr[t] EXCEPT !.pc = pc]
                  \/ g = [thr[t] EXCEPT !.pc = pc, !.i = k]
                  \/ g = [thr[t] EXCEPT !.pc = pc, !.j = k]
                  \/ g = [thr[t] EXCEPT !.pc = pc, !.iter = k]
                  \/ thr[t].pc = pc /\ g = [thr[t] EXCEPT !.i = k]
                  \/ thr[t].pc = pc /\ g = [thr[t] EXCEPT !.iter = k]
                  \/ \E n : g = [thr[t] EXCEPT !.pc = pc, !.i = k, !.j = 1, !.n = n]
  BY ZenonT(40) DEF Go, Call
<1>2. g.pc = pc /\ g.sig = thr[t].sig
  BY ZenonT(40), <1>1 DEF ThreadType
<1>. QED BY <1>1, <1>2

\* What it has to signal changes.
LEMMA Signing ==
  ASSUME thr \in [Threads -> ThreadType], NEW t \in Threads,
         NEW pc \in QueryPlaces \cup StatusPlaces, NEW k \in Nat, NEW sig \in BOOLEAN,
         \/ thr' = [thr EXCEPT ![t].pc = pc, ![t].i = k, ![t].sig = sig]
         \/ thr[t].pc = pc /\ thr' = [thr EXCEPT ![t].i = k, ![t].sig = sig]
  PROVE  thr'[t].pc = pc /\ thr'[t].sig = sig /\ \A u \in Threads \ {t} : thr'[u] = thr[u]
<1>1. PICK g : /\ thr' = [thr EXCEPT ![t] = g]
               /\ \/ g = [thr[t] EXCEPT !.pc = pc, !.i = k, !.sig = sig]
                  \/ thr[t].pc = pc /\ g = [thr[t] EXCEPT !.i = k, !.sig = sig]
  OBVIOUS
<1>2. g.pc = pc /\ g.sig = sig
  BY <1>1 DEF ThreadType
<1>. QED BY <1>1, <1>2

\* The tests of a query thread.
LEMMA QueryTestsAwake ==
  ASSUME ServersAssumption, IInv, AwakeInv, NEW q \in Queriers,
         retest(q) \/ uptest(q) \/ TryAgain(q) \/ UptestEnds(q)
  PROVE  AwakeInv'
<1>1. q \in Threads /\ q # Status /\ thr[q].pc \in Retesting
  BY DEF Threads, ServersAssumption, retest, uptest, TryAgain, UptestEnds, Retesting
<1>2. SameSections /\ Kept /\ (Asked' => Asked)
  <2>1. CASE UNCHANGED servers
    BY <2>1, InPlace DEF SameSections, Kept, Asked
  <2>. QED BY <1>1, <2>1, RetestTests, UptestEndsTests DEF uptest, TryAgain
<1>3. StLike
  <2>1. UNCHANGED st \/ \E ping : st' = [st EXCEPT !.ping = ping]
    BY DEF retest, uptest, TryAgain, UptestEnds
  <2>. QED BY <2>1, InPlace DEF StLike, StType
<1>4. /\ thr'[q].pc \in Retesting /\ thr'[q].sig = thr[q].sig
      /\ \A u \in Threads \ {q} : thr'[u] = thr[u]
  <2>1. thr[q].j + 1 \in Nat /\ thr[q].iter + 1 \in Nat /\ 0 \in Nat /\ thr[q].sig \in BOOLEAN
    BY <1>1, InPlace DEF ThreadType
  <2>2. PICK pc \in Retesting, k \in Nat :
          \/ Go(q, pc)
          \/ thr' = [thr EXCEPT ![q].pc = pc, ![q].j = k]
          \/ thr' = [thr EXCEPT ![q].pc = pc, ![q].iter = k]
          \/ thr[q].pc = pc /\ thr' = [thr EXCEPT ![q].iter = k]
    BY <2>1 DEF retest, uptest, TryAgain, UptestEnds, Retesting
  <2>3. pc \in QueryPlaces \cup StatusPlaces /\ q \in Threads
    BY <1>1 DEF QueryPlaces
  <2>4. CASE Go(q, pc)
    BY <1>1, <2>2, <2>3, <2>4, InPlace, Carrying
  <2>5. CASE \/ thr' = [thr EXCEPT ![q].pc = pc, ![q].j = k]
             \/ thr' = [thr EXCEPT ![q].pc = pc, ![q].iter = k]
             \/ thr[q].pc = pc /\ thr' = [thr EXCEPT ![q].iter = k]
    <3>1. k \in Nat /\ thr \in [Threads -> ThreadType]
      BY <2>2, InPlace
    <3>2. /\ thr'[q].pc = pc /\ thr'[q].sig = thr[q].sig
          /\ \A u \in Threads \ {q} : thr'[u] = thr[u]
      BY <2>3, <2>5, <3>1, Carrying
    <3>. QED BY <2>2, <3>2
  <2>. QED BY <2>2, <2>4, <2>5
<1>5. SigInv'
  BY <1>1, <1>4 DEF AwakeInv, SigInv, Threads
<1>6. UNCHANGED <<servstat_thrid, main, signal_interrupt>>
  BY DEF retest, uptest, TryAgain, UptestEnds, flags
<1>7. thr'[Status] = thr[Status] /\ \A u \in Queriers : thr[u].sig => thr'[u].sig
  BY <1>1, <1>4 DEF Threads
<1>8. thr[Status].pc \in {"discover", "resolving"} =>
        Len(servers'[thr[Status].i].atup) = Len(servers[thr[Status].i].atup)
  BY <1>2, InPlace DEF Kept, Visiting, Retesting
<1>. QED BY <1>2, <1>3, <1>5, <1>6, <1>7, <1>8, QuietAwake

\* test_onquery goes through the sections, and remembers to signal.
LEMMA OnQueryAwake ==
  ASSUME ServersAssumption, IInv, AwakeInv, NEW q \in Queriers,
         test_onquery(q) \/ OnQuery(q) \/ OnQueryTested(q)
  PROVE  AwakeInv'
<1>1. /\ q \in Threads /\ q # Status /\ thr[q] \in ThreadType
      /\ UNCHANGED <<servstat_thrid, main, signal_interrupt, st>>
      /\ thr[q].sig \in BOOLEAN /\ thr[q].i + 1 \in Nat /\ thr[q].i \in Nat
      /\ {"onquery", "retest"} \subseteq QueryPlaces
  <2>1. UNCHANGED <<servstat_thrid, main, signal_interrupt, st>>
    BY DEF test_onquery, OnQuery, OnQueryTested, flags
  <2>2. q \in Threads /\ q # Status /\ thr[q] \in ThreadType
    BY InPlace DEF Threads, ServersAssumption
  <2>3. thr[q].sig \in BOOLEAN /\ thr[q].i + 1 \in Nat /\ thr[q].i \in Nat
    BY <2>2 DEF ThreadType
  <2>. QED BY <2>1, <2>2, <2>3 DEF QueryPlaces, Retesting
<1>2. CASE test_onquery(q) \/ OnQueryTested(q)
  <2>1. SameSections /\ (Asked' => Asked)
    BY <1>2, InPlace DEF SameSections, Asked, test_onquery, OnQueryTested
  <2>2. /\ thr'[q].pc = "onquery" /\ thr[q].sig = thr'[q].sig
        /\ \A u \in Threads \ {q} : thr'[u] = thr[u]
    <3>1. CASE test_onquery(q)
      <4>1. thr' = [thr EXCEPT ![q].pc = "onquery", ![q].i = 1, ![q].sig = FALSE]
        BY <3>1 DEF test_onquery
      <4>2. thr[q].sig = FALSE
        BY <1>1, <3>1 DEF test_onquery, AwakeInv, SigInv, Retesting, ThreadType
      <4>. QED BY <1>1, <4>1, <4>2, InPlace, Signing
    <3>2. CASE OnQueryTested(q)
      <4>1. \E k \in Nat : thr' = [thr EXCEPT ![q].pc = "onquery", ![q].i = k]
        BY <1>1, <3>2 DEF OnQueryTested
      <4>. QED BY <1>1, <4>1, InPlace, Carrying
    <3>. QED BY <1>2, <3>1, <3>2
  <2>3. SigInv'
    BY <1>1, <2>2 DEF AwakeInv, SigInv, Threads
  <2>4. StLike /\ UNCHANGED servers
    BY <1>1, <1>2 DEF StLike, test_onquery, OnQueryTested
  <2>. QED BY <1>1, <2>1, <2>2, <2>3, <2>4, QuietAwake DEF Threads
<1>3. CASE OnQuery(q)
  <2>1. /\ \A u \in Threads \ {q} : thr'[u] = thr[u]
        /\ thr'[q].pc \in {"retest", "onquery"} /\ (thr[q].sig => thr'[q].sig)
        /\ UNCHANGED servers \/ (thr'[q].sig /\ Update(thr[q].i, 1..Len(servers[thr[q].i].atup),
                                                      LAMBDA at : [at EXCEPT !.i_ts = "zero"]))
    <3>1. CASE /\ thr' = Call(thr, q, thr[q].i, 1, Len(servers[thr[q].i].atup))
               /\ UNCHANGED servers
      BY <1>1, <3>1, InPlace, Carrying
    <3>2. CASE /\ Update(thr[q].i, 1..Len(servers[thr[q].i].atup),
                         LAMBDA at : [at EXCEPT !.i_ts = "zero"])
               /\ thr' = [thr EXCEPT ![q].i = @ + 1, ![q].sig = TRUE]
      <4>1. \E k \in Nat : thr[q].pc = "onquery" /\ thr' = [thr EXCEPT ![q].i = k, ![q].sig = TRUE]
        BY <1>1, <1>3, <3>2 DEF OnQuery
      <4>2. /\ \A u \in Threads \ {q} : thr'[u] = thr[u]
            /\ thr'[q].pc = "onquery" /\ thr'[q].sig = TRUE
        <5>1. PICK sig \in BOOLEAN, k \in Nat :
                sig /\ thr[q].pc = "onquery" /\ thr' = [thr EXCEPT ![q].i = k, ![q].sig = sig]
          BY <4>1
        <5>2. "onquery" \in QueryPlaces \cup StatusPlaces
          BY <1>1
        <5>. QED BY <1>1, <5>1, <5>2, InPlace, Signing
      <4>. QED BY <3>2, <4>2
    <3>3. CASE thr' = [thr EXCEPT ![q].i = @ + 1] /\ UNCHANGED servers
      <4>1. \E k \in Nat : thr[q].pc = "onquery" /\ thr' = [thr EXCEPT ![q].i = k]
        BY <1>1, <1>3, <3>3 DEF OnQuery
      <4>. QED BY <1>1, <3>3, <4>1, InPlace, Carrying
    <3>. QED BY <1>3, <3>1, <3>2, <3>3 DEF OnQuery
  <2>2. thr[q].i \in 1..Len(servers)
    BY <1>3, InPlace DEF OnQuery, IInv, ControlInv, OnQueryInv
  <2>3. SameSections /\ Kept
    <3>1. CASE UNCHANGED servers
      BY <3>1, InPlace DEF SameSections, Kept
    <3>2. ASSUME NEW i \in 1..Len(servers),
                 Update(i, 1..Len(servers[i].atup), LAMBDA at : [at EXCEPT !.i_ts = "zero"])
          PROVE  SameSections /\ Kept
      <4>1. \A at \in Atup : [at EXCEPT !.i_ts = "zero"] \in Atup
        BY DEF Atup
      <4>2. PICK u : u = [j \in 1..Len(servers[i].atup) |->
                           IF j \in 1..Len(servers[i].atup)
                           THEN [servers[i].atup[j] EXCEPT !.i_ts = "zero"] ELSE servers[i].atup[j]]
        OBVIOUS
      <4>3. servers' = [servers EXCEPT ![i].atup = u]
        BY <3>2, <4>2 DEF Update
      <4>4. u \in [1..Len(servers[i].atup) -> Atup]
        BY <4>1, <4>2, InPlace, Sectioned
      <4>. QED BY <4>3, <4>4, InPlace, NewTests
    <3>. QED BY <2>1, <2>2, <3>1, <3>2
  <2>4. SigInv'
    BY <1>1, <2>1 DEF AwakeInv, SigInv, Threads, Retesting
  <2>5. Asked' => Asked \/ thr'[q].sig
    BY <2>1 DEF Asked
  <2>6. StLike
    BY <1>1 DEF StLike
  <2>7. thr[Status].pc \in {"discover", "resolving"} =>
          Len(servers'[thr[Status].i].atup) = Len(servers[thr[Status].i].atup)
    BY <2>3, InPlace DEF Kept, Visiting, Retesting
  <2>8. thr'[Status] = thr[Status] /\ \A u \in Queriers : thr[u].sig => thr'[u].sig
    BY <1>1, <2>1 DEF Threads
  <2>. QED BY <1>1, <2>3, <2>4, <2>5, <2>6, <2>7, <2>8, OthersAwake
<1>. QED BY <1>2, <1>3

\* The status thread is woken: if it sleeps, the signal is kept.
LEMMA Signalled ==
  ASSUME ServersAssumption, IInv, main = "running", NEW th \in [Threads -> ThreadType],
         th[Status].pc = thr[Status].pc, StartOrSignal(th)
  PROVE  /\ StLike /\ (thr'[Status].pc = "sleeping" => st'.signalled)
         /\ \A q \in Queriers : thr'[q] = th[q]
         /\ thr'[Status] = th[Status] \/ (thr[Status].pc = "off" /\ thr'[Status].pc = "new")
         /\ servstat_thrid' = "status"
<1>1. /\ \A q \in Queriers : thr'[q] = th[q]
      /\ thr'[Status] = th[Status] \/ (thr[Status].pc = "off" /\ thr'[Status].pc = "new")
      /\ servstat_thrid' = "status"
  BY Starting
<1>2. CASE servstat_thrid = "main"
  <2>1. thr[Status].pc = "off" /\ thr' = [th EXCEPT ![Status].pc = "new"] /\ UNCHANGED st
    BY <1>2 DEF StartOrSignal, IInv, ControlInv, StartInv
  <2>2. thr'[Status].pc = "new"
    BY <2>1, InPlace DEF ThreadType
  <2>. QED BY <1>1, <2>1, <2>2 DEF StLike
<1>3. CASE servstat_thrid # "main"
  <2>1. thr' = th /\ st' = [st EXCEPT !.signalled = @ \/ thr[Status].pc = "sleeping"]
    BY <1>3 DEF StartOrSignal
  <2>2. /\ StLike /\ (thr[Status].pc = "sleeping" => st'.signalled)
    BY <2>1, InPlace DEF StLike, StType
  <2>. QED BY <1>1, <2>1, <2>2
<1>. QED BY <1>2, <1>3

\* A request for tests, if there is one.
LEMMA Requested ==
  ASSUME ServersAssumption, IInv, main = "running", NEW th \in [Threads -> ThreadType],
         th[Status].pc = thr[Status].pc, NEW sig \in BOOLEAN, Request(sig, th)
  PROVE  /\ StLike /\ (sig /\ thr'[Status].pc = "sleeping" => st'.signalled)
         /\ \A q \in Queriers : thr'[q] = th[q]
         /\ thr'[Status] = th[Status] \/ (thr[Status].pc = "off" /\ thr'[Status].pc = "new")
         /\ servstat_thrid' \in {servstat_thrid, "status"}
<1>1. CASE sig
  BY <1>1, Signalled DEF Request
<1>2. CASE ~ sig
  BY <1>2 DEF Request, StLike
<1>. QED BY <1>1, <1>2

\* test_onquery has gone through the sections, and signals.
LEMMA OnQueryEndsAwake ==
  ASSUME ServersAssumption, IInv, AwakeInv, NEW q \in Queriers, OnQueryEnds(q)
  PROVE  AwakeInv'
<1>1. /\ q \in Threads /\ q # Status /\ thr[q] \in ThreadType /\ thr[q].sig \in BOOLEAN
      /\ UNCHANGED <<servers, signal_interrupt, main>> /\ main = "running"
  BY InPlace DEF Threads, ServersAssumption, OnQueryEnds, ThreadType, IInv, ControlInv, StartInv
<1>2. PICK g : g = [Idle EXCEPT !.pc = "ready"]
  OBVIOUS
<1>3. g \in ThreadType /\ g.sig = FALSE
  <2>1. g = [pc |-> "ready", i |-> 0, j |-> 0, n |-> 0, iter |-> 0,
             stale |-> FALSE, sig |-> FALSE, a |-> "none"]
    BY <1>2 DEF Idle
  <2>. QED BY <2>1 DEF ThreadType, QueryPlaces
<1>4. PICK th : th = [thr EXCEPT ![q] = g]
  OBVIOUS
<1>5. /\ th \in [Threads -> ThreadType] /\ th[q] = g /\ th[Status] = thr[Status]
      /\ \A u \in Threads \ {q} : th[u] = thr[u]
  BY <1>1, <1>3, <1>4, InPlace
<1>6. PICK sig \in BOOLEAN : sig = thr[q].sig /\ Request(sig, th)
  BY <1>1, <1>2, <1>4 DEF OnQueryEnds
<1>7. /\ StLike /\ (sig /\ thr'[Status].pc = "sleeping" => st'.signalled)
      /\ \A u \in Queriers : thr'[u] = th[u]
      /\ thr'[Status] = th[Status] \/ (thr[Status].pc = "off" /\ thr'[Status].pc = "new")
      /\ servstat_thrid' \in {servstat_thrid, "status"}
  BY <1>1, <1>5, <1>6, Requested
<1>8. SameSections /\ (Asked' => Asked)
  BY <1>1, InPlace DEF SameSections, Asked
<1>9. SigInv'
  BY <1>1, <1>3, <1>5, <1>7 DEF AwakeInv, SigInv, Threads
<1>10. thr'[Status].pc = "sleeping" /\ (\E u \in Queriers : thr[u].sig) =>
         st'.signalled \/ \E u \in Queriers : thr'[u].sig
  BY <1>1, <1>5, <1>6, <1>7 DEF Threads
<1>. QED BY <1>1, <1>5, <1>7, <1>8, <1>9, <1>10, OthersAwake

\* The sections are read, and a test may be asked for afterwards.
LEMMA ReadingAwake ==
  ASSUME ServersAssumption, IInv, AwakeInv, NEW q \in Queriers,
         lock_server_data(q) \/ unlock_server_data(q)
  PROVE  AwakeInv'
<1>1. /\ q \in Threads /\ q # Status /\ thr[q].sig = FALSE
      /\ UNCHANGED <<servers, servstat_thrid, signal_interrupt, st, main>>
  BY InPlace DEF Threads, ServersAssumption, lock_server_data, unlock_server_data, flags, AwakeInv,
     SigInv, Retesting, ThreadType
<1>2. thr'[q].sig = FALSE /\ \A u \in Threads \ {q} : thr'[u] = thr[u]
  <2>1. CASE lock_server_data(q)
    <3>1. Go(q, "reading") /\ "reading" \in QueryPlaces \cup StatusPlaces /\ 0 \in Nat
      BY <2>1 DEF lock_server_data, QueryPlaces
    <3>. QED BY <1>1, <3>1, InPlace, Carrying
  <2>2. CASE unlock_server_data(q)
    <3>1. PICK g : thr' = [thr EXCEPT ![q] = g] /\ (g = Idle \/ \E a : g = [Idle EXCEPT !.pc = "asking", !.a = a])
      BY <2>2 DEF unlock_server_data
    <3>2. Idle.sig = FALSE
      BY DEF Idle
    <3>3. ASSUME NEW a, g = [Idle EXCEPT !.pc = "asking", !.a = a]
          PROVE  g.sig = FALSE
      <4>1. g = [pc |-> "asking", i |-> 0, j |-> 0, n |-> 0, iter |-> 0,
                 stale |-> FALSE, sig |-> FALSE, a |-> a]
        BY <3>3 DEF Idle
      <4>. QED BY <4>1
    <3>4. g.sig = FALSE
      BY <3>1, <3>2, <3>3
    <3>. QED BY <1>1, <3>1, <3>4, InPlace
  <2>. QED BY <2>1, <2>2
<1>3. SigInv'
  BY <1>1, <1>2 DEF AwakeInv, SigInv, Threads
<1>4. StLike /\ SameSections /\ (Asked' => Asked)
  BY <1>1, InPlace DEF StLike, SameSections, Asked
<1>5. thr'[Status] = thr[Status] /\ \A u \in Queriers : thr[u].sig => thr'[u].sig
  BY <1>1, <1>2 DEF Threads
<1>. QED BY <1>1, <1>3, <1>4, <1>5, QuietAwake

\* A query has found a server down, or wants it tested.
LEMMA SchedAwake ==
  ASSUME ServersAssumption, IInv, AwakeInv, NEW q \in Queriers, sched_server_test(q)
  PROVE  AwakeInv'
<1>1. /\ q \in Threads /\ q # Status /\ thr[q].sig = FALSE
      /\ UNCHANGED <<servstat_thrid, signal_interrupt, main>>
      /\ thr' = [thr EXCEPT ![q] = Idle]
  BY InPlace DEF Threads, ServersAssumption, sched_server_test, flags, AwakeInv,
     SigInv, Retesting, ThreadType
<1>. DEFINE Mine == {p \in Ats : At(p).a = thr[q].a}
<1>0. PICK up \in Ups :
        /\ servers' = MarkAll(Mine, up)
        /\ st' = [st EXCEPT !.signalled = @ \/ (Asks(Mine, up) /\ thr[Status].pc = "sleeping")]
  BY DEF sched_server_test, Ups
<1>2. PICK P :
        /\ servers' = MarkAll(P, up)
        /\ st' = [st EXCEPT !.signalled = @ \/ (Asks(P, up) /\ thr[Status].pc = "sleeping")]
  BY <1>0
<1>3. SameSections /\ Kept /\ (Asked' => Asked \/ Asks(P, up))
  BY <1>2, InPlace, MarkTests
<1>4. StLike /\ (Asks(P, up) /\ thr[Status].pc = "sleeping" => st'.signalled)
  BY <1>2, InPlace DEF StLike, StType
<1>5. thr'[q].sig = FALSE /\ \A u \in Threads \ {q} : thr'[u] = thr[u]
  <2>1. Idle.sig = FALSE
    BY DEF Idle
  <2>. QED BY <1>1, <2>1, InPlace
<1>6. SigInv'
  BY <1>1, <1>5 DEF AwakeInv, SigInv, Threads
<1>7. thr'[Status] = thr[Status] /\ \A u \in Queriers : thr[u].sig => thr'[u].sig
  BY <1>1, <1>5 DEF Threads
<1>8. thr[Status].pc \in {"discover", "resolving"} =>
        Len(servers'[thr[Status].i].atup) = Len(servers[thr[Status].i].atup)
  BY <1>3, InPlace DEF Kept, Visiting, Retesting
<1>. QED BY <1>1, <1>3, <1>4, <1>6, <1>7, <1>8, OthersAwake

\* A command marks servers, or asks for tests of them.
LEMMA MarkedAwake ==
  ASSUME ServersAssumption, IInv, AwakeInv, main = "running", NEW P, NEW up \in Ups,
         NEW sig \in BOOLEAN, servers' = MarkAll(P, up), Asks(P, up) => sig, Request(sig, thr),
         UNCHANGED <<signal_interrupt, main>>
  PROVE  AwakeInv'
<1>1. SameSections /\ Kept /\ (Asked' => Asked \/ sig)
  BY InPlace, MarkTests
<1>2. /\ StLike /\ (sig /\ thr'[Status].pc = "sleeping" => st'.signalled)
      /\ \A q \in Queriers : thr'[q] = thr[q]
      /\ thr'[Status] = thr[Status] \/ (thr[Status].pc = "off" /\ thr'[Status].pc = "new")
      /\ servstat_thrid' \in {servstat_thrid, "status"}
  BY InPlace, Requested
<1>3. SigInv'
  BY <1>2 DEF AwakeInv, SigInv
<1>4. thr[Status].pc \in {"discover", "resolving"} =>
        Len(servers'[thr[Status].i].atup) = Len(servers[thr[Status].i].atup)
  BY <1>1, InPlace DEF Kept, Visiting, Retesting
<1>. QED BY <1>1, <1>2, <1>3, <1>4, OthersAwake

\* Exclusive access begins, is awaited, given up or fails: nothing is changed but that the
\* status thread may have been interrupted in a test.
LEMMA ExclusiveAwake ==
  ASSUME ServersAssumption, IInv, AwakeInv,
         UNCHANGED <<servers, thr, st, servstat_thrid, main>>,
         UNCHANGED signal_interrupt \/ \E c : Exclusive(c)
  PROVE  AwakeInv'
<1>1. signal_interrupt' => signal_interrupt \/ thr[Status].pc = "testing"
  <2>1. server_status_ping > 0 => thr[Status].pc = "testing"
    BY DEF IInv, ControlInv, Counted
  <2>2. UNCHANGED signal_interrupt
        \/ signal_interrupt' = (signal_interrupt \/ (server_status_ping > 0 /\ servstat_thrid # "main"))
    BY DEF Exclusive
  <2>. QED BY <2>1, <2>2
<1>2. SameSections /\ (Asked' => Asked) /\ StLike /\ SigInv'
  BY InPlace DEF SameSections, Asked, StLike, AwakeInv, SigInv
<1>. QED BY <1>1, <1>2, QuietAwake

\* CTL_SERVER.
LEMMA CtlServerAwake ==
  ASSUME ServersAssumption, IInv, AwakeInv, CTL_SERVER
  PROVE  AwakeInv'
<1>1. PICK I \in Targets, up \in Ups :
        \/ mark_servers(I, up)
        \/ \E i \in I, ar \in Lists : change_servers(i, ar, up)
  BY DEF CTL_SERVER
<1>2. CASE mark_servers(I, up)
  <2>1. PICK P : P = {p \in Ats : p[1] \in I}
    OBVIOUS
  <2>2. PICK sig \in BOOLEAN :
          sig = (\/ Asks(P, up)
                 \/ up = "up" /\ \E p \in P : servers[p[1]].rootserver = 2)
    OBVIOUS
  <2>3. /\ servers' = MarkAll(P, up) /\ Request(sig, thr) /\ main = "running"
        /\ UNCHANGED <<signal_interrupt, main>>
    BY <1>2, <2>1, <2>2 DEF mark_servers, Command
  <2>4. Asks(P, up) => sig
    BY <2>2
  <2>. QED BY <2>3, <2>4, MarkedAwake
<1>3. ASSUME NEW i \in I, NEW ar \in Lists, change_servers(i, ar, up)
      PROVE  AwakeInv'
  <2>1. PICK P : P = {p \in Ats : p[1] = i}
    OBVIOUS
  <2>2. PICK sig \in BOOLEAN : sig = Asks(P, up)
    BY DEF Asks
  <2>3. CASE /\ servers' = MarkAll(P, up) /\ Request(sig, thr) /\ main = "running"
             /\ UNCHANGED <<signal_interrupt, main>>
    BY <2>2, <2>3, MarkedAwake
  <2>4. CASE /\ \E c : Exclusive(c)
             /\ UNCHANGED <<servers, thr, st, servstat_thrid, main>>
    BY <2>4, ExclusiveAwake
  <2>. QED BY <1>3, <2>1, <2>2, <2>3, <2>4 DEF change_servers, Command
<1>. QED BY <1>1, <1>2, <1>3

\* A section's addresses are changed.
LEMMA ChangeAwake ==
  ASSUME ServersAssumption, IInv, AwakeInv, Change
  PROVE  AwakeInv'
<1>1. /\ Access /\ ctl.op = "change" /\ UNCHANGED <<signal_interrupt, main>>
      /\ main = "running" /\ thr[Status].pc \in {"off", "new", "sleeping", "waiting"}
      /\ ctl.new \in Seq(Addresses) /\ Len(ctl.new) \in Nat /\ ctl.up \in Ups
      /\ thr \in [Threads -> ThreadType]
  BY Alone, InPlace DEF Change, IInv, TypeInv, CtlInv
<1>2. PICK u : u = [j \in 1..Len(ctl.new) |->
                     Marked([a |-> ctl.new[j], is_up |-> servers[ctl.i].preset, i_ts |-> "zero"],
                            ctl.up)]
  OBVIOUS
<1>3. PICK sig \in BOOLEAN : sig = (ctl.up = "retest" /\ ctl.new # <<>>)
  OBVIOUS
<1>4. servers' = [servers EXCEPT ![ctl.i].atup = u, ![ctl.i].rootserver = NoDiscovery(@)]
  BY <1>2 DEF Change
<1>5. \E r : servers' = [servers EXCEPT ![ctl.i].atup = u, ![ctl.i].rootserver = r]
  <2>1. PICK r : r = NoDiscovery(servers[ctl.i].rootserver)
    OBVIOUS
  <2>2. CASE ctl.i \in 1..Len(servers)
    BY <1>4, <2>1, <2>2, InPlace DEF Sections
  <2>3. CASE ctl.i \notin 1..Len(servers)
    BY <1>4, <2>3, InPlace DEF Sections
  <2>. QED BY <2>2, <2>3
<1>6. /\ SameSections
      /\ \A k \in 1..Len(servers) \ {ctl.i} : servers'[k] = servers[k]
      /\ ctl.i \in 1..Len(servers) => servers'[ctl.i].atup = u
  BY <1>5, InPlace, ReplacedSame
<1>7. Request(sig, thr)
  BY <1>1, <1>3, NothingFreed DEF Change, Access
<1>8. /\ StLike /\ (sig /\ thr'[Status].pc = "sleeping" => st'.signalled)
      /\ \A q \in Queriers : thr'[q] = thr[q]
      /\ thr'[Status] = thr[Status] \/ (thr[Status].pc = "off" /\ thr'[Status].pc = "new")
      /\ servstat_thrid' \in {servstat_thrid, "status"}
  BY <1>1, <1>7, Requested
<1>9. Asked' => Asked \/ sig
  <2>1. SUFFICES ASSUME Asked', ~ sig PROVE Asked
    OBVIOUS
  <2>2. PICK k \in 1..Len(servers) :
          \E j \in 1..Len(servers'[k].atup) : servers'[k].atup[j].i_ts = "zero"
    BY <1>6, <2>1 DEF Asked, SameSections
  <2>3. CASE k # ctl.i
    BY <1>6, <2>2, <2>3 DEF Asked
  <2>4. CASE k = ctl.i
    <3>1. PICK j \in 1..Len(u) : u[j].i_ts = "zero"
      BY <1>6, <2>2, <2>4
    <3>2. j \in 1..Len(ctl.new)
      BY <1>1, <1>2
    <3>3. u[j].i_ts = IF ctl.up = "retest" THEN "zero" ELSE "fresh"
      BY <1>2, <3>2 DEF Marked
    <3>4. ctl.new # <<>>
      BY <1>1, <3>2
    <3>. QED BY <1>3, <2>1, <3>1, <3>3, <3>4
  <2>. QED BY <2>3, <2>4
<1>10. SigInv'
  BY <1>8 DEF AwakeInv, SigInv
<1>. QED BY <1>1, <1>6, <1>8, <1>9, <1>10, OthersAwake

\* The configuration is reloaded: the status thread is woken or started whatever was tested
\* before, and a wait of discovery's is left with sections that were freed.
LEMMA ReloadAwake ==
  ASSUME ServersAssumption, IInv, AwakeInv, Reload
  PROVE  AwakeInv'
<1>1. /\ Access /\ UNCHANGED <<signal_interrupt, main>> /\ main = "running"
      /\ thr[Status].pc \in {"off", "new", "sleeping", "waiting"}
  BY Alone DEF Reload, flags
<1>2. PICK th : th = Freed(Using \cup {"waiting", "exclusive"})
  OBVIOUS
<1>3. /\ th \in [Threads -> ThreadType]
      /\ \A t \in Threads :
           /\ th[t].pc = thr[t].pc /\ th[t].sig = thr[t].sig
           /\ th[t].stale = (thr[t].stale \/ thr[t].pc \in Using \cup {"waiting", "exclusive"})
  BY <1>2, InPlace DEF Freed, ThreadType
<1>4. /\ StLike /\ (thr'[Status].pc = "sleeping" => st'.signalled)
      /\ \A q \in Queriers : thr'[q] = th[q]
      /\ thr'[Status] = th[Status] \/ (thr[Status].pc = "off" /\ thr'[Status].pc = "new")
      /\ servstat_thrid' = "status"
  <2>1. StartOrSignal(th)
    BY <1>2 DEF Reload
  <2>. QED BY <1>1, <1>3, <2>1, InPlace, Signalled
<1>5. /\ thr'[Status].pc \in {"off", "new", "sleeping", "waiting"}
      /\ thr'[Status].pc = "waiting" => thr'[Status].stale
  BY <1>1, <1>3, <1>4, InPlace
<1>6. SigInv'
  BY <1>3, <1>4 DEF AwakeInv, SigInv, Threads
<1>7. KeepInv'
  BY <1>5 DEF KeepInv, Visiting, Retesting
<1>8. PromptTest' /\ PeriodicServed'
  BY <1>4 DEF PromptTest, PeriodicServed, Astray, StaleId
<1>9. InterruptionEnds'
  BY <1>1, <1>3, <1>4, InPlace DEF AwakeInv, ThreadAwake, InterruptionEnds
<1>. QED BY <1>6, <1>7, <1>8, <1>9 DEF AwakeInv, ThreadAwake

\* main() starts the status thread, and stores its id.
LEMMA MainAwake ==
  ASSUME ServersAssumption, IInv, AwakeInv, MainCreates \/ MainAssigns
  PROVE  AwakeInv'
<1>1. SameSections /\ (Asked' => Asked) /\ StLike /\ UNCHANGED signal_interrupt
  BY InPlace DEF SameSections, Asked, StLike, MainCreates, MainAssigns, flags
<1>2. CASE MainCreates
  <2>1. thr[Status].pc = "off"
    BY <1>2 DEF MainCreates, IInv, ControlInv, StartInv
  <2>2. Turns(Status, "new")
    BY <1>2, InPlace, Going DEF MainCreates, StatusPlaces
  <2>3. thr'[Status].pc = "new" /\ \A q \in Queriers : thr'[q] = thr[q]
    BY <2>2 DEF Turns, Moves, Threads, ServersAssumption
  <2>4. SigInv'
    BY <2>3 DEF AwakeInv, SigInv
  <2>5. UNCHANGED <<servers, servstat_thrid>>
    BY <1>2 DEF MainCreates
  <2>. QED BY <1>1, <2>1, <2>3, <2>4, <2>5, OthersAwake
<1>3. CASE MainAssigns
  <2>1. /\ UNCHANGED <<servers, thr>> /\ servstat_thrid' = "status" /\ main # "create"
        /\ thr'[Status] = thr[Status]
    BY <1>3 DEF MainAssigns
  <2>2. SigInv'
    BY <2>1 DEF AwakeInv, SigInv
  <2>. QED BY <1>1, <2>1, <2>2, OthersAwake
<1>. QED BY <1>2, <1>3

\* An interval is over.
LEMMA ElapseAwake ==
  ASSUME ServersAssumption, IInv, AwakeInv, NEW p \in Ats, Elapse(p)
  PROVE  AwakeInv'
<1>1. UNCHANGED <<signal_interrupt, servstat_thrid, thr, st, main>>
  BY DEF Elapse, flags
<1>2. SameSections /\ Kept /\ (Asked' => Asked)
  <2>1. PICK i : i = p[1]
    OBVIOUS
  <2>2. PICK J : J = {p[2]}
    OBVIOUS
  <2>3. PICK u : u = [j \in 1..Len(servers[i].atup) |->
                       IF j \in J THEN [servers[i].atup[j] EXCEPT !.i_ts = "due"]
                       ELSE servers[i].atup[j]]
    OBVIOUS
  <2>4. servers' = [servers EXCEPT ![i].atup = u]
    BY <2>1, <2>2, <2>3 DEF Elapse, Update
  <2>5. i \in 1..Len(servers) /\ \A j \in 1..Len(servers[i].atup) : servers[i].atup[j] \in Atup
    BY <2>1, InPlace, Sectioned DEF Ats
  <2>6. \A at \in Atup : /\ [at EXCEPT !.i_ts = "due"] \in Atup
                         /\ [at EXCEPT !.i_ts = "due"].i_ts = "due"
    BY DEF Atup
  <2>7. /\ u \in [1..Len(servers[i].atup) -> Atup]
        /\ \A j \in 1..Len(servers[i].atup) : u[j].i_ts = "zero" => servers[i].atup[j].i_ts = "zero"
    BY <2>3, <2>5, <2>6
  <2>. QED BY <2>4, <2>5, <2>7, InPlace, NewTests
<1>3. StLike /\ SigInv'
  BY <1>1 DEF StLike, AwakeInv, SigInv
<1>4. thr[Status].pc \in {"discover", "resolving"} =>
        Len(servers'[thr[Status].i].atup) = Len(servers[thr[Status].i].atup)
  BY <1>2, InPlace DEF Kept, Visiting, Retesting
<1>. QED BY <1>1, <1>2, <1>3, <1>4, QuietAwake

\* The invariant holds when pdnsd starts.
LEMMA AwakeInitially ==
  ASSUME ServersAssumption, Init
  PROVE  AwakeInv
<1>1. IInv
  BY Initially
<1>2. main = "create" /\ signal_interrupt = FALSE
  BY DEF Init, flags
<1>3. thr[Status].pc = "off" /\ \A q \in Queriers : thr[q].sig = FALSE
  <2>1. \A q \in Queriers : thr[q] = [Idle EXCEPT !.pc = "idle"]
    BY DEF Init, Threads, ServersAssumption
  <2>2. [Idle EXCEPT !.pc = "idle"].sig = FALSE
    BY DEF Idle
  <2>. QED BY <1>1, <1>2, <2>1, <2>2 DEF IInv, ControlInv, StartInv
<1>. QED BY <1>2, <1>3 DEF AwakeInv, SigInv, KeepInv, ThreadAwake, PromptTest, PeriodicServed,
            InterruptionEnds, Visiting, Retesting

LEMMA AwakeStep ==
  ASSUME ServersAssumption, IInv, AwakeInv, Next
  PROVE  AwakeInv'
<1>1. CASE StatusStep
  BY <1>1, BeginsAwake, PassAwake, SectionAwake, TestsAwake, IndividualAwake, TestedAwake,
     DiscoveryAwake, ResolveEndsAwake, RootsAwake, PassEndsAwake, StatusTestsAwake DEF StatusStep
<1>2. ASSUME NEW q \in Queriers, QueryStep(q) PROVE AwakeInv'
  BY <1>2, OnQueryAwake, OnQueryEndsAwake, ReadingAwake, SchedAwake, QueryTestsAwake DEF QueryStep
<1>3. CASE ControlStep
  <2>1. CASE CTL_CONFIG \/ Await \/ Woken \/ TimedOut \/ ChangeFails
    <3>1. UNCHANGED <<servers, thr, st, servstat_thrid, main>>
      BY <2>1 DEF CTL_CONFIG, reload_config_file, Await, Woken, TimedOut, ChangeFails
    <3>2. UNCHANGED signal_interrupt \/ \E c : Exclusive(c)
      BY <2>1 DEF CTL_CONFIG, reload_config_file, Await, Woken, TimedOut, ChangeFails, flags
    <3>. QED BY <3>1, <3>2, ExclusiveAwake
  <2>. QED BY <1>3, <2>1, CtlServerAwake, ChangeAwake, ReloadAwake DEF ControlStep
<1>. QED BY <1>1, <1>2, <1>3, MainAwake, ElapseAwake DEF Next

\* The status thread neither sleeps nor ends over work, whatever the order of queries,
\* commands, discovery and passes: servstat_thread sleeps half a second, or is signalled,
\* when a test was asked for; it ends only when no section is tested at intervals, but
\* after the two races (Astray); a pass that was interrupted is made again.
THEOREM StaysOn == Spec => []ThreadAwake
<1>1. Init => AwakeInv
  BY ServersAssumption, AwakeInitially
<1>2. IInv /\ AwakeInv /\ [Next]_vars => AwakeInv'
  <2>1. SUFFICES ASSUME IInv, AwakeInv, [Next]_vars PROVE AwakeInv'
    OBVIOUS
  <2>2. CASE Next
    BY <2>1, <2>2, ServersAssumption, AwakeStep
  <2>3. CASE UNCHANGED vars
    <3>1. UNCHANGED <<servers, signal_interrupt, servstat_thrid, thr, st, main>>
      BY <2>3 DEF vars, counts, flags
    <3>2. SigInv' /\ KeepInv'
      BY <2>1, <3>1 DEF AwakeInv, SigInv, KeepInv, needs_intermittent_testing
    <3>3. ThreadAwake'
      BY <2>1, <3>1 DEF AwakeInv, ThreadAwake, PromptTest, PeriodicServed, InterruptionEnds, Ats, At,
         Astray, StaleId, needs_intermittent_testing
    <3>. QED BY <3>2, <3>3 DEF AwakeInv
  <2>. QED BY <2>1, <2>2, <2>3
<1>3. AwakeInv => ThreadAwake
  BY DEF AwakeInv
<1>. QED BY <1>1, <1>2, <1>3, Invariance, PTL DEF Spec

=============================================================================
