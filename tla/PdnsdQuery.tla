----------------------------- MODULE PdnsdQuery -----------------------------
(***************************************************************************)
(* A query of pdnsd (dns_query.c): p_recursive_query asks a list of name   *)
(* servers, par_queries at a time, over sockets it polls in one thread.    *)
(* Each server has its own state machine (p_query_sm in p_exec_query) for  *)
(* UDP or TCP, with retries: without recursion, without EDNS, over the     *)
(* other transport.  A reply is judged and sorted (p_exec_query); answers  *)
(* that are not satisfactory are kept in case nothing better comes; at the *)
(* end what still runs is cancelled and silent servers are to be tested.   *)
(*                                                                         *)
(* Sockets, poll, memory and the servers are the environment: each call    *)
(* has any outcome it may have.  Time is left out: poll may time out       *)
(* whenever nothing is ready.  Servers are numbered from 0, as q is.       *)
(***************************************************************************)
EXTENDS Integers, FiniteSets, FiniteSetsExt, SequencesExt

CONSTANTS N, ParQueries,  \* DA_NEL(q), global.par_queries
          Methods,        \* the values of global.query_method
          Kind,           \* of a server: [auth_serv, trusted, edns, tests, nsdomain, rejects]
          Messages,        \* what servers may send
          Within,         \* of a name: the domains it is in, itself included
          QName, QType,   \* name and thint
          Root,           \* the root domain
          DelegOnly,      \* global.deleg_only_zones
          NegDomain,      \* global.neg_domain_pol: "on", "auth" or "off"
          RejectNegates,  \* whether reject_policy is C_NEGATE
          Hops,           \* hops
          MaxStray,       \* bound: replies ignored and partial reads or writes
          Nothing

ASSUME QueryAssumption ==
  /\ N \in Nat \ {0} /\ ParQueries \in Nat \ {0} /\ Hops \in Nat /\ MaxStray \in Nat
  /\ Methods \subseteq {"UDP_ONLY", "TCP_ONLY", "UDP_TCP", "TCP_UDP"}
  /\ \A i \in 0..(N - 1) : {Kind[i].trusted, Kind[i].edns, Kind[i].tests} \subseteq BOOLEAN
  /\ \A r \in Messages : /\ {r.aa, r.tc, r.ra} \subseteq BOOLEAN
                         /\ r.rcode \notin {"CACHED", "STALE"}   \* codes of pdnsd's own

VARIABLES
  st,      \* of a server: its query_stat_t
  loop,    \* where p_recursive_query is: [pc, at, i, j, dc, mc, ready, udp]
  rv,      \* rv
  reply,   \* the reply p_exec_query returned, after p_exec_query sorted it
  saved,   \* entsave, nssave, servsave and qualval: see Outcome, or Nothing
  answer,  \* what is used in the end: likewise
  alive,   \* the number of entries and of lists not freed: [ent, ns]
  tests,   \* of a server: what sched_server_test was last told
  added,   \* what was added to the cache besides the answer, with the server it came from
  late,    \* global.timeout is over
  stray,   \* counts what MaxStray bounds
  sent,    \* history: of a server, queries sent
  quals    \* history: the qualities of the answers that were put aside

history == <<sent, quals>>
queryvars == <<st, loop, rv, reply, saved, answer, alive, tests, added, late, stray, history>>

Servers == 0..(N - 1)

Waiting == {"TCPWRITE", "TCPREAD", "UDPRECEIVE"}       \* QS_READ_CASES, QS_WRITE_CASES
IsUdp(s) == s.qm \in {"UDP_ONLY", "UDP_TCP"}           \* USE_UDP

\* Sockets and memory: what a second close or free, or a lost pointer, would be.
Open(x)    == IF x = "open" THEN "leak" ELSE "open"
Close(x)   == IF x = "open" THEN "closed" ELSE "twice"
Free(p)    == IF p = "live" THEN "dead" ELSE IF p \in {"null", "refreed"} THEN p ELSE "twice"
Realloc(p) == IF p \in {"null", "live"} THEN "live" ELSE "twice"

\* What is left of a buffer for which realloc_or_cleanup returns NULL: it frees it, also
\* if the length is 0, for which realloc has freed it before.
Unallocated(p) == IF p = "live" THEN {"null", "refreed"} ELSE {"null"}

\* add_qserv.
add_qserv(i, method) ==
  [state |-> "INITIAL", qm |-> method, rd |-> FALSE, edns |-> Kind[i].edns, opt |-> FALSE,
   needs |-> IF Kind[i].tests THEN 1 ELSE 0, failed |-> 0, aa |-> FALSE, tc |-> FALSE,
   ra |-> FALSE, unreachable |-> FALSE, moved |-> FALSE,
   sock |-> "closed", msg |-> "null", buf |-> "null"]

QueryInit ==
  /\ \E m \in Methods : st = [i \in Servers |-> add_qserv(i, m)]
  /\ loop = [pc |-> "batch", at |-> "init", i |-> 0, j |-> 0, dc |-> 0, mc |-> 0,
             ready |-> {}, udp |-> FALSE]
  /\ rv = "SERVFAIL" /\ reply = Nothing /\ saved = Nothing /\ answer = Nothing
  /\ alive = [ent |-> 0, ns |-> 0]
  /\ tests = [i \in Servers |-> "none"] /\ added = {}
  /\ late = FALSE /\ stray = 0
  /\ sent = [i \in Servers |-> 0] /\ quals = {}

-----------------------------------------------------------------------------
(* p_query_sm.  Server loop.i is in hand; s is its state.                  *)

Sm(state) == loop.pc = "exec" /\ st[loop.i].state = state

Set(s) == st' = [st EXCEPT ![loop.i] = s]

\* p_exec_query returns.
Returns(code) == loop' = [loop EXCEPT !.pc = "returned"] /\ rv' = code

\* -1: call again when poll says so.
Again(s) ==
  Set(s) /\ Returns("again")
  /\ UNCHANGED <<reply, saved, answer, alive, tests, added, late, quals>>

\* The next case of the switch.
FallThrough(s) ==
  Set(s) /\ UNCHANGED <<loop, rv, reply, saved, answer, alive, tests, added, late, stray, quals>>

\* An error of p_query_sm, in p_exec_query: a server that cannot be reached is marked
\* down for a while.
Failed(s, code) ==
  LET down == s.needs # 0 /\ s.unreachable
  IN  /\ Set([s EXCEPT !.state = "DONE", !.msg = Free(@), !.buf = Free(@),
                       !.needs = IF down THEN 0 ELSE @])
      /\ tests' = IF down THEN [tests EXCEPT ![loop.i] = "down"] ELSE tests
      /\ Returns(code)
      /\ UNCHANGED <<reply, saved, answer, alive, added, late, stray, history>>

switch_to_udp(s) == [s EXCEPT !.qm = "UDP_ONLY", !.state = "UDPINITIAL"]

switch_to_tcp(s) == [s EXCEPT !.qm = "TCP_ONLY", !.state = "INITIAL", !.failed = 0]

\* Label tcp_failed: with TCP_UDP once more over UDP.
TcpFailed(s) ==
  IF s.qm = "TCP_UDP" THEN FallThrough(switch_to_udp(s)) /\ UNCHANGED sent
                      ELSE Failed(s, "SERVFAIL")

\* p_exec_query, QS_INITIAL: the message is built.
QS_INITIAL ==
  LET s == st[loop.i]
      t == [s EXCEPT !.msg = "live", !.rd = Kind[loop.i].trusted, !.opt = s.edns,
                     !.buf = IF @ = "live" THEN "leak" ELSE "null",
                     !.state = IF IsUdp(s) THEN "UDPINITIAL" ELSE "TCPINITIAL"]
  IN  /\ Sm("INITIAL")
      /\ \/ FallThrough(t) /\ UNCHANGED sent
         \/ /\ Set([s EXCEPT !.state = "DONE"]) /\ Returns("FATALERR")   \* no memory
            /\ UNCHANGED <<reply, saved, answer, alive, tests, added, late, stray, history>>

\* Connecting may take until the socket is writable.
QS_TCPINITIAL ==
  LET s == st[loop.i]
      o == [s EXCEPT !.sock = Open(@)]
      c == [o EXCEPT !.sock = Close(@)]
  IN  /\ Sm("TCPINITIAL")
      /\ \/ Failed(s, "SERVFAIL")                                  \* socket
         \/ Failed(c, "SERVFAIL")                                  \* bind_socket, fcntl, connect
         \/ TcpFailed([c EXCEPT !.unreachable = TRUE])             \* refused
         \/ Again([o EXCEPT !.state = "TCPWRITE"]) /\ UNCHANGED <<sent, stray>>
         \/ FallThrough([o EXCEPT !.state = "TCPWRITE"]) /\ UNCHANGED sent

Stray == stray < MaxStray /\ stray' = stray + 1

\* moved: iolen > 0.
QS_TCPWRITE ==
  LET s == st[loop.i]
      c == [s EXCEPT !.sock = Close(@)]
  IN  /\ Sm("TCPWRITE")
      /\ \/ \E m \in {s.moved, TRUE} :                             \* EWOULDBLOCK; partly written
              Again([s EXCEPT !.moved = m]) /\ Stray /\ UNCHANGED sent
         \/ ~ s.moved /\ TcpFailed([c EXCEPT !.unreachable = TRUE])\* refused after all
         \/ \E u \in BOOLEAN : Failed([c EXCEPT !.unreachable = u], "SERVFAIL")
         \/ /\ FallThrough([s EXCEPT !.state = "TCPREAD", !.moved = FALSE])
            /\ sent' = [sent EXCEPT ![loop.i] = @ + 1]

\* A message is read: what becomes of it is the next step's.
Received(s) ==
  \E r \in Messages : reply' = r /\ Set([s EXCEPT !.buf = Realloc(@), !.sock = Close(@),
                                                 !.state = "DONE"])

QS_TCPREAD ==
  LET s == st[loop.i]
      c == [s EXCEPT !.sock = Close(@)]
  IN  /\ Sm("TCPREAD")
      /\ \/ Again(s) /\ Stray /\ UNCHANGED sent                    \* nothing there yet
         \/ Again([s EXCEPT !.moved = TRUE, !.buf = Realloc(@)]) /\ Stray /\ UNCHANGED sent
         \/ \E u \in BOOLEAN : TcpFailed([c EXCEPT !.unreachable = u])  \* error_receiv_data
         \/ \E b \in Unallocated(s.buf) : ~ s.moved /\ Failed([c EXCEPT !.buf = b], "FATALERR")
         \/ /\ Received(s) /\ loop' = [loop EXCEPT !.pc = "received"]
            /\ UNCHANGED <<rv, saved, answer, alive, tests, added, late, stray, history>>

QS_UDPINITIAL ==
  LET s == st[loop.i]
      o == [s EXCEPT !.sock = Open(@)]
      c == [o EXCEPT !.sock = Close(@)]
  IN  /\ Sm("UDPINITIAL")
      /\ \/ Failed(s, "SERVFAIL")                                  \* socket
         \/ \E u \in BOOLEAN : Failed([c EXCEPT !.unreachable = u], "SERVFAIL")
         \/ /\ Again([o EXCEPT !.state = "UDPRECEIVE"])
            /\ sent' = [sent EXCEPT ![loop.i] = @ + 1] /\ UNCHANGED stray

QS_UDPRECEIVE ==
  LET s == st[loop.i]
      c == [s EXCEPT !.sock = Close(@)]
  IN  /\ Sm("UDPRECEIVE")
      /\ \/ Failed([c EXCEPT !.buf = "null"], "FATALERR")          \* no memory
         \/ \E u \in BOOLEAN :
              Failed([c EXCEPT !.buf = Realloc(@), !.unreachable = u], "SERVFAIL")
         \/ Again([s EXCEPT !.buf = Realloc(@)]) /\ Stray /\ UNCHANGED sent  \* not our id
         \/ /\ Received(s) /\ loop' = [loop EXCEPT !.pc = "received"]
            /\ UNCHANGED <<rv, saved, answer, alive, tests, added, late, stray, history>>

-----------------------------------------------------------------------------
(* p_exec_query, once a message is there.  A reply is                      *)
(* [sane, question (it is the one asked), rcode, aa, tc, ra, sec (the      *)
(*  records of its three sections, in their order)], a record              *)
(* [name, type, bad (an address of the reject list), wire (how it can be   *)
(*  read: "ok", "skip" for a type or class that is not cached, "cut" if    *)
(*  the message ends in it, "junk" if its data does not fit its type)],    *)
(* an OPT record has rcode too.                                            *)

\* The message ends in the record.
Cut(x) == x.wire = "cut"

\* Its data does not fit its type: too short, trailing bytes, a name that is no name.
Malformed(x) == x.wire = "junk"

\* Its type or class is not cached.
Skipped(x) == x.wire = "skip"

\* Reading a section ends at the first record that is cut or malformed.
Readable(s) ==
  LET stop == SelectInSubSeq(s, 1, Len(s), LAMBDA x : Cut(x) \/ Malformed(x))
  IN  IF stop = 0 THEN Len(s) ELSE stop - 1

\* rrs2cent: the code, and the records that are kept.
rrs2cent(s) ==
  LET n == Readable(s)
  IN  [rv |-> IF n = Len(s) THEN "ok" ELSE IF Cut(s[n + 1]) THEN "cut" ELSE "junk",
       records |-> {s[i] : i \in {k \in 1..n : ~ Skipped(s[k]) /\ s[k].type # "OPT"}},
       opt |-> SelectSeq(SubSeq(s, 1, n), LAMBDA x : x.type = "OPT")]

\* The reply with its sections read.  From here to Sort, r is a reply so read.
Read(r) == [r EXCEPT !.sec = [k \in 1..3 |-> rrs2cent(r.sec[k])]]

\* A section is read if the ones before it could be.
IsRead(r, k) == \A j \in 1..(k - 1) : r.sec[j].rv = "ok"

\* The records of section k.
Sec(r, k) == IF IsRead(r, k) THEN r.sec[k].records ELSE {}

\* The reply could not be read: malformed, or cut although it does not say so.
FormatError(r) ==
  \E k \in 1..3 : /\ IsRead(r, k)
                  /\ r.sec[k].rv = "junk" \/ (r.sec[k].rv = "cut" /\ ~ r.tc)

\* The error code, of the first OPT record of the additional section if there is one.
Rcode(r) ==
  LET opt == r.sec[3].opt
  IN  IF IsRead(r, 3) /\ opt # <<>> THEN opt[1].rcode ELSE r.rcode

\* st->failed, f before: 3 for an answer that came with an error code, 1 for other doubts.
FailedAfter(f, r) == IF f = 0 /\ Rcode(r) # r.rcode THEN 1 ELSE f

\* Names that may be believed: none of the root from servers found on the way, in
\* paranoid mode only those of the server's domain.
Believed(i, name) ==
  /\ name # Root \/ Kind[i].auth_serv # 2
  /\ Kind[i].trusted \/ Kind[i].nsdomain = Nothing \/ Kind[i].nsdomain \in Within[name]

\* The reject list, in all three sections.
Rejected(i, r) == Kind[i].rejects /\ \E k \in 1..3 : \E x \in Sec(r, k) : x.bad

Authorities(r) == {x \in Sec(r, 1) \cup Sec(r, 2) : x.type \in {"NS", "SOA"}}

\* deleg_only_zones: the name is below one, and no authority below one is named.
MissingDelegation(i, r) ==
  /\ Kind[i].auth_serv < 3
  /\ \E z \in DelegOnly : z \in Within[QName] /\ z # QName
  /\ \A x \in Authorities(r) : x.name \in DelegOnly

\* The records of the answer's own name.
Own(r) == {x \in Sec(r, 1) : x.name = QName}

\* The name does not exist: the server says so, or its answer is taken to say so.
NameError(i, f, r) ==
  LET doubt == FailedAfter(f, r) > 1
  IN  \/ Rcode(r) = "NAMEERR"
      \/ Rejected(i, r) /\ RejectNegates /\ ~ doubt
      \/ ~ Rejected(i, r) /\ MissingDelegation(i, r) /\ Authorities(r) # {} /\ ~ doubt

\* neg_domain_pol: whether the domain is cached as not existing.
Negates(aa) == NegDomain = "on" \/ (NegDomain = "auth" /\ aa)

\* An answer that is neither used nor taken for a name error.
Refused(i, r) == Rejected(i, r) \/ (MissingDelegation(i, r) /\ Kind[i].auth_serv < 2)

\* *ns: the name servers to ask further.
FurtherServers(i, f, r) ==
  IF NameError(i, f, r) \/ FailedAfter(f, r) > 1 THEN {}
  ELSE {x \in Authorities(r) : Believed(i, x.name)}

\* neg_ans.
NegAns(i, f, r) == NameError(i, f, r) \/ Own(r) = {}

\* An answer with doubts that has no records of use.
Useless(i, f, r) ==
  FailedAfter(f, r) # 0 /\ NegAns(i, f, r) /\ FurtherServers(i, f, r) = {}

\* Label add_additional: what is added to the cache besides the answer; of a negative
\* answer nothing of the answer section.
AddAdditional(i, f, r) ==
  LET first == IF NegAns(i, f, r) THEN 2 ELSE 1
  IN  IF FailedAfter(f, r) # 0 \/ Rejected(i, r) THEN {}
      ELSE {x \in UNION {Sec(r, k) : k \in first..3} \ Own(r) : Believed(i, x.name)}

\* What p_exec_query returns: the code, the entry, the name servers, what it added.
Sort(i, f, r) ==
  LET aa   == r.aa /\ f = 0
      code == IF FormatError(r) THEN "SERVFAIL"
              ELSE IF NameError(i, f, r) /\ ~ Negates(aa) THEN "NAMEERR"
              ELSE IF Refused(i, r) /\ ~ NameError(i, f, r) THEN "SERVFAIL"
              ELSE IF Useless(i, f, r) THEN "SERVFAIL" ELSE "OK"
  IN  [code |-> code, failed |-> FailedAfter(f, r), aa |-> aa,
       negative |-> NameError(i, f, r), ns |-> FurtherServers(i, f, r),
       own |-> IF NameError(i, f, r) THEN {} ELSE Own(r),
       add |-> IF code \in {"OK", "NAMEERR"} THEN AddAdditional(i, f, r) ELSE {}]

\* Sort of every reply, evaluated once.
Sorted ==
  [i \in Servers |-> [f \in {0, 1, 3} |-> [r \in Messages |-> Sort(i, f, Read(r))]]]

\* What is put aside or used: quality q of server s's answer, servers to ask (serv), name
\* servers listed (ns), the records of the name.
Outcome == [s : Servers, q : 0..15, serv : BOOLEAN, ns : BOOLEAN,
            own : {Sorted[i][f][r].own : i \in Servers, f \in {0, 1, 3}, r \in Messages}]

ASSUME NothingAssumption == Nothing \notin Outcome

\* The reply is not used.
Discard(s, code) ==
  /\ Set([s EXCEPT !.msg = Free(@), !.buf = Free(@)])
  /\ reply' = Nothing /\ Returns(code)
  /\ UNCHANGED <<saved, answer, alive, added, late, stray, history>>

\* resetstate_tryagain.
Retry(s) ==
  /\ Set([s EXCEPT !.state = IF IsUdp(s) THEN "UDPINITIAL" ELSE "TCPINITIAL"])
  /\ reply' = Nothing /\ loop' = [loop EXCEPT !.pc = "exec"]
  /\ UNCHANGED <<rv, saved, answer, alive, added, late, stray, history>>

\* The answer is read and sorted.
Judged(s) ==
  \E x \in {Sorted[loop.i][s.failed][reply]} :
    /\ Set([s EXCEPT !.msg = Free(@), !.buf = Free(@), !.failed = x.failed, !.aa = x.aa,
                     !.tc = reply.tc, !.ra = s.rd /\ reply.ra])
    /\ \/ /\ reply' = x /\ Returns(x.code) /\ added' = added \cup ({loop.i} \X x.add)
          /\ alive' = IF x.code # "OK" THEN alive
                      ELSE [ent |-> alive.ent + 1,
                            ns  |-> alive.ns + (IF x.ns = {} THEN 0 ELSE 1)]
       \/ /\ x.code = "OK"                                          \* no memory
          /\ reply' = Nothing /\ Returns("FATALERR") /\ UNCHANGED <<added, alive>>
    /\ UNCHANGED <<saved, answer, late, stray, history>>

\* The question must be ours.
UseReply(s) == IF reply.question THEN Judged(s) ELSE Discard(s, "SERVFAIL")

Refusals == {"SERVFAIL", "NOTSUPP", "REFUSED"}

\* The checks of a reply, and what to do about error codes: ask again without recursion,
\* then without EDNS, or use the answer tentatively.
Judge ==
  LET r == reply
      s == st[loop.i]
      up == s.needs # 0
      t == [s EXCEPT !.needs = 0]
  IN  /\ loop.pc = "received"
      /\ \/ ~ r.sane /\ Discard(s, "SERVFAIL") /\ UNCHANGED tests
         \/ /\ r.sane
            /\ tests' = IF up THEN [tests EXCEPT ![loop.i] = "up"] ELSE tests
            /\ IF r.rcode \in {"OK", "NAMEERR"} THEN UseReply(t)
               ELSE IF r.rcode \in Refusals /\ s.rd /\ ~ r.ra
                    THEN Retry([t EXCEPT !.rd = FALSE])
               ELSE IF r.rcode \in {"NOTSUPP", "REFUSED", "FORMAT"} /\ s.opt
                    THEN Retry([t EXCEPT !.opt = FALSE, !.edns = FALSE])
               ELSE IF r.rcode \in Refusals /\ r.sec[1] # <<>> /\ Kind[loop.i].auth_serv = 2
                    THEN UseReply([t EXCEPT !.failed = 3])
               ELSE Discard(t, r.rcode)

-----------------------------------------------------------------------------
(* auth_ok and the bookkeeping of p_recursive_query.                       *)

\* The servers named are for a domain below that of the server that answered.
Delegates(i, x) ==
  /\ x.ns # {} /\ Kind[i].nsdomain # Nothing
  /\ \A y \in x.ns : /\ y.name # Kind[i].nsdomain /\ Kind[i].nsdomain \in Within[y.name]
                     /\ y.name \in Within[QName]

\* The results of auth_ok: 1 if the answer will do or servers to ask were found
\* (serv), 0 if neither, -1 without memory.  Finding them is a query of its own.
auth_ok(i, x) ==
  LET s      == st[i]
      needed == QType = "ANY" \/ ~ \E y \in x.own : y.type \in {QType, "CNAME"}
      Is(v, serv) == [ok |-> v, serv |-> serv]
  IN  IF s.failed > 1 THEN {Is(0, FALSE)}
      ELSE IF Kind[i].auth_serv = 0 \/ x.negative \/ ~ needed THEN {Is(1, FALSE)}
      ELSE IF s.aa /\ ~ Delegates(i, x) THEN {Is(1, FALSE)}
      ELSE IF Hops > 0 /\ x.ns # {} THEN {Is(1, TRUE), Is(0, FALSE), Is(-1, FALSE)}
      ELSE {Is(0, FALSE)}

\* save_query_result's quality: W_AUTHOK, W_NOTFAILED and W_NOTTRUNC.
Quality(s, authok) == authok * 8 + (3 - s.failed) * 2 + (IF s.tc THEN 0 ELSE 1)

\* Mutant: the first one stays.
BetterFirst(q) == saved = Nothing

\* The new answer is better than the saved one.
Better(q) == saved = Nothing \/ q > saved.q

\* save_query_result.  The list of name servers is kept only with servers to ask.
save_query_result(a) ==
  LET q   == Quality(st[loop.i], a.ok)
      ns  == reply.ns # {}
      had == saved # Nothing
  IN  /\ saved' = IF Better(q) THEN [s |-> loop.i, q |-> q, serv |-> a.serv,
                                     ns |-> ns /\ a.serv, own |-> reply.own] ELSE saved
      /\ alive' = [ent |-> alive.ent - (IF had THEN 1 ELSE 0),
                   ns  |-> alive.ns - (IF Better(q)
                                       THEN (IF had /\ saved.ns THEN 1 ELSE 0)
                                            + (IF ns /\ ~ a.serv THEN 1 ELSE 0)
                                       ELSE IF ns THEN 1 ELSE 0)]
      /\ quals' = quals \cup {q}

\* Label done: what was saved is freed.
FreeSaved(a) ==
  [ent |-> a.ent - (IF saved = Nothing THEN 0 ELSE 1),
   ns  |-> a.ns - (IF saved # Nothing /\ saved.ns THEN 1 ELSE 0)]

\* The loops over servers, at the end of a turn.
Turn(s) ==
  [loop EXCEPT !.pc = loop.at, !.i = @ + 1,
               !.udp = @ \/ loop.at = "timeout",
               !.dc = IF loop.at # "timeout" /\ s.state = "DONE" /\ loop.i = @ THEN @ + 1 ELSE @]

\* In the loop that starts a batch, nothing was started beyond i.
ToCancel == [loop EXCEPT !.pc = "cancel", !.mc = IF loop.at = "init" THEN loop.i ELSE @]

\* p_exec_query returned: the answer is used, put aside, or the reason to give up.
\* An answer put aside because it was truncated is asked for again over TCP.
AnswerReturned ==
  LET s == st[loop.i]
      again == loop.at # "timeout" /\ s.qm = "UDP_TCP" /\ s.tc
  IN  /\ loop.pc = "returned" /\ rv = "OK"
      /\ \E a \in auth_ok(loop.i, reply) :
           \/ /\ a.ok = 1 /\ s.failed = 0 /\ ~ again
              /\ answer' = [s |-> loop.i, q |-> Quality(s, 1), serv |-> a.serv,
                            ns |-> reply.ns # {}, own |-> reply.own]
              /\ alive' = FreeSaved(alive) /\ saved' = Nothing
              /\ loop' = ToCancel
              /\ UNCHANGED <<st, rv, quals>>
           \/ /\ a.ok = -1
              /\ rv' = "FATALERR"
              /\ alive' = FreeSaved([ent |-> alive.ent - 1,
                                     ns |-> alive.ns - (IF reply.ns = {} THEN 0 ELSE 1)])
              /\ saved' = Nothing /\ loop' = ToCancel
              /\ UNCHANGED <<st, answer, quals>>
           \/ /\ a.ok = 0 \/ (a.ok = 1 /\ (s.failed # 0 \/ again))
              /\ save_query_result(a)
              /\ st' = IF again THEN [st EXCEPT ![loop.i] = switch_to_tcp(s)] ELSE st
              /\ loop' = IF again THEN [loop EXCEPT !.pc = "exec"] ELSE Turn(s)
              /\ UNCHANGED <<rv, answer>>
      /\ reply' = Nothing
      /\ UNCHANGED <<tests, added, late, stray, sent>>

ErrorReturned ==
  /\ loop.pc = "returned" /\ rv # "OK"
  /\ IF rv \in {"NAMEERR", "FATALERR"}
     THEN loop' = ToCancel /\ alive' = FreeSaved(alive) /\ saved' = Nothing
     ELSE loop' = Turn(st[loop.i]) /\ UNCHANGED <<alive, saved>>
  /\ reply' = Nothing
  /\ UNCHANGED <<st, rv, answer, tests, added, late, stray, history>>

-----------------------------------------------------------------------------
(* p_recursive_query.                                                      *)

\* Mutant: the last server is forgotten.
NextBatchShort(l) ==
  LET j == l.j + ParQueries
  IN  IF j + 1 >= N THEN [l EXCEPT !.pc = "cancel"]
      ELSE [l EXCEPT !.pc = "init", !.at = "init", !.j = j, !.i = l.dc,
                     !.mc = IF j + ParQueries > N THEN N ELSE j + ParQueries]

\* The next par_queries servers; the older ones that have not answered stay in.
NextBatch(l) ==
  LET j == l.j + ParQueries
  IN  IF j >= N THEN [l EXCEPT !.pc = "cancel"]
      ELSE [l EXCEPT !.pc = "init", !.at = "init", !.j = j, !.i = l.dc,
                     !.mc = IF j + ParQueries > N THEN N ELSE j + ParQueries]

Start ==
  /\ loop.pc = "batch"
  /\ loop' = [loop EXCEPT !.pc = "init", !.mc = IF ParQueries > N THEN N ELSE ParQueries]
  /\ UNCHANGED <<st, rv, reply, saved, answer, alive, tests, added, late, stray, history>>

\* The loop that calls p_exec_query once for every server of the batch.
StartQueries ==
  /\ loop.pc = "init"
  /\ loop' = IF loop.i = loop.mc
             THEN IF loop.dc < loop.mc THEN [loop EXCEPT !.pc = "poll"] ELSE NextBatch(loop)
             ELSE IF loop.i >= loop.j THEN [loop EXCEPT !.pc = "exec"]
             ELSE Turn(st[loop.i])
  /\ UNCHANGED <<st, rv, reply, saved, answer, alive, tests, added, late, stray, history>>

\* The servers polled.
Pending == {k \in loop.dc..(loop.mc - 1) : st[k].state # "DONE"}

\* poll: an error, a timeout, or events.
Poll ==
  /\ loop.pc = "poll"
  /\ rv' = "SERVFAIL"
  /\ \/ /\ Pending = {} /\ loop' = NextBatch([loop EXCEPT !.dc = loop.mc])
        /\ UNCHANGED <<alive, saved>>
     \/ /\ Pending # {} /\ loop' = [loop EXCEPT !.pc = "cancel"]
        /\ alive' = FreeSaved(alive) /\ saved' = Nothing
     \/ /\ Pending # {}
        /\ loop' = [loop EXCEPT !.pc = "timeout", !.at = "timeout", !.i = loop.j, !.udp = FALSE]
        /\ UNCHANGED <<alive, saved>>
     \/ /\ \E e \in SUBSET Pending \ {{}} :
             loop' = [loop EXCEPT !.pc = "events", !.at = "events", !.i = loop.dc, !.ready = e]
        /\ UNCHANGED <<alive, saved>>
  /\ UNCHANGED <<st, reply, answer, tests, added, late, stray, history>>

\* The loop over the events.
Events ==
  LET s == st[loop.i]
      hit == loop.i \in loop.ready /\ s.state \in Waiting
  IN  /\ loop.pc = "events"
      /\ IF loop.i < loop.mc
         THEN /\ loop' = IF hit THEN [loop EXCEPT !.pc = "exec", !.ready = @ \ {loop.i}]
                         ELSE Turn(s)
              /\ UNCHANGED <<rv, saved, alive>>
         ELSE IF loop.ready # {}                            \* unhandled events
         THEN /\ loop' = [loop EXCEPT !.pc = "cancel"] /\ rv' = "SERVFAIL"
              /\ alive' = FreeSaved(alive) /\ saved' = Nothing
         ELSE /\ loop' = IF loop.dc < loop.mc THEN [loop EXCEPT !.pc = "poll"]
                         ELSE NextBatch(loop)
              /\ UNCHANGED <<rv, saved, alive>>
      /\ UNCHANGED <<st, reply, answer, tests, added, late, stray, history>>

\* tentative_tcp_query.
Tentative(s) ==
  s.qm = "TCP_UDP" /\ (s.state = "TCPWRITE" \/ (s.state = "TCPREAD" /\ ~ s.moved))

\* Mutant: the socket stays open.
TimedOutUnclosed ==
  LET s == st[loop.i]
  IN  /\ loop.pc = "timeout" /\ loop.i < loop.mc
      /\ IF Tentative(s) THEN Set(switch_to_udp(s)) /\ loop' = [loop EXCEPT !.pc = "exec"]
                         ELSE loop' = [loop EXCEPT !.i = @ + 1] /\ UNCHANGED st
      /\ UNCHANGED <<rv, reply, saved, answer, alive, tests, added, late, stray, history>>

\* Mutant: also a server that has answered before.
TimedOutAll ==
  LET s == st[loop.i]
      t == [s EXCEPT !.needs = IF s.state # "DONE" THEN 2 ELSE @]
  IN  /\ loop.pc = "timeout" /\ loop.i < loop.mc
      /\ Set(t) /\ loop' = [loop EXCEPT !.i = @ + 1]
      /\ UNCHANGED <<rv, reply, saved, answer, alive, tests, added, late, stray, history>>

\* After a timeout: the silent servers of this batch are to be tested, and TCP queries
\* that got nowhere are sent over UDP.
TimedOut ==
  LET s == st[loop.i]
      t == [s EXCEPT !.needs = IF s.state # "DONE" /\ @ # 0 THEN 2 ELSE @]
  IN  /\ loop.pc = "timeout" /\ loop.i < loop.mc
      /\ IF Tentative(s)
         THEN /\ Set(switch_to_udp([t EXCEPT !.sock = Close(@)]))
              /\ loop' = [loop EXCEPT !.pc = "exec"]
         ELSE Set(t) /\ loop' = [loop EXCEPT !.i = @ + 1]
      /\ UNCHANGED <<rv, reply, saved, answer, alive, tests, added, late, stray, history>>

\* Mutant: also when nothing was sent again.
AfterTimeoutAlways ==
  /\ loop.pc = "timeout" /\ loop.i = loop.mc
  /\ \E l \in {late, TRUE} :
       /\ late' = l
       /\ loop' = IF loop.mc = N /\ ~ l THEN [loop EXCEPT !.pc = "poll"] ELSE NextBatch(loop)
  /\ UNCHANGED <<st, rv, reply, saved, answer, alive, tests, added, stray, history>>

\* The global timeout decides whether the last batch goes on over UDP.
AfterTimeout ==
  /\ loop.pc = "timeout" /\ loop.i = loop.mc
  /\ \E l \in {late, TRUE} :
       /\ late' = l
       /\ loop' = IF loop.mc = N /\ loop.udp /\ ~ l THEN [loop EXCEPT !.pc = "poll"]
                  ELSE NextBatch(loop)
  /\ UNCHANGED <<st, rv, reply, saved, answer, alive, tests, added, stray, history>>

p_cancel_query(s) ==
  [s EXCEPT !.sock = IF s.state \in Waiting THEN Close(@) ELSE @,
            !.buf  = IF s.state \notin {"INITIAL", "DONE"} THEN Free(@) ELSE @,
            !.msg  = IF s.state \notin {"INITIAL", "DONE"} THEN Free(@) ELSE @,
            !.state = IF @ \in {"INITIAL", "DONE"} THEN @ ELSE "CANCELED"]

\* Label cancel_queries; then the answer: what was saved if nothing better came.
CancelQueries ==
  /\ loop.pc = "cancel"
  /\ st' = [k \in Servers |-> IF k \in loop.dc..(loop.mc - 1) THEN p_cancel_query(st[k])
                              ELSE st[k]]
  /\ tests' = [k \in Servers |-> IF k < loop.mc /\ st[k].needs > 1 THEN "test" ELSE tests[k]]
  /\ answer' = IF saved # Nothing THEN saved ELSE answer
  /\ rv' = IF saved # Nothing THEN "OK" ELSE IF rv = "FATALERR" THEN "SERVFAIL" ELSE rv
  /\ loop' = [loop EXCEPT !.pc = IF rv' = "OK" THEN "authority" ELSE "ended"]
  /\ UNCHANGED <<reply, saved, alive, added, late, stray, history>>

\* Ask the servers found, with p_dns_cached_resolve; a reply that claimed authority or
\* recursion is kept until they have answered.  Then the lists are freed.
AskFound ==
  LET s    == st[answer.s]
      keep == s.aa \/ s.ra
  IN  /\ loop.pc = "authority"
      /\ IF ~ answer.serv THEN UNCHANGED <<rv, answer>> /\ alive' = [alive EXCEPT !.ns = @ - (IF answer.ns THEN 1 ELSE 0)]
         ELSE \E code \in {"OK", "CACHED", "STALE", "NAMEERR", "SERVFAIL"} :
                LET theirs == code \in {"OK", "CACHED"} \/ (code = "STALE" /\ ~ keep)
                    mine   == keep /\ ~ theirs /\ code # "NAMEERR"
                IN  /\ rv' = IF mine THEN "OK" ELSE code
                    /\ answer' = IF mine THEN answer ELSE Nothing
                    /\ alive' = [ent |-> alive.ent - 1 + (IF theirs \/ mine THEN 1 ELSE 0),
                                 ns |-> alive.ns - (IF answer.ns THEN 1 ELSE 0)]
      /\ loop' = [loop EXCEPT !.pc = "ended"]
      /\ UNCHANGED <<st, reply, saved, tests, added, late, stray, history>>

Sm_ == \/ QS_INITIAL \/ QS_TCPINITIAL \/ QS_TCPWRITE \/ QS_TCPREAD
       \/ QS_UDPINITIAL \/ QS_UDPRECEIVE

QueryNext ==
  \/ Sm_ \/ Judge \/ AnswerReturned \/ ErrorReturned
  \/ Start \/ StartQueries \/ Poll \/ Events \/ TimedOut \/ AfterTimeout
  \/ CancelQueries \/ AskFound

\* The thread runs on, and poll returns after its timeout at the latest.
QuerySpec == QueryInit /\ [][QueryNext]_queryvars /\ WF_queryvars(QueryNext)

-----------------------------------------------------------------------------
(* Properties.                                                             *)

States == Waiting \cup {"INITIAL", "TCPINITIAL", "UDPINITIAL", "DONE", "CANCELED"}

\* Type correctness.
QueryTypeOK ==
  /\ \A i \in Servers : st[i].state \in States /\ st[i].needs \in 0..2
                        /\ st[i].failed \in {0, 1, 3}
  /\ loop.dc \in 0..N /\ loop.mc \in 0..N /\ loop.i \in 0..N
  /\ alive.ent \in Nat /\ alive.ns \in Nat

\* Each state owns what the code believes it owns: one open socket and one message while
\* it waits, nothing when it is done, however it came there: by retries, switches of the
\* transport, errors between or cancellation.  Nothing is freed twice; but for the buffer
\* of the reply before when a server, asked once more over TCP, announces a reply of length
\* 0 ("refreed"): that server is not waited for any more.
Owned ==
  \A i \in Servers :
    LET s == st[i]
        busy == loop.pc \in {"exec", "received"} /\ loop.i = i
    IN  /\ s.sock \in {"open", "closed"}
        /\ {s.msg, s.buf} \cap {"twice", "leak"} = {}
        /\ s.msg # "refreed" /\ (s.buf = "refreed" => s.state \notin Waiting)
        /\ s.state \in Waiting => s.sock = "open" /\ s.msg = "live"
        /\ s.state \in {"INITIAL", "DONE", "CANCELED"} /\ ~ busy
             => s.sock = "closed" /\ s.msg # "live" /\ s.buf # "live"

\* What poll is given: of a server that is not done, a socket that can be waited for;
\* else it "is not found in poll() array" or never gets an event.
Pollable == loop.pc = "poll" => \A k \in Pending : st[k].state \in Waiting

\* When the query ends, no socket is open and no message held, no entry is left but the one
\* returned, and no list of name servers.
NothingLeft ==
  loop.pc = "ended" =>
    /\ \A i \in Servers : st[i].sock = "closed" /\ st[i].msg # "live" /\ st[i].buf # "live"
    /\ alive.ent = IF rv \in {"OK", "CACHED", "STALE"} THEN 1 ELSE 0
    /\ alive.ns = 0

\* Sockets, messages and entries have one owner, in every state of p_query_sm and on
\* every way out of p_recursive_query, and poll gets what can be waited for.
ResourcesOwned == QueryTypeOK /\ Owned /\ Pollable /\ NothingLeft

\* Nobody gives up early: a query that found nothing to use, without an error of its own,
\* has asked every server.
AllAsked ==
  [][loop.pc # "cancel" /\ loop'.pc = "cancel" /\ saved' = Nothing /\ answer' = Nothing
       /\ rv' \notin {"NAMEERR", "FATALERR"} /\ ~ Poll
     => \A i \in Servers : st[i].state # "INITIAL"]_queryvars

\* The answer used for want of a better one is the best of those put aside.
BestUsed == loop.pc = "authority" /\ saved # Nothing => answer.q = Max(quals)

\* A server that answered is not marked down or to be tested by this query any more; one
\* that was asked, may be tested and timed out is, in the end.
Tested ==
  /\ \A i \in Servers : tests[i] = "up" => st[i].needs = 0
  /\ loop.pc \in {"authority", "ended"} =>
       \A i \in Servers : st[i].needs = 2 => tests[i] = "test"

\* Addresses of the reject list are neither used nor cached, in whichever section and
\* whichever of the retried replies they came.
RejectedUnused ==
  \A i \in Servers : Kind[i].rejects =>
    /\ \A x \in added : x[1] = i => ~ x[2].bad
    /\ loop.pc = "ended" /\ answer # Nothing /\ answer.s = i => \A x \in answer.own : ~ x.bad

\* A server is asked at most five times: twice again over the first transport (without
\* recursion, without EDNS), then over TCP, once more without recursion.
SendsBounded == \A i \in Servers : sent[i] <= 5

\* What p_recursive_query settles for is the best it was given and holds nothing it was
\* told to reject.
RightAnswer == BestUsed /\ RejectedUnused

\* What a query does to the servers: each is asked a bounded number of times, and
\* sched_server_test is told of the silent ones and of none that answered.
ServersSpared == Tested /\ SendsBounded

\* Every query ends, as long as messages that do not count do not go on for ever.
Ends == <>(loop.pc = "ended")
=============================================================================
