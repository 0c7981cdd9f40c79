---------------------------- MODULE PdnsdAnswer ----------------------------
(***************************************************************************)
(* How pdnsd answers its clients (dns_answer.c): the UDP and TCP server    *)
(* threads, which start a thread per request within limits, and what such  *)
(* a thread does: it waits for one of proc_limit places, reads (TCP) and   *)
(* checks the message (process_query), composes the answer                 *)
(* (compose_answer) and sends it.  Memory and the socket of a request are  *)
(* given back by cleanup handlers, wherever the thread ends.               *)
(*                                                                         *)
(* The client's message is a record of what process_query looks at; sizes  *)
(* count 1 for the header, a question, a record and the OPT record.  What  *)
(* dns_cached_resolve and lookup_cache return may change from one call to  *)
(* the next: Resolve and Cached give the possible results.                 *)
(***************************************************************************)
EXTENDS Integers, Sequences, FiniteSets

CONSTANTS MaxRequests,   \* bound: the requests that arrive
          MaxFaults,     \* bound: allocations, system calls and clients that fail
          proc_limit, procq_limit,
          MAX_HOPS,
          UDP_BUFSIZE,   \* 512: the size of a UDP answer without EDNS
          udpbufsize,    \* global.udpbufsize: its size at most
          Names, Values, \* domain names, and what records hold
          Messages,      \* of a request: what the client may send
          Resolve,       \* of a name: the results of dns_cached_resolve
          Cached,        \* of a name: the results of lookup_cache
          LocalOwner,    \* of a name: getlocalowner
          None

Types == {"A", "CNAME", "NS", "SOA", "MB"}

\* An entry of the cache: a set of records, none of them twice, for each type, and the
\* name above whose name server or SOA record it was found with.
IsEntry(e) ==
  /\ e.local \in BOOLEAN
  /\ \A tp \in {"NS", "SOA"} : e.above[tp] \in Names \cup {None}
  /\ \A t \in Types :
       /\ e.sets[t] \in Seq(IF t \in {"CNAME", "NS", "MB"} THEN Names ELSE Values)
       /\ \A j, k \in 1..Len(e.sets[t]) : j # k => e.sets[t][j] # e.sets[t][k]

IsMessage(m) ==
  /\ m.rd \in BOOLEAN /\ m.body \in {"ok", "cut", "bad", "memory"}
  /\ m.qs \in Seq([name : Names, type : Types \cup {"ALL", "MAILB", "AXFR"}, class : {"IN", "other"}])
  /\ m.opt # None => m.opt.udpsize \in Nat

ASSUME AnswerAssumption ==
  /\ proc_limit \in Nat \ {0} /\ procq_limit \in Nat
  /\ UDP_BUFSIZE \in Nat \ {0, 1} /\ udpbufsize \in Nat /\ UDP_BUFSIZE <= udpbufsize
  /\ MAX_HOPS \in Nat /\ MaxRequests \in Nat /\ MaxFaults \in Nat
  /\ Names \subseteq Values /\ None \notin Int
  /\ \A r \in 1..MaxRequests : \A m \in Messages[r] : IsMessage(m)
  /\ \A n \in Names :
       /\ \A o \in Resolve[n] : /\ o.rc \in -1..15 /\ o.soa \in Names \cup {None}
                                /\ o.rc = 0 => IsEntry(o.ent)
       /\ \A x \in Cached[n] : x = None \/ IsEntry(x)
       /\ LocalOwner[n] \in Names \cup {None}

VARIABLES
  req,      \* of a request: [pc, proto, held, c, out]
  server,   \* of udp and tcp: [pc, r], the server thread and the request in its hands
  socket,   \* of udp and tcp: udp_socket, tcp_socket are not -1
  procs, qprocs, spawned, dropped,
  exiting,  \* pdnsd_exit was called
  faults    \* counts what MaxFaults bounds

vars == <<req, server, socket, procs, qprocs, spawned, dropped, exiting, faults>>

Requests == 1..MaxRequests
Protos   == {"udp", "tcp"}

\* udp = NULL: the answer may be as long as it is.
NoLimit == -1
Over(size, limit) == limit # NoLimit /\ size > limit

NoRequest == [pc |-> "none", proto |-> None, held |-> {}, c |-> None, out |-> None]

\* start_dns_servers: a thread per socket that could be opened; without any, main ends.
Init ==
  /\ socket \in [Protos -> BOOLEAN] /\ \E p \in Protos : socket[p]
  /\ server = [p \in Protos |-> [pc |-> IF socket[p] THEN "wait" ELSE "off", r |-> None]]
  /\ req = [r \in Requests |-> NoRequest]
  /\ procs = 0 /\ qprocs = 0 /\ spawned = 0 /\ dropped = 0
  /\ exiting = FALSE /\ faults = 0

Fault == faults < MaxFaults /\ faults' = faults + 1

Arrived == Cardinality({r \in Requests : req[r].pc # "none"})

-----------------------------------------------------------------------------
(* Codes and replies.                                                      *)

RC_OK       == 0
RC_FORMAT   == 1
RC_SERVFAIL == 2
RC_NAMEERR  == 3
RC_NOTSUPP  == 4
RC_BADVERS  == 16
RC_TRUNC    == 65534

\* The header has 4 bits for the code; rcode is an unsigned short.
Code(rc) == (rc % 65536) % 16

NoRecords == [an |-> <<>>, ns |-> <<>>, ar |-> <<>>]

\* mk_error_reply, with an OPT record for the high bits of the code.
ErrorReply(rc, limit) ==
  [qr |-> TRUE, aa |-> FALSE, tc |-> FALSE, rcode |-> Code(rc),
   opt |-> IF rc \div 16 # 0 THEN rc \div 16 ELSE None,
   size |-> IF rc \div 16 # 0 THEN 2 ELSE 1, limit |-> limit, code |-> rc, recs |-> NoRecords]

\* What compose_answer returns.
Reply(c, rc, aa) ==
  [qr |-> TRUE, aa |-> aa, tc |-> FALSE, rcode |-> Code(rc), opt |-> c.opt, size |-> c.size,
   limit |-> c.limit, code |-> rc, recs |-> [an |-> c.an, ns |-> c.ns, ar |-> c.ar]]

-----------------------------------------------------------------------------
(* The server threads.                                                     *)

\* What the server thread allocates for a request, and frees if no thread takes it over.
Buffers(p) == IF p = "udp" THEN {"data"} ELSE {"csock", "socket"}

Serving(p, pc, r) == server' = [server EXCEPT ![p] = [pc |-> pc, r |-> r]]

Room == qprocs < proc_limit + procq_limit

\* A request comes in: it gets a place among the threads, or is dropped.
Receive(p) ==
  LET r == Arrived + 1
  IN  /\ server[p].pc = "wait" /\ r \in Requests
      /\ IF Room
         THEN /\ qprocs' = qprocs + 1 /\ spawned' = spawned + 1
              /\ req' = [req EXCEPT ![r] = [@ EXCEPT !.pc = "new", !.proto = p, !.held = Buffers(p)]]
              /\ Serving(p, "create", r)
              /\ UNCHANGED dropped
         ELSE /\ dropped' = dropped + 1
              /\ req' = [req EXCEPT ![r].pc = "done"]
              /\ UNCHANGED <<qprocs, spawned, server>>
      /\ UNCHANGED <<socket, procs, exiting, faults>>

\* Mutant: the place is not given back.
NotCreatedKept(p) ==
  LET r == server[p].r
  IN  /\ server[p].pc = "create" /\ Fault
      /\ dropped' = dropped + 1 /\ spawned' = spawned - 1
      /\ req' = [req EXCEPT ![r] = [NoRequest EXCEPT !.pc = "done"]]
      /\ Serving(p, "wait", None)
      /\ UNCHANGED <<socket, procs, qprocs, exiting>>

\* pthread_create fails: the place is given back.
NotCreated(p) ==
  LET r == server[p].r
  IN  /\ server[p].pc = "create" /\ Fault
      /\ qprocs' = qprocs - 1 /\ spawned' = spawned - 1 /\ dropped' = dropped + 1
      /\ req' = [req EXCEPT ![r] = [NoRequest EXCEPT !.pc = "done"]]
      /\ Serving(p, "wait", None)
      /\ UNCHANGED <<socket, procs, exiting>>

\* The thread takes the buffers over.
Created(p) ==
  /\ server[p].pc = "create"
  /\ req' = [req EXCEPT ![server[p].r].pc = "queued"]
  /\ Serving(p, "wait", None)
  /\ UNCHANGED <<socket, procs, qprocs, spawned, dropped, exiting, faults>>

\* No memory for the next request (or listen failed): the thread leaves its loop.
NoMemory(p) ==
  /\ server[p].pc = "wait" /\ Fault
  /\ Serving(p, "leave", None)
  /\ UNCHANGED <<req, socket, procs, qprocs, spawned, dropped, exiting>>

\* It marks its socket closed, and then looks at the other's.
CloseSocket(p) ==
  /\ server[p].pc = "leave"
  /\ socket' = [socket EXCEPT ![p] = FALSE]
  /\ Serving(p, "last", None)
  /\ UNCHANGED <<req, procs, qprocs, spawned, dropped, exiting, faults>>

\* The last server thread ends the process.
LeaveServer(p) ==
  /\ server[p].pc = "last"
  /\ exiting' = (exiting \/ \A s \in Protos : ~ socket[s])
  /\ Serving(p, "off", None)
  /\ UNCHANGED <<req, socket, procs, qprocs, spawned, dropped, faults>>

-----------------------------------------------------------------------------
(* The life of an answer thread.                                           *)

\* What the cleanup handlers free that the thread has pushed so far.
Handlers(x) ==
  Buffers(x.proto) \cup CASE x.pc \in {"reply", "sent"} -> {"resp"}
                          [] x.pc \in {"body", "part", "process"} /\ x.proto = "tcp" -> {"buf"}
                          [] OTHER -> {}

decrease_procs == procs' = procs - 1 /\ qprocs' = qprocs - 1

\* pthread_exit, or the end of the thread's function.
Exit(r) ==
  /\ req' = [req EXCEPT ![r] = [NoRequest EXCEPT !.pc = "done",
                                                 !.held = req[r].held \ Handlers(req[r])]]
  /\ decrease_procs
  /\ UNCHANGED <<server, socket, spawned, dropped>>

\* run_as fails: the process is to end; the thread goes through its handler.
RunAsFails(r) ==
  /\ req[r].pc = "queued" /\ Fault
  /\ exiting' = TRUE
  /\ Exit(r)

\* One of the polls of the counter finds a place.
Slot(r) ==
  /\ req[r].pc = "queued" /\ procs < proc_limit
  /\ procs' = procs + 1
  /\ req' = [req EXCEPT ![r].pc = IF req[r].proto = "udp" THEN "process" ELSE "length"]
  /\ UNCHANGED <<server, socket, qprocs, spawned, dropped, exiting, faults>>

To(r, pc)   == req' = [req EXCEPT ![r].pc = pc]
OnlyRequest == UNCHANGED <<server, socket, procs, qprocs, spawned, dropped, exiting>>

\* TCP: the length and a buffer; nothing can be told to the client without.
ReadLength(r) ==
  /\ req[r].pc = "length"
  /\ req' = [req EXCEPT ![r] = [@ EXCEPT !.pc = "body", !.held = req[r].held \cup {"buf"}]]
  /\ OnlyRequest /\ UNCHANGED faults

\* tcp_qtimeout passed, the client closed, no memory, a query of length 0.
ReadFails(r) ==
  /\ req[r].pc \in {"length", "body"} /\ Fault
  /\ Exit(r) /\ UNCHANGED exiting

\* The message.
ReadBody(r) ==
  /\ req[r].pc = "body"
  /\ To(r, "process")
  /\ OnlyRequest /\ UNCHANGED faults

\* The client stops in the middle of it: with the id read, it is told so.
ReadPart(r) ==
  /\ req[r].pc = "body" /\ Fault
  /\ req' = [req EXCEPT ![r] = [@ EXCEPT !.pc = "part", !.out = ErrorReply(RC_FORMAT, NoLimit)]]
  /\ OnlyRequest

-----------------------------------------------------------------------------
(* process_query.                                                          *)
\* The result of reading the questions: the code, and the questions read before.
decode_query(m) ==
  CASE m.body = "ok"     -> [res |-> RC_OK, ql |-> m.qs]
    [] m.body = "cut"    -> [res |-> RC_TRUNC, ql |-> m.qs]
    [] m.body = "bad"    -> [res |-> RC_FORMAT, ql |-> <<>>]
    [] m.body = "memory" -> [res |-> RC_SERVFAIL, ql |-> <<>>]

\* Whether the OPT record can be used: its version and code are 0.
OptError(m) ==
  IF m.opt = None THEN RC_OK
  ELSE IF m.opt.version # 0 THEN RC_BADVERS
  ELSE IF m.opt.rcode # 0 THEN RC_FORMAT ELSE RC_OK

\* The additional section of the query (decode_query_additional) and the checks after it:
\* the code of an error, or RC_OK.
AdditionalError(m, res) ==
  IF m.ar = "none" THEN RC_OK
  ELSE IF res = RC_TRUNC \/ m.ar = "bad" \/ (m.ar = "cut" /\ ~ m.tc) THEN RC_FORMAT
  ELSE OptError(m)

Discard  == [kind |-> "discard"]
Error(c) == [kind |-> "error", rc |-> c]

\* The checks, in order: what becomes of the message.
process_query(m) ==
  LET d == decode_query(m)
      e == IF d.res = RC_TRUNC /\ (~ m.tc \/ d.ql = <<>>) THEN RC_FORMAT
           ELSE IF d.res \notin {RC_OK, RC_TRUNC} THEN d.res
           ELSE AdditionalError(m, d.res)
  IN  IF m.len = "tiny" THEN Discard
      ELSE IF m.len = "short" THEN Error(RC_FORMAT)
      ELSE IF m.qr THEN Discard
      ELSE IF m.opcode # "QUERY" THEN Error(RC_NOTSUPP)
      ELSE IF m.z THEN Error(RC_FORMAT)
      ELSE IF m.rcode # RC_OK THEN Discard
      ELSE IF m.counts THEN Error(RC_FORMAT)
      ELSE IF e # RC_OK THEN Error(e)
      ELSE IF d.ql = <<>> THEN Error(RC_FORMAT)
      ELSE [kind |-> "compose", ql |-> d.ql]

\* How long a UDP answer may be: what the client offers, up to udpbufsize.
Limit(m) ==
  IF m.ar # "none" /\ m.opt # None /\ m.opt.udpsize > UDP_BUFSIZE
  THEN IF udpbufsize > m.opt.udpsize THEN m.opt.udpsize ELSE udpbufsize
  ELSE UDP_BUFSIZE

-----------------------------------------------------------------------------
(* compose_answer.                                                         *)

\* The header and the questions; ar is the additional section, exts the list (ar in the
\* code) of what to add to the authority and additional sections, next where the loop
\* over it is, rrs the records of the last host that are still to be added.
Start(m, ql, limit) ==
  [qs |-> ql, name |-> Head(ql).name, hops |-> MAX_HOPS, rd |-> m.rd,
   edns |-> m.ar # "none" /\ m.opt # None, an |-> <<>>, ns |-> <<>>, ar |-> <<>>,
   exts |-> <<>>, sva |-> {}, stage |-> "answer", next |-> 1, rrs |-> <<>>,
   aa |-> TRUE, opt |-> None, size |-> 1 + Len(ql), limit |-> limit]

Single(t)    == t \notin {"ALL", "MAILB", "AXFR"}
Supported(q) == q.type # "AXFR" /\ q.class = "IN"

\* The records of a set are added, to the answer or the authority section.
AddAll(c, s, rs) == [c EXCEPT ![s] = @ \o rs, !.size = @ + Len(rs)]

\* A record is added; to the additional section if it fits.
add_rr(c, s, x) ==
  IF s = "ar" /\ Over(c.size + 1, c.limit) THEN c ELSE AddAll(c, s, <<x>>)

\* OPT, with the high bits of the code.
add_opt_pseudo_rr(c, rc) == [c EXCEPT !.opt = rc \div 16, !.size = @ + 1]

Key(x)   == <<x.nm, x.tp, x.data>>
Keys(rs) == {Key(rs[k]) : k \in DOMAIN rs}

\* Mutant: what the answer section has is not marked.
MarkAdditional(c, s, rs) == IF s = "an" THEN c ELSE [c EXCEPT !.sva = @ \cup Keys(rs)]

\* sva_add: records of the answer that could be added again, and what was added (or was
\* to be added, and did not fit).
Mark(c, s, rs) ==
  [c EXCEPT !.sva = @ \cup {k \in Keys(rs) : s = "an" => k[2] \in {"NS", "A", "AAAA"}}]

\* A record is added to the authority or the additional section, once.
add_additional_rr(c, s, x) ==
  IF Key(x) \in c.sva THEN c ELSE Mark(add_rr(c, s, x), s, <<x>>)

Records(n, e, t) ==
  [k \in 1..Len(e.sets[t]) |-> [nm |-> n, tp |-> t, data |-> e.sets[t][k], local |-> e.local]]

\* add_ar, for records of the kind tp.
Exts(rs, tp) == [k \in 1..Len(rs) |-> [tp |-> tp, rec |-> rs[k]]]

\* The records of a type, marked; the hosts they name (ar_recs) are to get addresses.
add_rrset(c, e, t) ==
  LET rs == Records(c.name, e, t)
  IN  [Mark(AddAll(c, "an", rs), "an", rs) EXCEPT
         !.exts = @ \o IF t \in {"NS", "MB"} THEN Exts(rs, "ADD") ELSE <<>>]

Has(e, t) == e.sets[t] # <<>>

\* Whether the name's alias is to be told (and followed): there is no record of the type.
AliasFor(t, e) == t \notin {"CNAME", "ALL"} /\ ~ (Single(t) /\ Has(e, t))

\* MB stands for all the mailbox records of MAILB.
add_to_response(c, t, e) ==
  LET c1 == IF AliasFor(t, e) THEN add_rrset(c, e, "CNAME") ELSE c
      a  == add_rrset(c1, e, "A")
      cn == add_rrset(a, e, "CNAME")
      ns == add_rrset(cn, e, "NS")
      so == add_rrset(ns, e, "SOA")
  IN  CASE t = "MAILB" -> add_rrset(c1, e, "MB")
        [] t = "ALL"   -> add_rrset(so, e, "MB")
        [] OTHER       -> add_rrset(c1, e, t)

\* The kind of authority record: SOA when there is no record of the type.
Rretp(t, e) ==
  IF t # "ALL" /\ ~ Has(e, IF t = "MAILB" THEN "MB" ELSE t) THEN "SOA" ELSE "NS"

\* The records of an entry of the name d, listed for the authority section.
Listed(d, x, tp) == Exts(Records(d, x, tp), tp)

\* The possible authority records for the last name of a chain: its own, or those of the
\* domain above that the answer named, or of the local zone.
AuthorityOf(n, e, tp) ==
  LET d     == IF e.above[tp] # None THEN e.above[tp] ELSE n
      own   == LocalOwner[n]
      Zone  == IF e.local /\ own # None
               THEN {IF y = None THEN <<>> ELSE Listed(own, y, tp) : y \in Cached[own]} ELSE {<<>>}
  IN  IF Has(e, tp) THEN {Listed(n, e, tp)}
      ELSE UNION {IF x # None /\ Has(x, tp) THEN {Listed(d, x, tp)} ELSE Zone : x \in Cached[d]}

\* The next question, if there is one.
NextQuestion(c) ==
  IF Len(c.qs) = 1 THEN [c EXCEPT !.qs = <<>>]
  ELSE [c EXCEPT !.qs = Tail(@), !.name = c.qs[2].name, !.hops = MAX_HOPS]

\* The loop over aliases: --hops >= 0.
Follow(c, n) == IF c.hops = 0 THEN NextQuestion(c) ELSE [c EXCEPT !.name = n, !.hops = @ - 1]

Authoritative(c, e) == [c EXCEPT !.aa = @ /\ e.local]

\* dns_cached_resolve found an entry.
Resolved(c, e) ==
  LET t  == Head(c.qs).type
      c1 == add_to_response(Authoritative(c, e), t, e)
  IN  IF c.rd /\ AliasFor(t, e) /\ Has(e, "CNAME") THEN {Follow(c1, e.sets["CNAME"][1])}
      ELSE {NextQuestion([c1 EXCEPT !.exts = @ \o a]) : a \in AuthorityOf(c.name, e, Rretp(t, e))}

\* The SOA record of a zone in which the name does not exist, if it is still cached.
WithSoa(c, zone, x) == IF x = None THEN c ELSE AddAll(c, "ns", Records(zone, x, "SOA"))

WithOpt(c, rc) == IF c.edns THEN add_opt_pseudo_rr(c, rc) ELSE c

\* It failed: if the name does not exist, the SOA record is added, and OPT.
Unresolved(c, o) ==
  IF o.rc # RC_NAMEERR THEN {c}
  ELSE IF o.soa = None THEN {WithOpt(c, o.rc)}
  ELSE {WithOpt(WithSoa(c, o.soa, x), o.rc) : x \in Cached[o.soa]}

\* Mutant: the size is not looked at before OPT is added.
OptFitsAlways(c) == TRUE

OptFits(c) == ~ Over(c.size + 1, c.limit)

\* The authority section is through: OPT, and the hosts whose addresses are to be added,
\* as far as there is room.
StartAdditional(c) ==
  LET c1 == [c EXCEPT !.stage = "additional", !.next = IF OptFits(c) THEN 1 ELSE Len(c.exts) + 1]
  IN  IF OptFits(c) /\ c.edns THEN add_opt_pseudo_rr(c1, RC_OK) ELSE c1

-----------------------------------------------------------------------------
(* The steps from the message to the answer.                               *)

\* There is a reply to send; the message is freed.
Replies(r, out) ==
  req' = [req EXCEPT ![r] = [@ EXCEPT !.pc = "reply", !.out = out, !.c = None,
                                      !.held = (req[r].held \ {"buf"}) \cup {"resp"}]]

LimitFor(r, m) == IF req[r].proto = "udp" THEN Limit(m) ELSE NoLimit

\* The message is looked at.
Process(r) ==
  \E m \in Messages[r] :
    LET p     == process_query(m)
        limit == LimitFor(r, m)
        c     == Start(m, p.ql, limit)
    IN  /\ req[r].pc = "process"
        /\ CASE p.kind = "discard" -> Exit(r)
             [] p.kind = "error" ->
                  /\ Replies(r, ErrorReply(p.rc, limit))
                  /\ UNCHANGED <<server, socket, procs, qprocs, spawned, dropped>>
             [] p.kind = "compose" ->
                  /\ IF \E k \in DOMAIN p.ql : ~ Supported(p.ql[k])
                     THEN Replies(r, Reply(c, RC_NOTSUPP, FALSE))
                     ELSE req' = [req EXCEPT ![r] = [@ EXCEPT !.pc = "compose", !.c = c]]
                  /\ UNCHANGED <<server, socket, procs, qprocs, spawned, dropped>>
        /\ UNCHANGED <<exiting, faults>>

\* The answer section: a name is resolved; an error ends the answer there.
Hop(r) ==
  LET c == req[r].c
  IN  /\ req[r].pc = "compose" /\ c.qs # <<>>
      /\ \E o \in Resolve[c.name] :
           IF o.rc = RC_OK
           THEN \E c1 \in Resolved(c, o.ent) : req' = [req EXCEPT ![r].c = c1]
           ELSE \E c1 \in Unresolved(c, o) : Replies(r, Reply(c1, o.rc, FALSE))
      /\ OnlyRequest /\ UNCHANGED faults

In(r, stage) == req[r].pc = "compose" /\ req[r].c.qs = <<>> /\ req[r].c.stage = stage

Compose(r, c) == req' = [req EXCEPT ![r].c = c] /\ OnlyRequest /\ UNCHANGED faults

\* The authority section: the next of the list, or its end.
Authority(r) ==
  LET c  == req[r].c
      x  == c.exts[c.next]
      c1 == [c EXCEPT !.next = @ + 1]
  IN  CASE In(r, "answer") -> Compose(r, [c EXCEPT !.stage = "authority"])
        [] In(r, "authority") ->
             Compose(r, IF c.next > Len(c.exts) THEN StartAdditional(c)
                        ELSE IF x.tp = "ADD" THEN c1 ELSE add_additional_rr(c1, "ns", x.rec))
        [] OTHER -> FALSE

\* Mutant: the loop does not get to the next host.
HostSame(r) ==
  LET c    == req[r].c
      x    == c.exts[c.next]
      host == x.rec.data
  IN  /\ In(r, "additional") /\ c.rrs = <<>> /\ c.next <= Len(c.exts)
      /\ IF x.tp = "SOA" THEN Compose(r, [c EXCEPT !.next = @ + 1])
         ELSE \E y \in Cached[host] :
                Compose(r, [c EXCEPT !.rrs = IF y = None THEN <<>> ELSE Records(host, y, "A")])

\* add_additional_a, for the next of the list: the host is looked up.
NextHost(r) ==
  LET c    == req[r].c
      c1   == [c EXCEPT !.next = @ + 1]
      x    == c.exts[c.next]
      host == x.rec.data
  IN  /\ In(r, "additional") /\ c.rrs = <<>> /\ c.next <= Len(c.exts)
      /\ IF x.tp = "SOA" THEN Compose(r, c1)
         ELSE \E y \in Cached[host] :
                Compose(r, IF y = None THEN c1 ELSE [c1 EXCEPT !.rrs = Records(host, y, "A")])

\* add_additional_rrs: one of its addresses.
NextAddress(r) ==
  LET c == req[r].c
  IN  /\ In(r, "additional") /\ c.rrs # <<>>
      /\ Compose(r, add_additional_rr([c EXCEPT !.rrs = Tail(@)], "ar", Head(c.rrs)))

Complete(r) ==
  /\ In(r, "additional") /\ req[r].c.rrs = <<>> /\ req[r].c.next > Len(req[r].c.exts)
  /\ Replies(r, Reply(req[r].c, RC_OK, req[r].c.aa))
  /\ OnlyRequest /\ UNCHANGED faults

\* No memory while composing: the client is told of a failure.
ComposeFails(r) ==
  /\ req[r].pc = "compose" /\ Fault
  /\ Replies(r, ErrorReply(RC_SERVFAIL, req[r].c.limit))
  /\ OnlyRequest

\* udp_answer_thread: an answer that is too long is cut.
Cut(out) ==
  IF Over(out.size, out.limit) THEN [out EXCEPT !.size = out.limit, !.tc = TRUE] ELSE out

Send(r) ==
  /\ req[r].pc = "reply"
  /\ req' = [req EXCEPT ![r] = [@ EXCEPT !.pc = "sent", !.out = Cut(req[r].out)]]
  /\ OnlyRequest /\ UNCHANGED faults

SendFails(r) ==
  /\ req[r].pc = "reply" /\ Fault
  /\ Exit(r) /\ UNCHANGED exiting

\* The end of the thread's function.
Finish(r) ==
  /\ req[r].pc \in {"sent", "part"}
  /\ Exit(r) /\ UNCHANGED <<exiting, faults>>

Thread(r) ==
  \/ RunAsFails(r) \/ Slot(r) \/ ReadLength(r) \/ ReadFails(r) \/ ReadBody(r) \/ ReadPart(r)
  \/ Process(r) \/ Hop(r) \/ Authority(r) \/ NextHost(r) \/ NextAddress(r) \/ Complete(r)
  \/ ComposeFails(r) \/ Send(r) \/ SendFails(r) \/ Finish(r)

Server(p) ==
  \/ Receive(p) \/ Created(p) \/ NotCreated(p) \/ NoMemory(p) \/ CloseSocket(p) \/ LeaveServer(p)

\* No request is being answered; the servers wait for more, or have ended.
Waiting ==
  /\ \A r \in Requests : req[r].pc \in {"none", "done"}
  /\ \A p \in Protos : server[p].pc \in {"wait", "off"}
  /\ UNCHANGED vars

Next == (\E r \in Requests : Thread(r)) \/ (\E p \in Protos : Server(p)) \/ Waiting

\* A TCP reply is written without a timeout (write_all): it is only sent if the client reads.
Unread(r) == req[r].proto = "tcp" /\ req[r].pc = "reply"

\* The threads run on: a client that does not send is left after tcp_qtimeout.  There is no
\* fairness for sending to a client that need not read.
Spec ==
  /\ Init /\ [][Next]_vars
  /\ WF_vars((\E r \in Requests : Thread(r) /\ ~ Unread(r))
             \/ \E p \in Protos : Created(p) \/ NotCreated(p) \/ CloseSocket(p) \/ LeaveServer(p))

-----------------------------------------------------------------------------
(* Properties.                                                             *)

With(pcs) == Cardinality({r \in Requests : req[r].pc \in pcs})

\* A record, and one listed for the authority section or for its host's addresses.
Record == [nm : Names, tp : Types, data : Values, local : BOOLEAN]
Listing == [tp : {"ADD", "NS", "SOA"}, rec : Record]

\* An answer in the making.
Composition(c) ==
  /\ c.name \in Names /\ c.hops \in 0..MAX_HOPS /\ c.rd \in BOOLEAN /\ c.edns \in BOOLEAN
  /\ c.an \in Seq(Record) /\ c.ns \in Seq(Record) /\ c.ar \in Seq(Record)
  /\ c.exts \in Seq(Listing) /\ c.rrs \in Seq(Record)
  /\ c.stage \in {"answer", "authority", "additional"} /\ c.next \in 1..(Len(c.exts) + 1)
  /\ c.aa \in BOOLEAN /\ c.size \in Nat /\ c.limit \in Nat \cup {NoLimit}

\* A reply.
Answer(out) ==
  /\ out.qr = TRUE /\ out.aa \in BOOLEAN /\ out.tc \in BOOLEAN /\ out.rcode \in 0..15
  /\ out.size \in Nat /\ out.limit \in Nat \cup {NoLimit}
  /\ \A s \in {"an", "ns", "ar"} : out.recs[s] \in Seq(Record)

\* Type correctness: what is composed and what is sent, while it is.
TypeOK ==
  /\ \A r \in Requests :
       /\ req[r].held \subseteq {"data", "csock", "socket", "buf", "resp"}
       /\ IF req[r].pc = "compose" THEN Composition(req[r].c) ELSE req[r].c = None
       /\ IF req[r].pc \in {"reply", "sent", "part"} THEN Answer(req[r].out) ELSE req[r].out = None
  /\ procs \in Int /\ qprocs \in Nat /\ spawned \in Nat /\ dropped \in Nat
  /\ socket \in [Protos -> BOOLEAN] /\ exiting \in BOOLEAN

\* procs and qprocs are the threads that work and those there are, through every way a
\* thread can end or fail to start; a process that is not ending keeps to the limits.
PlacesExact ==
  /\ qprocs = With({"new", "queued", "length", "body", "part", "process", "compose", "reply", "sent"})
  /\ qprocs <= proc_limit + procq_limit
  /\ ~ exiting => procs = With({"length", "body", "part", "process", "compose", "reply", "sent"})
  /\ ~ exiting => procs <= proc_limit

\* Every request was either given a thread or counted as dropped.
AllCounted == spawned + dropped = Arrived

\* Whichever server thread fails first, pdnsd does not go on without any.
LastServerExits == (\A p \in Protos : server[p].pc = "off") => exiting

\* A thread that has ended holds no memory and no socket.
NothingHeld == \A r \in Requests : req[r].pc = "done" => req[r].held = {}

\* Threads, requests, memory and sockets of dns_answer.c are accounted for, whatever fails
\* in a server thread, in the start of a thread or inside one.
ThreadsAccounted == TypeOK /\ PlacesExact /\ AllCounted /\ LastServerExits /\ NothingHeld

\* The replies on their way to a client.
Sent == {req[r].out : r \in {r \in Requests : req[r].pc \in {"sent", "part"}}}

\* No reply is itself answered by a pdnsd it reaches: there are no error storms.
NoStorm ==
  \A out \in Sent :
    process_query([len |-> "full", qr |-> out.qr, opcode |-> "QUERY", z |-> FALSE, rcode |-> out.rcode,
                   counts |-> FALSE, body |-> "ok", qs |-> <<>>, tc |-> out.tc, ar |-> "none",
                   opt |-> None, rd |-> TRUE]).kind = "discard"

\* A reply keeps to what the client can take, and says so if it was cut; a successful one
\* is never cut for its additional section.
KeepsToLimit ==
  \A out \in Sent :
    LET full == 1 + Len(out.recs.an) + Len(out.recs.ns) + Len(out.recs.ar)
    IN  /\ ~ Over(out.size, out.limit)
        /\ Over(full, out.limit) => out.tc
        /\ out.tc /\ out.rcode = RC_OK => out.recs.ar = <<>> /\ out.opt = None

\* No record is sent twice in the authority and additional sections, and none is sent there
\* that the answer section has, over all questions and aliases; but for an SOA record that
\* answers one question and tells the zone of another.
NoDoubles ==
  \A out \in Sent :
    LET more == out.recs.ns \o out.recs.ar
    IN  /\ \A j, k \in 1..Len(more) : j # k => Key(more[j]) # Key(more[k])
        /\ \A j \in 1..Len(more), k \in 1..Len(out.recs.an) :
             Key(more[j]) = Key(out.recs.an[k]) => more[j].tp = "SOA"

\* Authority is claimed only for answers that are local in every part.
AuthorityTrue ==
  \A out \in Sent : out.aa => \A k \in DOMAIN out.recs.an : out.recs.an[k].local

\* The client can read the code: the header and OPT together give it, unless it is none
\* of the DNS codes.
CodeConveyed ==
  \A out \in Sent :
    out.code >= 0 => out.rcode + 16 * (IF out.opt = None THEN 0 ELSE out.opt) = out.code

\* A reply of compose_answer or process_query is what it should be: no cause for another
\* one, no record twice, no false authority, the code legible.
RepliesTrue == NoStorm /\ NoDoubles /\ AuthorityTrue /\ CodeConveyed

\* Whether r waits for the client of a TCP reply: its own, or those of the requests that
\* have all the places.
WaitsForClient(r) ==
  \/ Unread(r)
  \/ req[r].pc = "queued" /\ Cardinality({o \in Requests : Unread(o)}) >= proc_limit

\* Every thread that was started gets its place and ends, also if clients stop sending and
\* names are aliases of one another; but for what TCP clients keep waiting for ever that do
\* not read their reply, which is written without a timeout.
ThreadsEnd == <>[](\A r \in Requests : req[r].pc \in {"none", "done"} \/ WaitsForClient(r))
=============================================================================
