---------------------------- MODULE PdnsdResolve ----------------------------
(***************************************************************************)
(* How pdnsd resolves a name (dns_query.c, from auth_ok on): the cache     *)
(* first, then the configured servers, then the servers that answers name  *)
(* (NS records), whose addresses are names to resolve in turn.  The C      *)
(* functions call one another: p_dns_cached_resolve, p_recursive_query,    *)
(* auth_ok, r_dns_cached_resolve; here their frames are on a stack.        *)
(*                                                                         *)
(* One server's answer at a time is what p_recursive_query deals with, in  *)
(* any order (PdnsdQuery models it in detail), so lists of servers are     *)
(* functions from <<section, address>> here.  The servers of the world     *)
(* answer as World says; the cache is what one thread sees of it: records  *)
(* age and go at any time (PdnsdCache models it in detail).                *)
(***************************************************************************)
EXTENDS Naturals, Sequences, FiniteSets, SequencesExt

CONSTANTS Names,        \* all names; the owner of records
          Configured,   \* sequence of server sections: [addr, root, allows, nocache, nopurge]
          World,        \* World[a][n]: the replies server a may give for n
          Queries,      \* what is asked for: <<name, type>>
          Local,        \* of some names: the entry the configuration defines
          Above,        \* of a name: the domain a root server's NS records are for
          MAX_HOPS,
          LndownKluge,  \* global.lndown_kluge
          MaxQueries, MaxEvents,  \* bounds: queries; records aged and servers going up or down
          None

NoSets == [t \in {"A", "MX", "NS"} |-> None]

\* A cache entry; a negative one has no records.
IsEntry(e) ==
  /\ e = [local |-> e.local, negative |-> e.negative, fresh |-> e.fresh, sets |-> e.sets]
  /\ e.negative => e.sets = NoSets

ASSUME ResolveAssumption ==
  /\ MAX_HOPS \in Nat /\ MaxQueries \in Nat /\ MaxEvents \in Nat
  /\ \A x \in Queries : x[1] \in Names
  /\ DOMAIN Local \subseteq Names
  /\ \A n \in DOMAIN Local : Local[n] # None /\ IsEntry(Local[n]) /\ Local[n].local
  /\ \A a \in DOMAIN World : \A n \in Names : \A r \in World[a][n] :
       /\ r.kind = "refer" => r.ns \in Seq(Names \X Names)
       /\ r.kind = "error" => r.rc # "OK"

VARIABLES
  stack,   \* the frames, the innermost last
  ret,     \* what the frame last left returned: [rc, ent], or None
  cache,   \* of a name: None or [local, negative, fresh, sets]
  up,      \* of a server section: is_up
  asked,   \* history: of the query, the servers asked: <<name, addr>>
  events,  \* counts what MaxEvents bounds
  queries  \* counts what MaxQueries bounds

vars == <<stack, ret, cache, up, asked, events, queries>>

Sections == 1..Len(Configured)

Init ==
  /\ stack = <<>> /\ ret = None /\ asked = {} /\ events = 0 /\ queries = 0
  /\ cache = [n \in Names |-> IF n \in DOMAIN Local THEN Local[n] ELSE None]
  /\ up = [k \in Sections |-> TRUE]

Top == stack[Len(stack)]

\* The frame of p_dns_cached_resolve and the functions it calls; q are the servers given,
\* chain tells that there are some: those of the frame below were asked for the same name
\* (qslist).  Without, the configured ones are asked.  qh are the names asked for further
\* out, serv the addresses auth_ok has found.
Frame(n, t, hops, q, chain, qh) ==
  [name |-> n, type |-> t, hops |-> hops, pc |-> "lookup", q |-> q, chain |-> chain, qh |-> qh,
   ns |-> <<>>, serv |-> {}, saved |-> None, rc |-> "SERVFAIL",
   stale |-> None, nocache |-> FALSE, nopurge |-> FALSE, refer |-> None]

Push(f, g) == stack' = Append(Append(Front(stack), f), g)
Keep(f)    == stack' = Append(Front(stack), f)

\* The frame returns.
Return(rc, e) == stack' = Front(stack) /\ ret' = [rc |-> rc, ent |-> e]

-----------------------------------------------------------------------------
(* The cache.                                                              *)

\* Mutant: local entries are replaced too.
AddedAlways(o, e) ==
  IF o = None \/ o.negative \/ e.negative THEN e
  ELSE [e EXCEPT !.sets = [t \in DOMAIN NoSets |-> IF @[t] = None THEN o.sets[t] ELSE @[t]]]

\* add_cache, as far as it matters here: what becomes of the entry o when e is added; what
\* is local stays.
Added(o, e) ==
  IF o # None /\ o.local THEN o
  ELSE IF o = None \/ o.negative \/ e.negative THEN e
  ELSE [e EXCEPT !.sets = [t \in DOMAIN NoSets |-> IF @[t] = None THEN o.sets[t] ELSE @[t]]]

Add(c, n, e) == [c EXCEPT ![n] = Added(@, e)]

Entry(t, data, root, nopurge) ==
  [local |-> FALSE, negative |-> FALSE, fresh |-> TRUE,
   sets |-> [NoSets EXCEPT ![t] = [data |-> data, fresh |-> TRUE, root |-> root,
                                  nopurge |-> nopurge]]]

Negative == [local |-> FALSE, negative |-> TRUE, fresh |-> TRUE, sets |-> NoSets]

Aged(e) == [e EXCEPT !.fresh = FALSE,
                     !.sets = [t \in DOMAIN NoSets |-> IF @[t] = None THEN None
                                                       ELSE [@[t] EXCEPT !.fresh = FALSE]]]

\* lookup_cache_status: a record that timed out, or an entry without the type, is to be
\* asked for again.
lookup_cache_status(n, t) ==
  LET e == cache[n]
      s == e.sets[t]
  IN  IF e = None THEN "NOTCACHED"
      ELSE IF e.local THEN IF e.negative THEN "NAMEERR" ELSE "OK"
      ELSE IF e.negative THEN IF e.fresh THEN "CACHED" ELSE "STALE"
      ELSE IF s # None /\ s.fresh THEN "CACHED" ELSE "STALE"

\* The addresses of an entry.
Addresses(e) == IF e = None \/ e.sets["A"] = None THEN {} ELSE e.sets["A"].data

\* An old record that is not to be purged is kept for the case of failure.
NoPurge(n, t) == cache[n] # None /\ cache[n].sets[t] # None /\ cache[n].sets[t].nopurge

\* lookup_ns: name servers root servers told of, if all their addresses are known.
lookup_ns(d) ==
  LET s     == IF cache[d] = None THEN None ELSE cache[d].sets["NS"]
      Known(n) == cache[n] # None /\ cache[n].sets["A"] # None /\ cache[n].sets["A"].fresh
  IN  IF s = None \/ ~ s.root \/ ~ s.fresh \/ \E n \in s.data : ~ Known(n) THEN {}
      ELSE UNION {cache[n].sets["A"].data : n \in s.data}

-----------------------------------------------------------------------------
(* Choosing servers.                                                       *)

\* add_qserv.
Serv(a, auth, nocache, nopurge) ==
  [addr |-> a, auth |-> auth, nocache |-> nocache, nopurge |-> nopurge, done |-> FALSE]

\* use_server: the name is allowed by the section's include and exclude lists and policy.
use_server(k, n) == n \in Configured[k].allows

\* p_dns_resolve: the sections, as far as they are up and allowed for the name; for a root
\* server the servers known for the domain above, if any.
ServersFor(n) ==
  LET known   == lookup_ns(Above[n])
      Instead(k) == Configured[k].root /\ known # {}
      Addrs(k) == IF ~ (up[k] /\ use_server(k, n)) THEN {}
                  ELSE IF Instead(k) THEN known ELSE {Configured[k].addr}
      Auth(k)  == IF Instead(k) THEN 2 ELSE IF Configured[k].root THEN 3 ELSE 1
  IN  [x \in UNION {{k} \X Addrs(k) : k \in Sections} |->
         Serv(x[2], Auth(x[1]), Configured[x[1]].nocache, Configured[x[1]].nopurge)]

AnyUp == \E k \in Sections : up[k]

\* The servers asked for this name by this frame or the ones its list came from.
Used ==
  LET n == Len(stack)
      In(k) == \A m \in (k + 1)..n : stack[m].chain
  IN  UNION {{stack[k].q[x].addr : x \in {y \in DOMAIN stack[k].q : stack[k].q[y].done}} :
             k \in {k \in 1..n : In(k)}}

\* Mutant: the servers that were asked are forgotten.
AddServersAny(f, addrs) == [f EXCEPT !.serv = @ \cup addrs]

\* auth_ok: an address is taken unless it was asked before.
AddServers(f, addrs) == [f EXCEPT !.serv = @ \cup (addrs \ Used)]

Found(f) == [x \in {0} \X f.serv |-> Serv(x[2], 2, FALSE, f.nopurge)]

\* Mutant: only the name in hand is looked at.
CycleShort(f, n) == f.name = n /\ f.type = "A"

\* auth_ok: the address of n is being looked for further out already.
Cycle(f, n) ==
  \/ f.name = n /\ f.type = "A"
  \/ <<n, "A">> \in f.qh

-----------------------------------------------------------------------------
(* The steps of the innermost frame.                                       *)

In(pc) == stack # <<>> /\ ret = None /\ Top.pc = pc

\* p_dns_cached_resolve up to the query.
p_dns_cached_resolve ==
  LET f   == Top
      rc  == lookup_cache_status(f.name, f.type)
      q   == ServersFor(f.name)
      g   == [f EXCEPT !.pc = "ask", !.stale = IF NoPurge(f.name, f.type) THEN cache[f.name] ELSE None,
                       !.q = IF f.chain THEN @ ELSE q]
  IN  /\ In("lookup")
      /\ IF rc = "OK" THEN Return("CACHED", cache[f.name])
         ELSE IF rc = "NAMEERR" THEN Return("NAMEERR", None)
         ELSE IF LndownKluge /\ ~ AnyUp THEN Return("SERVFAIL", None)
         ELSE IF rc = "CACHED" THEN Return("CACHED", cache[f.name])
         ELSE Keep(g) /\ UNCHANGED ret
      /\ UNCHANGED <<cache, up, asked, events, queries>>

\* What p_exec_query adds of a referral: the NS records and the addresses with them.
WithReferral(c, r, root) ==
  LET hosts(d) == {r.ns[k][2] : k \in {k \in DOMAIN r.ns : r.ns[k][1] = d}}
      addrs(h) == {g[2] : g \in {g \in r.glue : g[1] = h}}
      With(o, e, data) == IF data = {} THEN o ELSE Added(o, e)
  IN  [n \in Names |->
         With(With(c[n], Entry("NS", hosts(n), root, FALSE), hosts(n)),
              Entry("A", addrs(n), FALSE, FALSE), addrs(n))]

\* Mutant: the server is not marked.
NotDone(f, k) == [f EXCEPT !.nocache = f.q[k].nocache, !.nopurge = f.q[k].nopurge]

\* The state QS_DONE; and the server whose answer is in hand (qse).
Done(f, k) == [f EXCEPT !.q[k].done = TRUE, !.nocache = f.q[k].nocache,
                        !.nopurge = f.q[k].nopurge]

\* auth_ok: with no hops left, no more name servers are tried.
NameServers(f, r) == IF f.hops > 0 THEN r.ns ELSE <<>>

\* What the server at a may say to a question for n; where there is none, time runs out.
Replies(a, n) ==
  IF a \in DOMAIN World THEN World[a][n] ELSE {[kind |-> "error", rc |-> "SERVFAIL"]}

\* A server of the list answers, or does not.
Ask(k) ==
  LET f == Top
      s == f.q[k]
      g == Done(f, k)
  IN  /\ In("ask") /\ k \in DOMAIN f.q /\ ~ s.done
      /\ \E r \in Replies(s.addr, f.name) :
           \/ /\ r.kind = "answer" /\ UNCHANGED cache
              /\ Keep([g EXCEPT !.pc = "answered", !.refer = r])
           \/ r.kind = "nxdomain" /\ Keep([g EXCEPT !.pc = "nxdomain"]) /\ UNCHANGED cache
           \/ r.kind = "error" /\ Keep([g EXCEPT !.rc = r.rc]) /\ UNCHANGED cache
           \/ /\ r.kind = "refer" /\ cache' = WithReferral(cache, r, s.auth = 3)
              /\ Keep([g EXCEPT !.pc = "auth_ok", !.refer = r, !.serv = {},
                                !.ns = NameServers(f, r)])
      /\ asked' = asked \cup {<<f.name, s.addr>>}
      /\ UNCHANGED <<ret, up, events, queries>>

\* auth_ok, the next name server: its addresses are looked up, unless that is a cycle.
NextNS ==
  LET f == Top
      n == Head(f.ns)[2]
      g == [f EXCEPT !.ns = Tail(@)]
  IN  /\ In("auth_ok") /\ f.ns # <<>>
      /\ IF Cycle(f, n) THEN Keep(g)
         ELSE Push([f EXCEPT !.pc = "address"],
                   Frame(n, "A", f.hops - 1, <<>>, FALSE, f.qh \cup {<<f.name, f.type>>}))
      /\ UNCHANGED <<ret, cache, up, asked, events, queries>>

\* r_dns_cached_resolve returned the addresses, or not.
Address ==
  LET f == Top
      g == [f EXCEPT !.pc = "auth_ok", !.ns = Tail(@)]
  IN  /\ stack # <<>> /\ ret # None /\ f.pc = "address"
      /\ Keep(IF ret.rc \in {"OK", "CACHED", "STALE"} THEN AddServers(g, Addresses(ret.ent)) ELSE g)
      /\ ret' = None
      /\ UNCHANGED <<cache, up, asked, events, queries>>

\* auth_ok is through: the servers found are asked, or the answer is saved for the case
\* that nothing better comes.
AfterNS ==
  LET f == Top
  IN  /\ In("auth_ok") /\ f.ns = <<>>
      /\ IF f.serv # {}
         THEN Push([f EXCEPT !.pc = "authority"],
                   Frame(f.name, f.type, f.hops - 1, Found(f), TRUE, f.qh))
         ELSE Keep([f EXCEPT !.pc = "ask", !.saved =
                      IF @ = None THEN [nocache |-> f.nocache, nopurge |-> f.nopurge] ELSE @])
      /\ UNCHANGED <<ret, cache, up, asked, events, queries>>

\* The query of this frame is over: p_dns_resolve puts the answer into the cache, and
\* p_dns_cached_resolve falls back to an old record that is not to be purged.
Leave(f, rc, e) ==
  /\ cache' = IF rc = "OK" /\ ~ f.chain /\ ~ f.nocache THEN Add(cache, f.name, e) ELSE cache
  /\ IF rc = "SERVFAIL" /\ f.stale # None THEN Return("STALE", f.stale) ELSE Return(rc, e)

Answered ==
  LET f == Top
  IN  /\ In("answered")
      /\ Leave(f, "OK", Entry(f.type, f.refer.data, FALSE, f.nopurge))
      /\ UNCHANGED <<up, asked, events, queries>>

\* Cached as negative, or not, by policy.
Nxdomain ==
  /\ In("nxdomain") /\ (Leave(Top, "OK", Negative) \/ Leave(Top, "NAMEERR", None))
  /\ UNCHANGED <<up, asked, events, queries>>

\* No server is left: what was saved, or the last error.
Exhausted ==
  LET f == Top
  IN  /\ In("ask") /\ \A k \in DOMAIN f.q : f.q[k].done
      /\ IF f.saved = None THEN Leave(f, f.rc, None)
         ELSE Leave([f EXCEPT !.nocache = f.saved.nocache], "OK",
                    Entry(f.type, {}, FALSE, f.saved.nopurge))
      /\ UNCHANGED <<up, asked, events, queries>>

\* The servers found have answered; if they failed, the answer that named them is used
\* if it claimed authority or recursion.
Authority ==
  LET f == Top
  IN  /\ stack # <<>> /\ ret # None /\ f.pc = "authority"
      /\ IF ret.rc \in {"OK", "CACHED", "NAMEERR"} \/ ~ f.refer.claims
         THEN Leave(f, ret.rc, ret.ent)
         ELSE Leave(f, "OK", Entry(f.type, {}, FALSE, f.nopurge))
      /\ UNCHANGED <<up, asked, events, queries>>

Step ==
  \/ p_dns_cached_resolve \/ NextNS \/ Address \/ AfterNS \/ Answered \/ Nxdomain
  \/ Exhausted \/ Authority
  \/ stack # <<>> /\ \E k \in DOMAIN Top.q : Ask(k)

\* r_dns_cached_resolve, called to answer a query (from dns_answer.c).
Query(x) ==
  /\ stack = <<>> /\ queries < MaxQueries
  /\ queries' = queries + 1
  /\ stack' = <<Frame(x[1], x[2], MAX_HOPS, <<>>, FALSE, {})>>
  /\ ret' = None /\ asked' = {}
  /\ UNCHANGED <<cache, up, events>>

Event == events < MaxEvents /\ events' = events + 1

\* Records time out, and are purged if they may be.
Age(n) ==
  /\ Event /\ cache[n] # None /\ ~ cache[n].local
  /\ cache' = [cache EXCEPT ![n] =
       IF \E t \in DOMAIN NoSets : NoPurge(n, t) THEN Aged(@) ELSE None]
  /\ UNCHANGED <<stack, ret, up, asked, queries>>

\* The server status thread.
Flip(k) ==
  /\ Event /\ up' = [up EXCEPT ![k] = ~ @]
  /\ UNCHANGED <<stack, ret, cache, asked, queries>>

Next ==
  \/ Step
  \/ \E x \in Queries : Query(x)
  \/ \E n \in Names : Age(n)
  \/ \E k \in Sections : Flip(k)

Spec == Init /\ [][Next]_vars /\ WF_vars(Step)

-----------------------------------------------------------------------------
(* Properties.                                                             *)

\* Type correctness.
TypeOK ==
  /\ \A k \in DOMAIN stack : stack[k].name \in Names
  /\ up \in [Sections -> BOOLEAN] /\ DOMAIN cache = Names
  /\ \A n \in Names : cache[n] # None /\ cache[n].negative => cache[n].sets = NoSets

\* However referrals lead on, nothing is resolved with hops used up: each frame has one
\* hop less than the one that needs it.
HopsLeft ==
  \A k \in DOMAIN stack : stack[k].hops \in Nat /\ stack[k].hops = MAX_HOPS + 1 - k

\* A server that answered is not asked for the same name again by the queries its
\* answer led to, whichever names and aliases it is found by.
NotAskedTwice ==
  \A k, m \in DOMAIN stack :
    k < m /\ (\A i \in (k + 1)..m : stack[i].chain) =>
      \A x \in DOMAIN stack[k].q, y \in DOMAIN stack[m].q :
        stack[k].q[x].done => stack[k].q[x].addr # stack[m].q[y].addr

\* Looking for the address of a name server never comes back to itself, over whichever
\* servers that depend on one another.
NoCycle ==
  \A k, m \in DOMAIN stack :
    k < m /\ ~ stack[m].chain =>
      ~ (stack[k].name = stack[m].name /\ stack[k].type = "A" /\ stack[m].type = "A")

\* The recursion of p_dns_cached_resolve and auth_ok goes down, hop by hop, and never
\* round.
NoCircle == TypeOK /\ HopsLeft /\ NoCycle

\* What the configuration defines is neither asked for nor replaced by what servers tell
\* along with their answers.
LocalFirst ==
  /\ \A x \in asked : x[1] \notin DOMAIN Local
  /\ \A n \in DOMAIN Local : cache[n] = Local[n]

\* Every query ends, whatever the servers refer to.
QueryEnds == stack # <<>> ~> stack = <<>>
=============================================================================
