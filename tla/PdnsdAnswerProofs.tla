-------------------------- MODULE PdnsdAnswerProofs --------------------------
(***************************************************************************)
(* What pdnsd's answering threads and their replies keep to, for any       *)
(* messages, names, cache contents, limits and failures: every thread,     *)
(* buffer and socket is accounted for, a reply fits its client, has no     *)
(* record twice, claims no authority that is not there and conveys its     *)
(* code.                                                                   *)
(***************************************************************************)
EXTENDS PdnsdAnswer, FiniteSetTheorems, SequenceTheorems, TLAPS

-----------------------------------------------------------------------------
(* The inductive invariant: an answer in the making.                       *)

Question == [name : Names, type : Types \cup {"ALL", "MAILB"}, class : {"IN"}]

\* What is to be added: name servers and hosts have names, and authority records are of
\* the kind they are listed as.
Ext == {x \in Listing :
          /\ x.tp # "SOA" => x.rec.data \in Names
          /\ x.tp # "ADD" => x.rec.tp = x.tp}

Shape(c) ==
  c = [qs |-> c.qs, name |-> c.name, hops |-> c.hops, rd |-> c.rd, edns |-> c.edns,
       an |-> c.an, ns |-> c.ns, ar |-> c.ar, exts |-> c.exts, sva |-> c.sva,
       stage |-> c.stage, next |-> c.next, rrs |-> c.rrs, aa |-> c.aa, opt |-> c.opt,
       size |-> c.size, limit |-> c.limit]

Distinct(s) == \A j, k \in 1..Len(s) : j # k => Key(s[j]) # Key(s[k])
Apart(s, t) ==
  \A j \in 1..Len(s), k \in 1..Len(t) : Key(s[j]) = Key(t[k]) => s[j].tp = "SOA"

\* The sections are filled one after the other; the additional one as far as it fits.
Staged(c) ==
  /\ c.stage = "answer" => c.ns = <<>> /\ c.next = 1
  /\ c.stage # "answer" => c.qs = <<>>
  /\ c.stage # "additional" => c.ar = <<>> /\ c.opt = None /\ c.rrs = <<>>
  /\ c.stage = "additional" /\ (c.ar # <<>> \/ c.opt # None) => ~ Over(c.size, c.limit)
  /\ c.opt \in {None, 0}

\* What sva remembers of the records.
Remembered(c) ==
  /\ \A k \in 1..Len(c.an) : c.an[k].tp \in {"NS", "A"} => Key(c.an[k]) \in c.sva
  /\ \A k \in 1..Len(c.ns) : c.ns[k].tp \in {"NS", "SOA"} /\ Key(c.ns[k]) \in c.sva
  /\ \A k \in 1..Len(c.ar) : c.ar[k].tp = "A" /\ Key(c.ar[k]) \in c.sva
  /\ \A k \in 1..Len(c.rrs) : c.rrs[k].tp = "A"

Making(c) ==
  /\ Shape(c) /\ Composition(c) /\ c.qs \in Seq(Question) /\ c.exts \in Seq(Ext)
  /\ c.size >= 1 + Len(c.an) + Len(c.ns) + Len(c.ar)
  /\ Staged(c) /\ Remembered(c)
  /\ Distinct(c.ns) /\ Distinct(c.ar) /\ Apart(c.ns, c.an) /\ Apart(c.ar, c.an)
  /\ c.aa => \A k \in 1..Len(c.an) : c.an[k].local

-----------------------------------------------------------------------------
(* A reply.                                                                *)

ReplyShape(out) ==
  out = [qr |-> out.qr, aa |-> out.aa, tc |-> out.tc, rcode |-> out.rcode, opt |-> out.opt,
         size |-> out.size, limit |-> out.limit, code |-> out.code,
         recs |-> [an |-> out.recs.an, ns |-> out.recs.ns, ar |-> out.recs.ar]]

Full(out) == 1 + Len(out.recs.an) + Len(out.recs.ns) + Len(out.recs.ar)

\* The records are there once, authority is true and the code legible.
Truthful(out) ==
  /\ ReplyShape(out) /\ Answer(out)
  /\ Distinct(out.recs.ns \o out.recs.ar) /\ Apart(out.recs.ns \o out.recs.ar, out.recs.an)
  /\ out.aa => \A k \in 1..Len(out.recs.an) : out.recs.an[k].local
  /\ out.code >= 0 => out.rcode + 16 * (IF out.opt = None THEN 0 ELSE out.opt) = out.code
  /\ out.code \in Int

\* Before it is cut.
Ready(out) ==
  /\ Truthful(out)
  /\ ~ out.tc /\ Full(out) <= out.size
  /\ Over(out.size, out.limit) /\ out.rcode = RC_OK => out.recs.ar = <<>> /\ out.opt = None

\* On its way to the client.
Limited(out) ==
  /\ ~ Over(out.size, out.limit)
  /\ Over(Full(out), out.limit) => out.tc
  /\ out.tc /\ out.rcode = RC_OK => out.recs.ar = <<>> /\ out.opt = None

-----------------------------------------------------------------------------
(* The requests and the threads.                                           *)

Working == {"length", "body", "part", "process", "compose", "reply", "sent"}
Active  == Working \cup {"new", "queued"}

\* What is allocated for a request.
Held(x) ==
  IF x.pc \notin Active THEN {}
  ELSE Buffers(x.proto)
       \cup (IF x.pc \in {"body", "part", "process", "compose"} /\ x.proto = "tcp" THEN {"buf"} ELSE {})
       \cup (IF x.pc \in {"reply", "sent"} THEN {"resp"} ELSE {})

RequestInv(x) ==
  /\ x = [pc |-> x.pc, proto |-> x.proto, held |-> x.held, c |-> x.c, out |-> x.out]
  /\ x.pc \in Active \cup {"none", "done"}
  /\ x.pc \in Active => x.proto \in Protos
  /\ x.pc \in {"length", "body", "part"} => x.proto = "tcp"
  /\ x.held = Held(x)
  /\ IF x.pc = "compose" THEN Making(x.c) ELSE x.c = None
  /\ x.pc = "reply" => Ready(x.out)
  /\ x.pc \in {"sent", "part"} => Truthful(x.out) /\ Limited(x.out)
  /\ x.pc \notin {"reply", "sent", "part"} => x.out = None

\* A server thread, with the request in its hands.
Serves(p) ==
  /\ server[p].pc \in {"wait", "create", "leave", "last", "off"}
  /\ server[p].pc = "create" =>
       server[p].r \in Requests /\ req[server[p].r].pc = "new" /\ req[server[p].r].proto = p
  /\ server[p].pc \in {"last", "off"} => ~ socket[p]

\* A request without a thread yet is in the hands of its server thread.
ServerInv ==
  /\ server = [p \in Protos |-> [pc |-> server[p].pc, r |-> server[p].r]]
  /\ \A p \in Protos : Serves(p)
  /\ \A r \in Requests :
       req[r].pc = "new" =>
         server[req[r].proto].pc = "create" /\ server[req[r].proto].r = r
  /\ (\A p \in Protos : server[p].pc = "off") => exiting

\* Requests come one after the other.
InOrder == \A r \in Requests : req[r].pc # "none" <=> r <= Arrived

Counted ==
  /\ procs \in Int /\ qprocs \in Nat /\ spawned \in Nat /\ dropped \in Nat
  /\ qprocs = With(Active) /\ qprocs <= proc_limit + procq_limit
  /\ ~ exiting => procs = With(Working) /\ procs <= proc_limit
  /\ spawned + dropped = Arrived /\ qprocs <= spawned

IInv ==
  /\ req = [r \in Requests |-> req[r]] /\ \A r \in Requests : RequestInv(req[r])
  /\ socket \in [Protos -> BOOLEAN] /\ exiting \in BOOLEAN /\ faults \in Nat
  /\ ServerInv /\ InOrder /\ Counted

-----------------------------------------------------------------------------
(* The records of an entry.                                                *)

LEMMA RecordsOf ==
  ASSUME NEW n \in Names, NEW e, IsEntry(e), NEW t \in Types, NEW rs, rs = Records(n, e, t)
  PROVE  /\ rs \in Seq(Record) /\ Distinct(rs)
         /\ \A k \in 1..Len(rs) : rs[k].nm = n /\ rs[k].tp = t /\ rs[k].local = e.local
         /\ t \in {"CNAME", "NS", "MB"} => \A k \in 1..Len(rs) : rs[k].data \in Names
<1> DEFINE V == IF t \in {"CNAME", "NS", "MB"} THEN Names ELSE Values
<1>1. /\ e.sets[t] \in Seq(V) /\ e.local \in BOOLEAN
      /\ \A j, k \in 1..Len(e.sets[t]) : j # k => e.sets[t][j] # e.sets[t][k]
  BY DEF IsEntry
<1>2. V \subseteq Values /\ (t \in {"CNAME", "NS", "MB"} => V = Names)
  BY AnswerAssumption
<1> HIDE DEF V
<1>3. PICK s : s = e.sets[t]
  OBVIOUS
<1>4. s \in Seq(V) /\ Len(s) \in Nat /\ \A k \in 1..Len(s) : s[k] \in V
  BY <1>1, <1>3
<1>5. rs = [k \in 1..Len(s) |-> [nm |-> n, tp |-> t, data |-> s[k], local |-> e.local]]
  BY <1>3 DEF Records
<1>6. \A k \in 1..Len(s) :
        [nm |-> n, tp |-> t, data |-> s[k], local |-> e.local] \in Record
  BY <1>1, <1>2, <1>4 DEF Record
<1>7. rs \in Seq(Record) /\ Len(rs) = Len(s)
  BY <1>4, <1>5, <1>6
<1>8. \A k \in 1..Len(rs) :
        rs[k].nm = n /\ rs[k].tp = t /\ rs[k].data = s[k] /\ rs[k].local = e.local
  BY <1>5, <1>7
<1>9. Distinct(rs)
  BY <1>1, <1>3, <1>7, <1>8 DEF Distinct, Key
<1> QED  BY <1>2, <1>4, <1>7, <1>8, <1>9

\* Listed for the authority section, or for their addresses.
LEMMA ExtsOf ==
  ASSUME NEW rs \in Seq(Record), NEW tp \in {"ADD", "NS", "SOA"}, NEW xs, xs = Exts(rs, tp),
         tp # "SOA" => \A k \in 1..Len(rs) : rs[k].data \in Names,
         tp # "ADD" => \A k \in 1..Len(rs) : rs[k].tp = tp
  PROVE  xs \in Seq(Ext)
<1>1. xs = [k \in 1..Len(rs) |-> [tp |-> tp, rec |-> rs[k]]] /\ Len(rs) \in Nat
  BY DEF Exts
<1>2. \A k \in 1..Len(rs) : [tp |-> tp, rec |-> rs[k]] \in Ext
  BY DEF Ext, Listing
<1> QED  BY <1>1, <1>2

LEMMA Wider ==
  ASSUME NEW S, NEW T, S \subseteq T, NEW s \in Seq(S)
  PROVE  s \in Seq(T)
  OBVIOUS

\* Sequences one after the other.
LEMMA Joined ==
  ASSUME NEW S, NEW s \in Seq(S), NEW u \in Seq(S)
  PROVE  /\ s \o u \in Seq(S) /\ Len(s \o u) = Len(s) + Len(u)
         /\ Len(s) \in Nat /\ Len(u) \in Nat
         /\ \A k \in 1..Len(s) : (s \o u)[k] = s[k]
         /\ \A k \in 1..Len(u) : (s \o u)[Len(s) + k] = u[k]
         /\ \A k \in 1..Len(s \o u) :
              \/ k \in 1..Len(s) /\ (s \o u)[k] = s[k]
              \/ k - Len(s) \in 1..Len(u) /\ (s \o u)[k] = u[k - Len(s)]
  OBVIOUS

-----------------------------------------------------------------------------
(* The answer section.                                                     *)

\* What the sections before the answer section hold while it is filled.
Answering(c, d) ==
  /\ Making(d) /\ d.stage = "answer" /\ d.qs = c.qs /\ d.name = c.name /\ d.hops = c.hops
  /\ d.aa = c.aa /\ d.rd = c.rd

LEMMA AddsSet ==
  ASSUME NEW c, Making(c), c.stage = "answer", NEW e, IsEntry(e), c.aa => e.local,
         NEW t \in Types, NEW d, d = add_rrset(c, e, t)
  PROVE  Answering(c, d)
<1>1. PICK rs : rs = Records(c.name, e, t)
  OBVIOUS
<1>2. c.name \in Names /\ Composition(c) /\ c.exts \in Seq(Ext)
  BY DEF Making, Composition
<1>3. /\ rs \in Seq(Record) /\ Len(rs) \in Nat
      /\ \A k \in 1..Len(rs) : rs[k].nm = c.name /\ rs[k].tp = t /\ rs[k].local = e.local
      /\ t \in {"CNAME", "NS", "MB"} => \A k \in 1..Len(rs) : rs[k].data \in Names
  BY <1>1, <1>2, RecordsOf
<1>4. PICK xs : xs = IF t \in {"NS", "MB"} THEN Exts(rs, "ADD") ELSE <<>>
  OBVIOUS
<1>5. xs \in Seq(Ext)
  BY <1>3, <1>4, ExtsOf
<1>6. PICK M : M = {k \in Keys(rs) : "an" = "an" => k[2] \in {"NS", "A", "AAAA"}}
  OBVIOUS
<1>7. PICK an : an = c.an \o rs
  OBVIOUS
<1>8. PICK exts : exts = c.exts \o xs
  OBVIOUS
<1>9. PICK y : y = Mark(AddAll(c, "an", rs), "an", rs)
  OBVIOUS
<1>24. d = [y EXCEPT !.exts = y.exts \o xs]
  BY SMTT(20), <1>1, <1>4, <1>9 DEF add_rrset
<1>25. PICK x : x = AddAll(c, "an", rs)
  OBVIOUS
<1>26. y = [x EXCEPT !.sva = x.sva \cup M]
  BY <1>6, <1>9, <1>25 DEF Mark
<1>27. x = [c EXCEPT !.an = an, !.size = c.size + Len(rs)]
  BY <1>7, <1>25 DEF AddAll
<1>28. c = [qs |-> c.qs, name |-> c.name, hops |-> c.hops, rd |-> c.rd, edns |-> c.edns,
       an |-> c.an, ns |-> c.ns, ar |-> c.ar, exts |-> c.exts, sva |-> c.sva,
       stage |-> c.stage, next |-> c.next, rrs |-> c.rrs, aa |-> c.aa, opt |-> c.opt,
       size |-> c.size, limit |-> c.limit]
  BY DEF Making, Shape
<1>10. d = [qs |-> c.qs, name |-> c.name, hops |-> c.hops, rd |-> c.rd, edns |-> c.edns,
            an |-> an, ns |-> c.ns, ar |-> c.ar, exts |-> exts, sva |-> c.sva \cup M,
            stage |-> c.stage, next |-> c.next, rrs |-> c.rrs, aa |-> c.aa, opt |-> c.opt,
            size |-> c.size + Len(rs), limit |-> c.limit]
  <2>1. x = [qs |-> c.qs, name |-> c.name, hops |-> c.hops, rd |-> c.rd, edns |-> c.edns,
            an |-> an, ns |-> c.ns, ar |-> c.ar, exts |-> c.exts, sva |-> c.sva,
            stage |-> c.stage, next |-> c.next, rrs |-> c.rrs, aa |-> c.aa, opt |-> c.opt,
            size |-> c.size + Len(rs), limit |-> c.limit]
    BY <1>27, <1>28
  <2>2. y = [x EXCEPT !.sva = c.sva \cup M]
    BY <1>26, <2>1
  <2>3. d = [y EXCEPT !.exts = exts]
    BY <1>8, <1>24, <2>1, <2>2
  <2> QED  BY ZenonT(40), <2>1, <2>2, <2>3
<1>30. /\ d.name = c.name /\ d.hops = c.hops /\ d.rd = c.rd /\ d.edns = c.edns /\ d.an = an
       /\ d.ns = c.ns /\ d.ar = c.ar /\ d.exts = exts /\ d.rrs = c.rrs /\ d.stage = c.stage
       /\ d.next = c.next /\ d.aa = c.aa /\ d.size = c.size + Len(rs) /\ d.limit = c.limit
  BY <1>10
<1>11. /\ an \in Seq(Record) /\ Len(an) = Len(c.an) + Len(rs)
       /\ \A k \in 1..Len(an) : \/ k \in 1..Len(c.an) /\ an[k] = c.an[k]
                                \/ k - Len(c.an) \in 1..Len(rs) /\ an[k] = rs[k - Len(c.an)]
  BY SMTT(20), <1>2, <1>3, <1>7, Joined DEF Composition
<1>12. exts \in Seq(Ext) /\ Len(exts) = Len(c.exts) + Len(xs) /\ Len(xs) \in Nat
  <2>1. PICK z : z = c.exts
    OBVIOUS
  <2>2. z \in Seq(Ext) /\ exts = z \o xs
    BY <1>2, <1>8, <2>1
  <2>3. exts \in Seq(Ext) /\ Len(exts) = Len(z) + Len(xs) /\ Len(xs) \in Nat
    BY <1>5, <2>2, Joined
  <2> QED  BY <2>1, <2>3
<1>13. Ext \subseteq Listing
  BY DEF Ext
<1>15. /\ c.ns = <<>> /\ c.ar = <<>> /\ c.next = 1 /\ c.rrs = <<>> /\ c.opt = None
       /\ c.stage = "answer"
  BY DEF Making, Staged
<1>14. Composition(d)
  <2>1. c.next \in 1..(Len(exts) + 1)
    BY <1>12, <1>15
  <2>2. c.size + Len(rs) \in Nat
    BY SMTT(20), <1>2, <1>3 DEF Composition
  <2>3. exts \in Seq(Listing)
    BY <1>12, <1>13, Wider
  <2> QED  BY <1>2, <1>30, <1>11, <2>1, <2>2, <2>3 DEF Composition
<1>16. \A k \in 1..Len(an) : an[k].tp \in {"NS", "A"} => Key(an[k]) \in c.sva \cup M
  <2>1. \A k \in 1..Len(rs) : rs[k].tp \in {"NS", "A"} => Key(rs[k]) \in M
    <3>1. \A k \in 1..Len(rs) : Key(rs[k]) \in Keys(rs) /\ Key(rs[k])[2] = rs[k].tp
      BY <1>3 DEF Keys, Key
    <3> QED  BY <1>6, <3>1
  <2> QED  BY <1>11, <2>1 DEF Making, Remembered
<1>17. c.aa => \A k \in 1..Len(an) : an[k].local
  BY <1>3, <1>11 DEF Making
<1>18. Shape(d) /\ d.qs \in Seq(Question) /\ d.exts \in Seq(Ext)
  BY <1>10, <1>12 DEF Shape, Making
<1>19. d.size >= 1 + Len(d.an) + Len(d.ns) + Len(d.ar)
  BY <1>2, <1>3, <1>10, <1>11, <1>15 DEF Making, Composition
<1>20. Staged(d) /\ Remembered(d)
  BY <1>10, <1>15, <1>16 DEF Staged, Remembered
<1>21. Distinct(d.ns) /\ Distinct(d.ar) /\ Apart(d.ns, d.an) /\ Apart(d.ar, d.an)
  BY <1>10, <1>15 DEF Distinct, Apart
<1>22. Making(d)
  BY <1>14, <1>17, <1>18, <1>19, <1>20, <1>21, <1>30 DEF Making
<1> QED  BY <1>10, <1>15, <1>22 DEF Answering

LEMMA AddsResponse ==
  ASSUME NEW c, Making(c), c.stage = "answer", NEW e, IsEntry(e), c.aa => e.local,
         NEW t \in Types \cup {"ALL", "MAILB"}, NEW d, d = add_to_response(c, t, e)
  PROVE  Answering(c, d)
<1>1. \A x : \A s \in Types : Answering(c, x) => Answering(c, add_rrset(x, e, s))
  <2>1. TAKE x
  <2>5. TAKE s \in Types
  <2>2. HAVE Answering(c, x)
  <2>3. PICK y : y = add_rrset(x, e, s)
    OBVIOUS
  <2>4. Answering(x, y)
    BY <2>2, <2>3, <2>5, AddsSet DEF Answering
  <2> QED  BY <2>2, <2>3, <2>4 DEF Answering
<1>2. Answering(c, c)
  BY DEF Answering
<1>3. {"A", "CNAME", "NS", "SOA", "MB"} = Types
  BY DEF Types
<1>4. PICK c1 : c1 = IF AliasFor(t, e) THEN add_rrset(c, e, "CNAME") ELSE c
  OBVIOUS
<1>5. Answering(c, c1)
  BY <1>1, <1>2, <1>3, <1>4
<1>6. CASE t = "MAILB"
  BY <1>1, <1>3, <1>4, <1>5, <1>6 DEF add_to_response
<1>7. CASE t = "ALL"
  <2>1. PICK d1 : d1 = add_rrset(c1, e, "A")
    OBVIOUS
  <2>2. PICK d2 : d2 = add_rrset(d1, e, "CNAME")
    OBVIOUS
  <2>3. PICK d3 : d3 = add_rrset(d2, e, "NS")
    OBVIOUS
  <2>4. PICK d4 : d4 = add_rrset(d3, e, "SOA")
    OBVIOUS
  <2>5. Answering(c, d1) /\ Answering(c, d2) /\ Answering(c, d3) /\ Answering(c, d4)
    BY <1>1, <1>3, <1>5, <2>1, <2>2, <2>3, <2>4
  <2>6. d = add_rrset(d4, e, "MB")
    BY <1>4, <1>7, <2>1, <2>2, <2>3, <2>4 DEF add_to_response
  <2> QED  BY <1>1, <1>3, <2>5, <2>6
<1>8. CASE t \in Types
  <2>1. t # "MAILB" /\ t # "ALL"
    BY <1>8 DEF Types
  <2>2. d = add_rrset(c1, e, t)
    BY <1>4, <2>1 DEF add_to_response
  <2> QED  BY <1>1, <1>5, <1>8, <2>2
<1> QED  BY <1>6, <1>7, <1>8

\* The records of an entry, listed for the authority section.
LEMMA Listings ==
  ASSUME NEW n \in Names, NEW x, IsEntry(x), NEW tp \in {"NS", "SOA"}, NEW l, l = Listed(n, x, tp)
  PROVE  l \in Seq(Ext)
<1>1. tp \in Types
  BY DEF Types
<1>2. PICK rs : rs = Records(n, x, tp)
  OBVIOUS
<1>3. /\ rs \in Seq(Record) /\ \A k \in 1..Len(rs) : rs[k].tp = tp
      /\ tp \in {"CNAME", "NS", "MB"} => \A k \in 1..Len(rs) : rs[k].data \in Names
  BY <1>1, <1>2, RecordsOf
<1>4. l = Exts(rs, tp)
  BY <1>2 DEF Listed
<1> QED  BY <1>3, <1>4, ExtsOf

LEMMA Authorities ==
  ASSUME NEW n \in Names, NEW e, IsEntry(e), NEW tp \in {"NS", "SOA"},
         NEW a \in AuthorityOf(n, e, tp)
  PROVE  a \in Seq(Ext)
<1>1. PICK d : d = IF e.above[tp] # None THEN e.above[tp] ELSE n
  OBVIOUS
<1>2. d \in Names
  BY <1>1 DEF IsEntry
<1>3. PICK own : own = LocalOwner[n]
  OBVIOUS
<1>4. own \in Names \cup {None}
  BY <1>3, AnswerAssumption
<1>5. PICK Zone : Zone = IF e.local /\ own # None
                         THEN {IF y = None THEN <<>> ELSE Listed(own, y, tp) : y \in Cached[own]}
                         ELSE {<<>>}
  OBVIOUS
<1>6. \A z \in Zone : z \in Seq(Ext)
  <2>1. TAKE z \in Zone
  <2>2. CASE z = <<>>
    BY <2>2
  <2>3. CASE z # <<>>
    <3>1. own \in Names
      BY <1>4, <1>5, <2>3
    <3>2. PICK y \in Cached[own] : y # None /\ z = Listed(own, y, tp)
      BY <1>5, <2>3
    <3>3. IsEntry(y)
      BY <3>1, <3>2, AnswerAssumption
    <3> QED  BY <3>1, <3>2, <3>3, Listings
  <2> QED  BY <2>2, <2>3
<1>7. CASE Has(e, tp)
  <2>1. a = Listed(n, e, tp)
    BY <1>7 DEF AuthorityOf
  <2> QED  BY <2>1, Listings
<1>8. CASE ~ Has(e, tp)
  <2>1. PICK x \in Cached[d] : a \in IF x # None /\ Has(x, tp) THEN {Listed(d, x, tp)} ELSE Zone
    BY <1>1, <1>3, <1>5, <1>8 DEF AuthorityOf
  <2>2. CASE x # None /\ Has(x, tp)
    <3>1. IsEntry(x)
      BY <1>2, <2>2, AnswerAssumption
    <3>2. a = Listed(d, x, tp)
      BY <2>1, <2>2
    <3> QED  BY <1>2, <3>1, <3>2, Listings
  <2>3. CASE ~ (x # None /\ Has(x, tp))
    BY <1>6, <2>1, <2>3
  <2> QED  BY <2>2, <2>3
<1> QED  BY <1>7, <1>8

\* The loops over aliases and questions.
LEMMA Asks ==
  ASSUME NEW c, Making(c), c.stage = "answer", NEW qs \in Seq(Question), NEW n \in Names,
         NEW h \in 0..MAX_HOPS
  PROVE  Making([c EXCEPT !.qs = qs, !.name = n, !.hops = h])
<1>10. PICK d : d = [c EXCEPT !.qs = qs, !.name = n, !.hops = h]
  OBVIOUS
<1>1. d = [qs |-> qs, name |-> n, hops |-> h, rd |-> c.rd, edns |-> c.edns,
           an |-> c.an, ns |-> c.ns, ar |-> c.ar, exts |-> c.exts, sva |-> c.sva,
           stage |-> c.stage, next |-> c.next, rrs |-> c.rrs, aa |-> c.aa, opt |-> c.opt,
           size |-> c.size, limit |-> c.limit]
  BY <1>10 DEF Making, Shape
<1>2. /\ d.qs = qs /\ d.name = n /\ d.hops = h /\ d.rd = c.rd /\ d.edns = c.edns /\ d.an = c.an
      /\ d.ns = c.ns /\ d.ar = c.ar /\ d.exts = c.exts /\ d.sva = c.sva /\ d.stage = c.stage
      /\ d.next = c.next /\ d.rrs = c.rrs /\ d.aa = c.aa /\ d.opt = c.opt /\ d.size = c.size
      /\ d.limit = c.limit
  BY <1>1
<1>3. Shape(d)
  BY <1>1 DEF Shape
<1>4. Composition(d)
  BY <1>2 DEF Making, Composition
<1>5. Staged(d) /\ Remembered(d)
  BY <1>2 DEF Making, Staged, Remembered
<1>6. Making(d)
  BY <1>2, <1>3, <1>4, <1>5 DEF Making
<1> QED  BY <1>6, <1>10

LEMMA AsksNext ==
  ASSUME NEW c, Making(c), c.stage = "answer", c.qs # <<>>, NEW d, d = NextQuestion(c)
  PROVE  Making(d)
<1>1. c.qs \in Seq(Question) /\ Composition(c)
  BY DEF Making
<1>2. PICK qs : qs = c.qs
  OBVIOUS
<1>3. qs \in Seq(Question) /\ qs # <<>> /\ Len(qs) \in Nat \ {0}
  BY <1>1, <1>2
<1>4. CASE Len(qs) = 1
  <2>1. d = [c EXCEPT !.qs = <<>>]
    BY <1>2, <1>4 DEF NextQuestion
  <2>2. d = [c EXCEPT !.qs = <<>>, !.name = c.name, !.hops = c.hops]
    BY <2>1 DEF Making, Shape
  <2>3. <<>> \in Seq(Question) /\ c.name \in Names /\ c.hops \in 0..MAX_HOPS
    BY <1>1 DEF Composition
  <2>4. Making([c EXCEPT !.qs = <<>>, !.name = c.name, !.hops = c.hops])
    BY <2>3, Asks
  <2> QED  BY <2>2, <2>4
<1>5. CASE Len(qs) # 1
  <2>1. qs[2] \in Question /\ Tail(qs) \in Seq(Question)
    <3>4. PICK l : l = Len(qs)
      OBVIOUS
    <3>5. l \in Nat \ {0, 1}
      BY <1>3, <1>5, <3>4
    <3>1. 2 \in 1..Len(qs)
      BY <3>4, <3>5
    <3>2. qs[2] \in Question
      BY <1>3, <3>1
    <3>3. Tail(qs) \in Seq(Question)
      BY <1>3, HeadTailProperties
    <3> QED  BY <3>2, <3>3
  <2>2. PICK n : n = qs[2].name
    OBVIOUS
  <2>3. n \in Names
    BY <2>1, <2>2 DEF Question
  <2>4. MAX_HOPS \in 0..MAX_HOPS
    BY AnswerAssumption
  <2>5. PICK u : u = Tail(qs)
    OBVIOUS
  <2>6. d = [c EXCEPT !.qs = u, !.name = n, !.hops = MAX_HOPS]
    BY <1>2, <1>5, <2>2, <2>5 DEF NextQuestion
  <2>7. Making([c EXCEPT !.qs = u, !.name = n, !.hops = MAX_HOPS])
    BY <2>1, <2>3, <2>4, <2>5, Asks
  <2> QED  BY <2>6, <2>7
<1> QED  BY <1>4, <1>5

LEMMA Follows ==
  ASSUME NEW c, Making(c), c.stage = "answer", c.qs # <<>>, NEW n \in Names, NEW d, d = Follow(c, n)
  PROVE  Making(d)
<1>1. CASE c.hops = 0
  BY <1>1, AsksNext DEF Follow
<1>2. CASE c.hops # 0
  <2>1. c.qs \in Seq(Question) /\ c.hops \in 0..MAX_HOPS /\ MAX_HOPS \in Nat
    BY AnswerAssumption DEF Making, Composition
  <2>2. PICK h : h = c.hops - 1
    OBVIOUS
  <2>3. h \in 0..MAX_HOPS
    BY <1>2, <2>1, <2>2
  <2>4. d = [c EXCEPT !.qs = c.qs, !.name = n, !.hops = h]
    BY <1>2, <2>2 DEF Follow, Making, Shape
  <2>5. Making([c EXCEPT !.qs = c.qs, !.name = n, !.hops = h])
    BY <2>1, <2>3, Asks
  <2> QED  BY <2>4, <2>5
<1> QED  BY <1>1, <1>2

LEMMA ListsMore ==
  ASSUME NEW c, Making(c), c.stage = "answer", NEW a \in Seq(Ext), NEW d, d = [c EXCEPT !.exts = @ \o a]
  PROVE  Answering(c, d)
<1>1. PICK exts : exts = c.exts \o a
  OBVIOUS
<1>2. d = [qs |-> c.qs, name |-> c.name, hops |-> c.hops, rd |-> c.rd, edns |-> c.edns,
           an |-> c.an, ns |-> c.ns, ar |-> c.ar, exts |-> exts, sva |-> c.sva,
           stage |-> c.stage, next |-> c.next, rrs |-> c.rrs, aa |-> c.aa, opt |-> c.opt,
           size |-> c.size, limit |-> c.limit]
  BY <1>1 DEF Making, Shape
<1>3. /\ d.qs = c.qs /\ d.name = c.name /\ d.hops = c.hops /\ d.rd = c.rd /\ d.edns = c.edns
      /\ d.an = c.an /\ d.ns = c.ns /\ d.ar = c.ar /\ d.exts = exts /\ d.sva = c.sva
      /\ d.stage = c.stage /\ d.next = c.next /\ d.rrs = c.rrs /\ d.aa = c.aa /\ d.opt = c.opt
      /\ d.size = c.size /\ d.limit = c.limit
  BY <1>2
<1>4. Shape(d)
  BY <1>2 DEF Shape
<1>5. exts \in Seq(Ext) /\ Len(exts) \in Nat
  <2>1. PICK z : z = c.exts
    OBVIOUS
  <2>2. z \in Seq(Ext) /\ exts = z \o a
    BY <1>1, <2>1 DEF Making
  <2> QED  BY <2>2, Joined
<1>6. exts \in Seq(Listing)
  BY <1>5, Wider DEF Ext
<1>7. Composition(d)
  <2>1. c.next \in 1..(Len(exts) + 1)
    BY <1>5 DEF Making, Staged
  <2> QED  BY <1>3, <1>6, <2>1 DEF Making, Composition
<1>8. Staged(d) /\ Remembered(d)
  BY <1>3 DEF Making, Staged, Remembered
<1>9. Making(d)
  BY <1>3, <1>4, <1>5, <1>7, <1>8 DEF Making
<1> QED  BY <1>3, <1>9 DEF Answering

LEMMA Claims ==
  ASSUME NEW c, Making(c), c.stage = "answer", NEW e, IsEntry(e), NEW d, d = Authoritative(c, e)
  PROVE  /\ Making(d) /\ d.stage = "answer" /\ d.qs = c.qs /\ d.name = c.name
         /\ d.hops = c.hops /\ d.rd = c.rd /\ (d.aa => e.local)
<1>1. PICK aa : aa = (c.aa /\ e.local)
  OBVIOUS
<1>2. aa \in BOOLEAN /\ (aa => c.aa) /\ (aa => e.local)
  BY <1>1 DEF IsEntry
<1>3. d = [c EXCEPT !.aa = aa]
  BY <1>1 DEF Authoritative
<1>4. d = [qs |-> c.qs, name |-> c.name, hops |-> c.hops, rd |-> c.rd, edns |-> c.edns,
           an |-> c.an, ns |-> c.ns, ar |-> c.ar, exts |-> c.exts, sva |-> c.sva,
           stage |-> c.stage, next |-> c.next, rrs |-> c.rrs, aa |-> aa, opt |-> c.opt,
           size |-> c.size, limit |-> c.limit]
  BY SMTT(20), <1>3 DEF Making, Shape
<1>5. /\ d.qs = c.qs /\ d.name = c.name /\ d.hops = c.hops /\ d.rd = c.rd /\ d.edns = c.edns
      /\ d.an = c.an /\ d.ns = c.ns /\ d.ar = c.ar /\ d.exts = c.exts /\ d.sva = c.sva
      /\ d.stage = c.stage /\ d.next = c.next /\ d.rrs = c.rrs /\ d.aa = aa /\ d.opt = c.opt
      /\ d.size = c.size /\ d.limit = c.limit
  BY <1>4
<1>6. Shape(d)
  BY <1>4 DEF Shape
<1>7. Composition(d)
  BY <1>2, <1>5 DEF Making, Composition
<1>8. Staged(d) /\ Remembered(d)
  BY <1>5 DEF Making, Staged, Remembered
<1>9. Making(d)
  BY <1>2, <1>5, <1>6, <1>7, <1>8 DEF Making
<1> QED  BY <1>2, <1>5, <1>9

\* A name resolved: its records, and the next name or question.
LEMMA Resolves ==
  ASSUME NEW c, Making(c), c.stage = "answer", c.qs # <<>>, NEW e, IsEntry(e),
         NEW d \in Resolved(c, e)
  PROVE  Making(d)
<1>1. PICK t : t = Head(c.qs).type
  OBVIOUS
<1>2. t \in Types \cup {"ALL", "MAILB"}
  <2>1. PICK qs : qs = c.qs
    OBVIOUS
  <2>2. qs \in Seq(Question) /\ qs # <<>>
    BY <2>1 DEF Making
  <2>3. Head(qs) \in Question
    BY <2>2
  <2> QED  BY <1>1, <2>1, <2>3 DEF Question
<1>3. PICK b : b = Authoritative(c, e)
  OBVIOUS
<1>4. /\ Making(b) /\ b.stage = "answer" /\ b.qs = c.qs /\ b.name = c.name /\ (b.aa => e.local)
  BY <1>3, Claims
<1>5. PICK c1 : c1 = add_to_response(b, t, e)
  OBVIOUS
<1>6. Making(c1) /\ c1.stage = "answer" /\ c1.qs = c.qs
  BY <1>2, <1>4, <1>5, AddsResponse DEF Answering
<1>7. CASE c.rd /\ AliasFor(t, e) /\ Has(e, "CNAME")
  <2>1. d = Follow(c1, e.sets["CNAME"][1])
    BY <1>1, <1>3, <1>5, <1>7 DEF Resolved
  <2>2. e.sets["CNAME"] \in Seq(Names) /\ e.sets["CNAME"] # <<>>
    BY <1>7 DEF Has, IsEntry, Types
  <2>3. e.sets["CNAME"][1] \in Names
    <3>1. PICK s : s = e.sets["CNAME"]
      OBVIOUS
    <3> QED  BY <2>2, <3>1
  <2> QED  BY <1>6, <2>1, <2>3, Follows
<1>8. CASE ~ (c.rd /\ AliasFor(t, e) /\ Has(e, "CNAME"))
  <2>1. PICK a \in AuthorityOf(c.name, e, Rretp(t, e)) : d = NextQuestion([c1 EXCEPT !.exts = @ \o a])
    BY <1>1, <1>3, <1>5, <1>8 DEF Resolved
  <2>2. c.name \in Names /\ Rretp(t, e) \in {"NS", "SOA"}
    BY DEF Making, Composition, Rretp
  <2>3. a \in Seq(Ext)
    BY <2>1, <2>2, Authorities
  <2>4. PICK c2 : c2 = [c1 EXCEPT !.exts = @ \o a]
    OBVIOUS
  <2>5. Making(c2) /\ c2.stage = "answer" /\ c2.qs # <<>>
    BY SMTT(20), <1>6, <2>3, <2>4, ListsMore DEF Answering
  <2> QED  BY <2>1, <2>4, <2>5, AsksNext
<1> QED  BY <1>7, <1>8

-----------------------------------------------------------------------------
(* Replies.                                                                *)

\* The authority and the additional section together.
LEMMA Sections ==
  ASSUME NEW an \in Seq(Record), NEW ns \in Seq(Record), NEW ar \in Seq(Record),
         Distinct(ns), Distinct(ar), Apart(ns, an), Apart(ar, an),
         \A k \in 1..Len(ns) : ns[k].tp \in {"NS", "SOA"}, \A k \in 1..Len(ar) : ar[k].tp = "A"
  PROVE  Distinct(ns \o ar) /\ Apart(ns \o ar, an)
<1>1. PICK m : m = ns \o ar
  OBVIOUS
<1>2. PICK l : l = Len(ns)
  OBVIOUS
<1>3. /\ l \in Nat /\ Len(ar) \in Nat /\ Len(m) \in Nat
      /\ \A k \in 1..Len(m) : \/ k \in 1..l /\ m[k] = ns[k]
                              \/ k - l \in 1..Len(ar) /\ m[k] = ar[k - l]
  BY <1>1, <1>2, Joined
<1>4. \A x, y : x.tp # y.tp => Key(x) # Key(y)
  BY DEF Key
<1>5. Distinct(m)
  <2>1. SUFFICES ASSUME NEW j \in 1..Len(m), NEW k \in 1..Len(m), j # k
                 PROVE  Key(m[j]) # Key(m[k])
    BY DEF Distinct
  <2>2. CASE j \in 1..l /\ m[j] = ns[j] /\ k \in 1..l /\ m[k] = ns[k]
    BY <1>2, <2>1, <2>2 DEF Distinct
  <2>3. CASE j - l \in 1..Len(ar) /\ m[j] = ar[j - l] /\ k - l \in 1..Len(ar) /\ m[k] = ar[k - l]
    <3>1. j - l # k - l
      BY <1>3, <2>1
    <3> QED  BY <2>3, <3>1 DEF Distinct
  <2>4. CASE j \in 1..l /\ m[j] = ns[j] /\ k - l \in 1..Len(ar) /\ m[k] = ar[k - l]
    <3>1. m[j].tp \in {"NS", "SOA"} /\ m[k].tp = "A"
      BY <1>2, <2>4
    <3> QED  BY <1>4, <3>1
  <2>5. CASE j - l \in 1..Len(ar) /\ m[j] = ar[j - l] /\ k \in 1..l /\ m[k] = ns[k]
    <3>1. m[k].tp \in {"NS", "SOA"} /\ m[j].tp = "A"
      BY <1>2, <2>5
    <3> QED  BY <1>4, <3>1
  <2> QED  BY <1>3, <2>2, <2>3, <2>4, <2>5
<1>6. Apart(m, an)
  <2>1. SUFFICES ASSUME NEW j \in 1..Len(m), NEW k \in 1..Len(an), Key(m[j]) = Key(an[k])
                 PROVE  m[j].tp = "SOA"
    BY DEF Apart
  <2>2. CASE j \in 1..l /\ m[j] = ns[j]
    BY <1>2, <2>1, <2>2 DEF Apart
  <2>3. CASE j - l \in 1..Len(ar) /\ m[j] = ar[j - l]
    BY <2>1, <2>3 DEF Apart
  <2> QED  BY <1>3, <2>2, <2>3
<1> QED  BY <1>1, <1>5, <1>6

\* The DNS codes fit the header.
LEMMA CodeOf ==
  ASSUME NEW rc \in -1..15
  PROVE  Code(rc) \in 0..15 /\ (rc >= 0 => Code(rc) = rc) /\ rc \in Int
<1>1. \A x \in Int : x % 16 \in 0..15 /\ x % 65536 \in Int
  OBVIOUS
<1>2. rc \in Int
  OBVIOUS
<1>3. Code(rc) \in 0..15
  BY <1>1, <1>2 DEF Code
<1>4. CASE rc >= 0
  <2>1. rc % 65536 = rc /\ rc % 16 = rc
    BY <1>4
  <2> QED  BY <1>2, <1>3, <2>1 DEF Code
<1> QED  BY <1>2, <1>3, <1>4

\* A reply of compose_answer.
LEMMA Composed ==
  ASSUME NEW c, NEW rc \in -1..15, NEW aa \in BOOLEAN, NEW out, out = Reply(c, rc, aa),
         c.an \in Seq(Record), c.ns \in Seq(Record), c.ar \in Seq(Record),
         c.opt \in {None, 0}, c.size \in Nat, c.limit \in Nat \cup {NoLimit},
         c.size >= 1 + Len(c.an) + Len(c.ns) + Len(c.ar),
         Distinct(c.ns \o c.ar), Apart(c.ns \o c.ar, c.an),
         aa => \A k \in 1..Len(c.an) : c.an[k].local,
         rc <= 0 /\ Over(c.size, c.limit) => c.ar = <<>> /\ c.opt = None
  PROVE  Ready(out)
<1>1. out = [qr |-> TRUE, aa |-> aa, tc |-> FALSE, rcode |-> Code(rc), opt |-> c.opt,
             size |-> c.size, limit |-> c.limit, code |-> rc,
             recs |-> [an |-> c.an, ns |-> c.ns, ar |-> c.ar]]
  BY DEF Reply
<1>2. /\ out.qr = TRUE /\ out.aa = aa /\ out.tc = FALSE /\ out.rcode = Code(rc)
      /\ out.opt = c.opt /\ out.size = c.size /\ out.limit = c.limit /\ out.code = rc
      /\ out.recs.an = c.an /\ out.recs.ns = c.ns /\ out.recs.ar = c.ar
  BY <1>1
<1>3. Code(rc) \in 0..15 /\ (rc >= 0 => Code(rc) = rc) /\ rc \in Int
  BY CodeOf
<1>4. ReplyShape(out)
  BY <1>1, <1>2 DEF ReplyShape
<1>5. Answer(out)
  <2>1. \A s \in {"an", "ns", "ar"} : out.recs[s] \in Seq(Record)
    BY <1>2
  <2> QED  BY <1>2, <1>3, <2>1 DEF Answer
<1>6. out.code >= 0 => out.rcode + 16 * (IF out.opt = None THEN 0 ELSE out.opt) = out.code
  BY <1>2, <1>3
<1>7. Truthful(out)
  <2>1. out.aa => \A k \in 1..Len(out.recs.an) : out.recs.an[k].local
    BY <1>2
  <2>2. Distinct(out.recs.ns \o out.recs.ar) /\ Apart(out.recs.ns \o out.recs.ar, out.recs.an)
    BY <1>2
  <2> QED  BY <1>2, <1>3, <1>4, <1>5, <1>6, <2>1, <2>2 DEF Truthful
<1>8. Full(out) <= out.size
  <2>1. Len(c.an) \in Nat /\ Len(c.ns) \in Nat /\ Len(c.ar) \in Nat
    OBVIOUS
  <2> QED  BY <1>2, <2>1 DEF Full
<1>9. Over(out.size, out.limit) /\ out.rcode = RC_OK => out.recs.ar = <<>> /\ out.opt = None
  <2>1. rc <= 0 \/ Code(rc) # 0
    BY <1>3
  <2> QED  BY <1>2, <2>1 DEF RC_OK
<1> QED  BY <1>2, <1>7, <1>8, <1>9 DEF Ready

\* mk_error_reply.
LEMMA ErrorReplyReady ==
  ASSUME NEW rc \in {RC_FORMAT, RC_SERVFAIL, RC_NOTSUPP, RC_BADVERS},
         NEW limit \in Nat \cup {NoLimit}, rc = RC_BADVERS => limit = NoLimit \/ limit >= 2,
         NEW out, out = ErrorReply(rc, limit)
  PROVE  Ready(out) /\ out.limit = limit
<1>1. PICK opt : opt = IF rc \div 16 # 0 THEN rc \div 16 ELSE None
  OBVIOUS
<1>2. PICK size : size = IF rc \div 16 # 0 THEN 2 ELSE 1
  OBVIOUS
<1>3. out = [qr |-> TRUE, aa |-> FALSE, tc |-> FALSE, rcode |-> Code(rc), opt |-> opt, size |-> size,
             limit |-> limit, code |-> rc, recs |-> [an |-> <<>>, ns |-> <<>>, ar |-> <<>>]]
  BY <1>1, <1>2 DEF ErrorReply, NoRecords
<1>4. /\ out.qr = TRUE /\ out.aa = FALSE /\ out.tc = FALSE /\ out.rcode = Code(rc)
      /\ out.opt = opt /\ out.size = size /\ out.limit = limit /\ out.code = rc
      /\ out.recs.an = <<>> /\ out.recs.ns = <<>> /\ out.recs.ar = <<>>
  BY <1>3
<1>5. rc \in {1, 2, 4, 16}
  BY DEF RC_FORMAT, RC_SERVFAIL, RC_NOTSUPP, RC_BADVERS
<1>6. /\ Code(rc) \in 0..15 /\ (rc < 16 => rc \div 16 = 0 /\ Code(rc) = rc)
      /\ (rc = 16 => rc \div 16 = 1 /\ Code(rc) = 0)
  BY <1>5 DEF Code
<1>7. size \in Nat /\ size >= 1 /\ None # 1
  BY <1>2, AnswerAssumption
<1>8. ReplyShape(out)
  BY <1>3, <1>4 DEF ReplyShape
<1>9. Answer(out)
  <2>2. <<>> \in Seq(Record)
    OBVIOUS
  <2>1. \A s \in {"an", "ns", "ar"} : out.recs[s] \in Seq(Record)
    BY <1>4, <2>2
  <2> QED  BY <1>4, <1>6, <1>7, <2>1 DEF Answer
<1>10. out.code >= 0 => out.rcode + 16 * (IF out.opt = None THEN 0 ELSE out.opt) = out.code
  BY <1>1, <1>4, <1>5, <1>6, <1>7
<1>11. Truthful(out)
  <2>1. out.recs.ns \o out.recs.ar = <<>>
    BY <1>4
  <2>2. Distinct(out.recs.ns \o out.recs.ar) /\ Apart(out.recs.ns \o out.recs.ar, out.recs.an)
    BY <2>1 DEF Distinct, Apart
  <2> QED  BY <1>4, <1>5, <1>8, <1>9, <1>10, <2>2 DEF Truthful
<1>12. Full(out) <= out.size
  BY <1>4, <1>7 DEF Full
<1>13. Over(out.size, out.limit) /\ out.rcode = RC_OK => out.recs.ar = <<>> /\ out.opt = None
  <2>1. CASE rc = 16
    <3>1. size = 2
      BY <1>2, <1>6, <2>1
    <3>2. ~ Over(2, limit)
      BY <2>1 DEF RC_BADVERS, Over, NoLimit
    <3> QED  BY <1>4, <3>1, <3>2
  <2>2. CASE rc # 16
    <3>1. rc \in {1, 2, 4} /\ Code(rc) = rc
      BY <1>5, <1>6, <2>2
    <3> QED  BY <1>4, <3>1 DEF RC_OK
  <2> QED  BY <2>1, <2>2
<1> QED  BY <1>4, <1>11, <1>12, <1>13 DEF Ready

-----------------------------------------------------------------------------
(* The authority and the additional section.                               *)

\* One more record, that neither the section old nor the answer an has: V has the keys.
Fresh(old, an, V, x) ==
  /\ old \in Seq(Record) /\ an \in Seq(Record) /\ x \in Record
  /\ Distinct(old) /\ Apart(old, an) /\ \A k \in 1..Len(old) : Key(old[k]) \in V
  /\ \A k \in 1..Len(an) : an[k].tp \in {"NS", "A"} => Key(an[k]) \in V
  /\ Key(x) \notin V /\ x.tp \in {"NS", "SOA", "A"}

Longer(old, an, x, u) ==
  /\ u \in Seq(Record) /\ Len(u) = Len(old) + 1 /\ Len(old) \in Nat
  /\ Distinct(u) /\ Apart(u, an)
  /\ \A k \in 1..Len(u) : \/ k \in 1..Len(old) /\ u[k] = old[k]
                          \/ k = Len(old) + 1 /\ u[k] = x

LEMMA OneMore ==
  ASSUME NEW old, NEW an, NEW V, NEW x, Fresh(old, an, V, x)
  PROVE  Longer(old, an, x, old \o <<x>>)
<1>10. PICK u : u = old \o <<x>>
  OBVIOUS
<1>11. /\ old \in Seq(Record) /\ an \in Seq(Record) /\ x \in Record
       /\ Distinct(old) /\ Apart(old, an) /\ \A k \in 1..Len(old) : Key(old[k]) \in V
       /\ \A k \in 1..Len(an) : an[k].tp \in {"NS", "A"} => Key(an[k]) \in V
       /\ Key(x) \notin V /\ x.tp \in {"NS", "SOA", "A"}
  BY DEF Fresh
<1>1. PICK l : l = Len(old)
  OBVIOUS
<1>2. PICK w : w = <<x>>
  OBVIOUS
<1>3. w \in Seq(Record) /\ Len(w) = 1 /\ w[1] = x
  BY <1>2, <1>11
<1>4. u \in Seq(Record) /\ Len(u) = l + 1 /\ l \in Nat
  BY <1>1, <1>2, <1>3, <1>10, <1>11, Joined
<1>5. \A k \in 1..Len(u) : \/ k \in 1..l /\ u[k] = old[k]
                           \/ k = l + 1 /\ u[k] = x
  <2>1. \A k \in 1..Len(u) : \/ k \in 1..l /\ u[k] = old[k]
                             \/ k - l \in 1..1 /\ u[k] = w[k - l]
    BY <1>1, <1>2, <1>3, <1>10, <1>11, Joined
  <2> QED  BY <1>3, <1>4, <2>1
<1>6. Distinct(u)
  <2>1. SUFFICES ASSUME NEW j \in 1..Len(u), NEW k \in 1..Len(u), j # k
                 PROVE  Key(u[j]) # Key(u[k])
    BY DEF Distinct
  <2>2. CASE j \in 1..l /\ u[j] = old[j] /\ k \in 1..l /\ u[k] = old[k]
    BY <1>1, <1>11, <2>1, <2>2 DEF Distinct
  <2>3. CASE j \in 1..l /\ u[j] = old[j] /\ u[k] = x
    BY <1>1, <1>11, <2>3
  <2>4. CASE u[j] = x /\ k \in 1..l /\ u[k] = old[k]
    BY <1>1, <1>11, <2>4
  <2>5. ~ (j = l + 1 /\ k = l + 1)
    BY <2>1
  <2> QED  BY <1>5, <2>2, <2>3, <2>4, <2>5
<1>7. Apart(u, an)
  <2>1. SUFFICES ASSUME NEW j \in 1..Len(u), NEW k \in 1..Len(an), Key(u[j]) = Key(an[k])
                 PROVE  u[j].tp = "SOA"
    BY DEF Apart
  <2>2. CASE j \in 1..l /\ u[j] = old[j]
    BY <1>1, <1>11, <2>1, <2>2 DEF Apart
  <2>3. CASE u[j] = x
    <3>1. an[k].tp = x.tp
      BY <2>1, <2>3 DEF Key
    <3>2. an[k].tp \notin {"NS", "A"}
      BY <1>11, <2>1, <2>3
    <3> QED  BY <1>11, <2>3, <3>1, <3>2
  <2> QED  BY <1>5, <2>2, <2>3
<1> QED  BY <1>1, <1>4, <1>5, <1>6, <1>7, <1>10 DEF Longer

\* What a step of these sections does not touch.
Adding(c, d) ==
  /\ Making(d) /\ d.stage = c.stage /\ d.qs = c.qs /\ d.exts = c.exts /\ d.next = c.next
  /\ d.rrs = c.rrs

\* A record that is marked and not added, for want of space.
LEMMA Marks ==
  ASSUME NEW c, Making(c), NEW V, NEW d, d = [c EXCEPT !.sva = c.sva \cup V]
  PROVE  Adding(c, d)
<1>1. d = [qs |-> c.qs, name |-> c.name, hops |-> c.hops, rd |-> c.rd, edns |-> c.edns,
           an |-> c.an, ns |-> c.ns, ar |-> c.ar, exts |-> c.exts, sva |-> c.sva \cup V,
           stage |-> c.stage, next |-> c.next, rrs |-> c.rrs, aa |-> c.aa, opt |-> c.opt,
           size |-> c.size, limit |-> c.limit]
  BY DEF Making, Shape
<1>2. /\ d.qs = c.qs /\ d.name = c.name /\ d.hops = c.hops /\ d.rd = c.rd /\ d.edns = c.edns
      /\ d.an = c.an /\ d.ns = c.ns /\ d.ar = c.ar /\ d.exts = c.exts /\ d.sva = c.sva \cup V
      /\ d.stage = c.stage /\ d.next = c.next /\ d.rrs = c.rrs /\ d.aa = c.aa /\ d.opt = c.opt
      /\ d.size = c.size /\ d.limit = c.limit
  BY <1>1
<1>3. Shape(d)
  BY <1>1 DEF Shape
<1>4. Composition(d)
  BY <1>2 DEF Making, Composition
<1>5. Staged(d) /\ Remembered(d)
  BY <1>2 DEF Making, Staged, Remembered
<1>6. Making(d)
  BY <1>2, <1>3, <1>4, <1>5 DEF Making
<1> QED  BY <1>2, <1>6 DEF Adding

LEMMA AddsAuthority ==
  ASSUME NEW c, Making(c), c.stage = "authority", NEW x \in Record, x.tp \in {"NS", "SOA"},
         NEW d, d = add_additional_rr(c, "ns", x)
  PROVE  Adding(c, d)
<1>1. CASE Key(x) \in c.sva
  BY <1>1 DEF add_additional_rr, Adding
<1>2. CASE Key(x) \notin c.sva
  <2>1. PICK y : y = AddAll(c, "ns", <<x>>)
    OBVIOUS
  <2>2. d = Mark(y, "ns", <<x>>)
    BY <1>2, <2>1 DEF add_additional_rr, add_rr
  <2>3. PICK ns : ns = c.ns \o <<x>>
    OBVIOUS
  <2>4. y = [c EXCEPT !.ns = ns, !.size = c.size + 1]
    <3>1. Len(<<x>>) = 1
      OBVIOUS
    <3> QED  BY <2>1, <2>3, <3>1 DEF AddAll
  <2>5. PICK M : M = {k \in Keys(<<x>>) : "ns" = "an" => k[2] \in {"NS", "A", "AAAA"}}
    OBVIOUS
  <2>6. M = {Key(x)}
    <3>1. Keys(<<x>>) = {Key(x)}
      BY DEF Keys
    <3> QED  BY <2>5, <3>1
  <2>7. d = [y EXCEPT !.sva = y.sva \cup M]
    BY <2>2, <2>5 DEF Mark
  <2>8. d = [qs |-> c.qs, name |-> c.name, hops |-> c.hops, rd |-> c.rd, edns |-> c.edns,
             an |-> c.an, ns |-> ns, ar |-> c.ar, exts |-> c.exts, sva |-> c.sva \cup M,
             stage |-> c.stage, next |-> c.next, rrs |-> c.rrs, aa |-> c.aa, opt |-> c.opt,
             size |-> c.size + 1, limit |-> c.limit]
    <3>1. y = [qs |-> c.qs, name |-> c.name, hops |-> c.hops, rd |-> c.rd, edns |-> c.edns,
               an |-> c.an, ns |-> ns, ar |-> c.ar, exts |-> c.exts, sva |-> c.sva,
               stage |-> c.stage, next |-> c.next, rrs |-> c.rrs, aa |-> c.aa, opt |-> c.opt,
               size |-> c.size + 1, limit |-> c.limit]
      BY <2>4 DEF Making, Shape
    <3> QED  BY <2>7, <3>1
  <2>9. /\ d.qs = c.qs /\ d.name = c.name /\ d.hops = c.hops /\ d.rd = c.rd /\ d.edns = c.edns
        /\ d.an = c.an /\ d.ns = ns /\ d.ar = c.ar /\ d.exts = c.exts /\ d.sva = c.sva \cup M
        /\ d.stage = c.stage /\ d.next = c.next /\ d.rrs = c.rrs /\ d.aa = c.aa /\ d.opt = c.opt
        /\ d.size = c.size + 1 /\ d.limit = c.limit
    BY <2>8
  <2>10. Shape(d)
    BY <2>8 DEF Shape
  <2>11. c.ns \in Seq(Record) /\ c.an \in Seq(Record) /\ c.ar \in Seq(Record) /\ c.size \in Nat
    BY DEF Making, Composition
  <2>12. /\ \A k \in 1..Len(c.an) : c.an[k].tp \in {"NS", "A"} => Key(c.an[k]) \in c.sva
         /\ \A k \in 1..Len(c.ns) : c.ns[k].tp \in {"NS", "SOA"} /\ Key(c.ns[k]) \in c.sva
         /\ Distinct(c.ns) /\ Apart(c.ns, c.an)
    BY DEF Making, Remembered
  <2>13. /\ ns \in Seq(Record) /\ Len(ns) = Len(c.ns) + 1 /\ Len(c.ns) \in Nat
         /\ Distinct(ns) /\ Apart(ns, c.an)
         /\ \A k \in 1..Len(ns) : \/ k \in 1..Len(c.ns) /\ ns[k] = c.ns[k]
                                  \/ k = Len(c.ns) + 1 /\ ns[k] = x
    <3>1. Fresh(c.ns, c.an, c.sva, x)
      BY <1>2, <2>11, <2>12 DEF Fresh
    <3>2. Longer(c.ns, c.an, x, ns)
      BY <2>3, <3>1, OneMore
    <3> QED  BY <3>2 DEF Longer
  <2>14. Composition(d)
    <3>1. c.size + 1 \in Nat
      BY <2>11
    <3> QED  BY <2>9, <2>13, <3>1 DEF Making, Composition
  <2>15. \A k \in 1..Len(ns) : ns[k].tp \in {"NS", "SOA"} /\ Key(ns[k]) \in c.sva \cup M
    BY <2>6, <2>12, <2>13
  <2>16. Staged(d) /\ Remembered(d)
    BY <2>9, <2>15 DEF Making, Staged, Remembered
  <2>17. d.size >= 1 + Len(d.an) + Len(d.ns) + Len(d.ar)
    <3>1. Len(c.an) \in Nat /\ Len(c.ar) \in Nat
      BY <2>11
    <3>2. c.size >= 1 + Len(c.an) + Len(c.ns) + Len(c.ar)
      BY DEF Making
    <3>3. c.size + 1 >= 1 + Len(c.an) + Len(ns) + Len(c.ar)
      <4>1. PICK a, b, e, f, g :
              a = Len(c.an) /\ b = Len(c.ns) /\ e = Len(c.ar) /\ f = c.size /\ g = Len(ns)
        OBVIOUS
      <4>2. a \in Nat /\ b \in Nat /\ e \in Nat /\ f \in Nat /\ g = b + 1
        BY <2>11, <2>13, <3>1, <4>1
      <4>3. f >= 1 + a + b + e
        BY <3>2, <4>1
      <4>4. f + 1 >= 1 + a + g + e
        BY <4>2, <4>3
      <4> QED  BY <4>1, <4>4
    <3> QED  BY <2>9, <3>3
  <2>18. Making(d)
    BY <2>9, <2>10, <2>13, <2>14, <2>16, <2>17 DEF Making
  <2> QED  BY <2>9, <2>18 DEF Adding
<1> QED  BY <1>1, <1>2

LEMMA AddsAddress ==
  ASSUME NEW c, Making(c), c.stage = "additional", NEW x \in Record, x.tp = "A",
         NEW d, d = add_additional_rr(c, "ar", x)
  PROVE  Adding(c, d)
<1>1. CASE Key(x) \in c.sva
  BY <1>1 DEF add_additional_rr, Adding
<1>3. CASE Key(x) \notin c.sva /\ Over(c.size + 1, c.limit)
  <2>1. d = Mark(c, "ar", <<x>>)
    BY <1>3 DEF add_additional_rr, add_rr
  <2>2. PICK M : M = {k \in Keys(<<x>>) : "ar" = "an" => k[2] \in {"NS", "A", "AAAA"}}
    OBVIOUS
  <2>3. d = [c EXCEPT !.sva = c.sva \cup M]
    BY <2>1, <2>2 DEF Mark
  <2> QED  BY <2>3, Marks
<1>2. CASE Key(x) \notin c.sva /\ ~ Over(c.size + 1, c.limit)
  <2>1. PICK y : y = AddAll(c, "ar", <<x>>)
    OBVIOUS
  <2>2. d = Mark(y, "ar", <<x>>)
    BY <1>2, <2>1 DEF add_additional_rr, add_rr
  <2>3. PICK ar : ar = c.ar \o <<x>>
    OBVIOUS
  <2>4. y = [c EXCEPT !.ar = ar, !.size = c.size + 1]
    <3>1. Len(<<x>>) = 1
      OBVIOUS
    <3> QED  BY <2>1, <2>3, <3>1 DEF AddAll
  <2>5. PICK M : M = {k \in Keys(<<x>>) : "ar" = "an" => k[2] \in {"NS", "A", "AAAA"}}
    OBVIOUS
  <2>6. M = {Key(x)}
    <3>1. Keys(<<x>>) = {Key(x)}
      BY DEF Keys
    <3> QED  BY <2>5, <3>1
  <2>7. d = [y EXCEPT !.sva = y.sva \cup M]
    BY <2>2, <2>5 DEF Mark
  <2>8. d = [qs |-> c.qs, name |-> c.name, hops |-> c.hops, rd |-> c.rd, edns |-> c.edns,
             an |-> c.an, ns |-> c.ns, ar |-> ar, exts |-> c.exts, sva |-> c.sva \cup M,
             stage |-> c.stage, next |-> c.next, rrs |-> c.rrs, aa |-> c.aa, opt |-> c.opt,
             size |-> c.size + 1, limit |-> c.limit]
    <3>1. y = [qs |-> c.qs, name |-> c.name, hops |-> c.hops, rd |-> c.rd, edns |-> c.edns,
               an |-> c.an, ns |-> c.ns, ar |-> ar, exts |-> c.exts, sva |-> c.sva,
               stage |-> c.stage, next |-> c.next, rrs |-> c.rrs, aa |-> c.aa, opt |-> c.opt,
               size |-> c.size + 1, limit |-> c.limit]
      BY <2>4 DEF Making, Shape
    <3> QED  BY <2>7, <3>1
  <2>9. /\ d.qs = c.qs /\ d.name = c.name /\ d.hops = c.hops /\ d.rd = c.rd /\ d.edns = c.edns
        /\ d.an = c.an /\ d.ns = c.ns /\ d.ar = ar /\ d.exts = c.exts /\ d.sva = c.sva \cup M
        /\ d.stage = c.stage /\ d.next = c.next /\ d.rrs = c.rrs /\ d.aa = c.aa /\ d.opt = c.opt
        /\ d.size = c.size + 1 /\ d.limit = c.limit
    BY <2>8
  <2>10. Shape(d)
    BY <2>8 DEF Shape
  <2>11. c.ns \in Seq(Record) /\ c.an \in Seq(Record) /\ c.ar \in Seq(Record) /\ c.size \in Nat
    BY DEF Making, Composition
  <2>12. /\ \A k \in 1..Len(c.an) : c.an[k].tp \in {"NS", "A"} => Key(c.an[k]) \in c.sva
         /\ \A k \in 1..Len(c.ar) : c.ar[k].tp = "A" /\ Key(c.ar[k]) \in c.sva
         /\ Distinct(c.ar) /\ Apart(c.ar, c.an)
    BY DEF Making, Remembered
  <2>13. /\ ar \in Seq(Record) /\ Len(ar) = Len(c.ar) + 1 /\ Len(c.ar) \in Nat
         /\ Distinct(ar) /\ Apart(ar, c.an)
         /\ \A k \in 1..Len(ar) : \/ k \in 1..Len(c.ar) /\ ar[k] = c.ar[k]
                                  \/ k = Len(c.ar) + 1 /\ ar[k] = x
    <3>1. Fresh(c.ar, c.an, c.sva, x)
      BY <1>2, <2>11, <2>12 DEF Fresh
    <3>2. Longer(c.ar, c.an, x, ar)
      BY <2>3, <3>1, OneMore
    <3> QED  BY <3>2 DEF Longer
  <2>14. Composition(d)
    <3>1. c.size + 1 \in Nat
      BY <2>11
    <3> QED  BY <2>9, <2>13, <3>1 DEF Making, Composition
  <2>15. \A k \in 1..Len(ar) : ar[k].tp = "A" /\ Key(ar[k]) \in c.sva \cup M
    BY <2>6, <2>12, <2>13
  <2>16. Staged(d) /\ Remembered(d)
    BY SMTT(20), <1>2, <2>9, <2>15 DEF Making, Staged, Remembered
  <2>17. d.size >= 1 + Len(d.an) + Len(d.ns) + Len(d.ar)
    <3>1. Len(c.an) \in Nat /\ Len(c.ns) \in Nat
      BY <2>11
    <3>2. c.size >= 1 + Len(c.an) + Len(c.ns) + Len(c.ar)
      BY DEF Making
    <3>3. c.size + 1 >= 1 + Len(c.an) + Len(c.ns) + Len(ar)
      <4>1. PICK a, b, e, f, g :
              a = Len(c.an) /\ b = Len(c.ns) /\ e = Len(c.ar) /\ f = c.size /\ g = Len(ar)
        OBVIOUS
      <4>2. a \in Nat /\ b \in Nat /\ e \in Nat /\ f \in Nat /\ g = e + 1
        BY <2>11, <2>13, <3>1, <4>1
      <4>3. f >= 1 + a + b + e
        BY <3>2, <4>1
      <4>4. f + 1 >= 1 + a + b + g
        BY <4>2, <4>3
      <4> QED  BY <4>1, <4>4
    <3> QED  BY <2>9, <3>3
  <2>18. Making(d)
    BY <2>9, <2>10, <2>13, <2>14, <2>16, <2>17 DEF Making
  <2> QED  BY <2>9, <2>18 DEF Adding
<1> QED  BY <1>1, <1>2, <1>3

\* The next of the list.
LEMMA GoesOn ==
  ASSUME NEW c, Making(c), c.stage # "answer", NEW n \in 1..(Len(c.exts) + 1)
  PROVE  Making([c EXCEPT !.next = n]) /\ [c EXCEPT !.next = n].stage = c.stage
<1>1. PICK d : d = [c EXCEPT !.next = n]
  OBVIOUS
<1>2. d = [qs |-> c.qs, name |-> c.name, hops |-> c.hops, rd |-> c.rd, edns |-> c.edns,
           an |-> c.an, ns |-> c.ns, ar |-> c.ar, exts |-> c.exts, sva |-> c.sva,
           stage |-> c.stage, next |-> n, rrs |-> c.rrs, aa |-> c.aa, opt |-> c.opt,
           size |-> c.size, limit |-> c.limit]
  BY <1>1 DEF Making, Shape
<1>3. /\ d.qs = c.qs /\ d.name = c.name /\ d.hops = c.hops /\ d.rd = c.rd /\ d.edns = c.edns
      /\ d.an = c.an /\ d.ns = c.ns /\ d.ar = c.ar /\ d.exts = c.exts /\ d.sva = c.sva
      /\ d.stage = c.stage /\ d.next = n /\ d.rrs = c.rrs /\ d.aa = c.aa /\ d.opt = c.opt
      /\ d.size = c.size /\ d.limit = c.limit
  BY <1>2
<1>4. Shape(d)
  BY <1>2 DEF Shape
<1>5. Composition(d)
  BY <1>3 DEF Making, Composition
<1>6. Staged(d) /\ Remembered(d)
  <2>1. c.stage \in {"authority", "additional"}
    BY DEF Making, Composition
  <2> QED  BY <1>3, <2>1 DEF Making, Staged, Remembered
<1>7. Making(d)
  BY <1>3, <1>4, <1>5, <1>6 DEF Making
<1> QED  BY <1>1, <1>3, <1>7

\* What is left of a host.
LEMMA HasLeft ==
  ASSUME NEW c, Making(c), c.stage = "additional", NEW rrs \in Seq(Record),
         \A k \in 1..Len(rrs) : rrs[k].tp = "A"
  PROVE  Making([c EXCEPT !.rrs = rrs]) /\ [c EXCEPT !.rrs = rrs].stage = c.stage
<1>1. PICK d : d = [c EXCEPT !.rrs = rrs]
  OBVIOUS
<1>2. d = [qs |-> c.qs, name |-> c.name, hops |-> c.hops, rd |-> c.rd, edns |-> c.edns,
           an |-> c.an, ns |-> c.ns, ar |-> c.ar, exts |-> c.exts, sva |-> c.sva,
           stage |-> c.stage, next |-> c.next, rrs |-> rrs, aa |-> c.aa, opt |-> c.opt,
           size |-> c.size, limit |-> c.limit]
  BY <1>1 DEF Making, Shape
<1>3. /\ d.qs = c.qs /\ d.name = c.name /\ d.hops = c.hops /\ d.rd = c.rd /\ d.edns = c.edns
      /\ d.an = c.an /\ d.ns = c.ns /\ d.ar = c.ar /\ d.exts = c.exts /\ d.sva = c.sva
      /\ d.stage = c.stage /\ d.next = c.next /\ d.rrs = rrs /\ d.aa = c.aa /\ d.opt = c.opt
      /\ d.size = c.size /\ d.limit = c.limit
  BY <1>2
<1>4. Shape(d)
  BY <1>2 DEF Shape
<1>5. Composition(d)
  BY <1>3 DEF Making, Composition
<1>6. Staged(d) /\ Remembered(d)
  <2>1. c.stage \in {"authority", "additional"}
    BY DEF Making, Composition
  <2> QED  BY <1>3, <2>1 DEF Making, Staged, Remembered
<1>7. Making(d)
  BY <1>3, <1>4, <1>5, <1>6 DEF Making
<1> QED  BY <1>1, <1>3, <1>7

\* The answer section is through.
LEMMA ToAuthority ==
  ASSUME NEW c, Making(c), c.stage = "answer", c.qs = <<>>, NEW d, d = [c EXCEPT !.stage = "authority"]
  PROVE  Making(d) /\ d.stage = "authority" /\ d.qs = <<>>
<1>1. d = [qs |-> c.qs, name |-> c.name, hops |-> c.hops, rd |-> c.rd, edns |-> c.edns,
           an |-> c.an, ns |-> c.ns, ar |-> c.ar, exts |-> c.exts, sva |-> c.sva,
           stage |-> "authority", next |-> c.next, rrs |-> c.rrs, aa |-> c.aa, opt |-> c.opt,
           size |-> c.size, limit |-> c.limit]
  BY DEF Making, Shape
<1>2. /\ d.qs = c.qs /\ d.name = c.name /\ d.hops = c.hops /\ d.rd = c.rd /\ d.edns = c.edns
      /\ d.an = c.an /\ d.ns = c.ns /\ d.ar = c.ar /\ d.exts = c.exts /\ d.sva = c.sva
      /\ d.stage = "authority" /\ d.next = c.next /\ d.rrs = c.rrs /\ d.aa = c.aa /\ d.opt = c.opt
      /\ d.size = c.size /\ d.limit = c.limit
  BY <1>1
<1>3. Shape(d)
  BY <1>1 DEF Shape
<1>4. Composition(d)
  BY <1>2 DEF Making, Composition
<1>5. Staged(d) /\ Remembered(d)
  BY <1>2 DEF Making, Staged, Remembered
<1>6. Making(d)
  BY <1>2, <1>3, <1>4, <1>5 DEF Making
<1> QED  BY <1>2, <1>6

\* So is the authority section.
LEMMA ToAdditional ==
  ASSUME NEW c, Making(c), c.stage = "authority", NEW d, d = StartAdditional(c)
  PROVE  Making(d) /\ d.stage = "additional" /\ d.qs = <<>>
<1>1. PICK n : n = IF OptFits(c) THEN 1 ELSE Len(c.exts) + 1
  OBVIOUS
<1>2. PICK opt : opt = IF OptFits(c) /\ c.edns THEN 0 ELSE None
  OBVIOUS
<1>3. PICK size : size = IF OptFits(c) /\ c.edns THEN c.size + 1 ELSE c.size
  OBVIOUS
<1>4. c.opt = None /\ c.qs = <<>> /\ c.rrs = <<>> /\ c.ar = <<>> /\ c.size \in Nat
  BY DEF Making, Staged, Composition
<1>5. d = [qs |-> c.qs, name |-> c.name, hops |-> c.hops, rd |-> c.rd, edns |-> c.edns,
           an |-> c.an, ns |-> c.ns, ar |-> c.ar, exts |-> c.exts, sva |-> c.sva,
           stage |-> "additional", next |-> n, rrs |-> c.rrs, aa |-> c.aa, opt |-> opt,
           size |-> size, limit |-> c.limit]
  <2>1. PICK b : b = [c EXCEPT !.stage = "additional", !.next = n]
    OBVIOUS
  <2>2. b = [qs |-> c.qs, name |-> c.name, hops |-> c.hops, rd |-> c.rd, edns |-> c.edns,
             an |-> c.an, ns |-> c.ns, ar |-> c.ar, exts |-> c.exts, sva |-> c.sva,
             stage |-> "additional", next |-> n, rrs |-> c.rrs, aa |-> c.aa, opt |-> c.opt,
             size |-> c.size, limit |-> c.limit]
    BY <2>1 DEF Making, Shape
  <2>3. CASE OptFits(c) /\ c.edns
    <3>1. d = add_opt_pseudo_rr(b, RC_OK)
      BY <1>1, <2>1, <2>3 DEF StartAdditional
    <3>2. d = [b EXCEPT !.opt = 0, !.size = b.size + 1]
      <4>1. RC_OK \div 16 = 0
        BY DEF RC_OK
      <4> QED  BY <3>1, <4>1 DEF add_opt_pseudo_rr
    <3>3. opt = 0 /\ size = c.size + 1
      BY <1>2, <1>3, <2>3
    <3> QED  BY ZenonT(40), <2>2, <3>2, <3>3
  <2>4. CASE ~ (OptFits(c) /\ c.edns)
    <3>1. d = b
      BY <1>1, <2>1, <2>4 DEF StartAdditional
    <3>2. opt = None /\ size = c.size
      BY <1>2, <1>3, <2>4
    <3> QED  BY <1>4, <2>2, <3>1, <3>2
  <2> QED  BY <2>3, <2>4
<1>6. /\ d.qs = c.qs /\ d.name = c.name /\ d.hops = c.hops /\ d.rd = c.rd /\ d.edns = c.edns
      /\ d.an = c.an /\ d.ns = c.ns /\ d.ar = c.ar /\ d.exts = c.exts /\ d.sva = c.sva
      /\ d.stage = "additional" /\ d.next = n /\ d.rrs = c.rrs /\ d.aa = c.aa /\ d.opt = opt
      /\ d.size = size /\ d.limit = c.limit
  BY <1>5
<1>7. Shape(d)
  BY <1>5 DEF Shape
<1>8. n \in 1..(Len(c.exts) + 1)
  <2>1. Len(c.exts) \in Nat
    BY DEF Making
  <2> QED  BY <1>1, <2>1
<1>9. size \in Nat /\ size >= c.size
  BY <1>3, <1>4
<1>10. Composition(d)
  BY <1>6, <1>8, <1>9 DEF Making, Composition
<1>11. opt \in {None, 0} /\ (opt # None => ~ Over(size, c.limit))
  BY <1>2, <1>3 DEF OptFits
<1>12. Staged(d) /\ Remembered(d)
  BY <1>4, <1>6, <1>11 DEF Making, Staged, Remembered
<1>13. d.size >= 1 + Len(d.an) + Len(d.ns) + Len(d.ar)
  <2>1. Len(c.an) \in Nat /\ Len(c.ar) \in Nat /\ Len(c.ns) \in Nat
    BY SMTT(20) DEF Making, Composition
  <2>2. c.size >= 1 + Len(c.an) + Len(c.ns) + Len(c.ar)
    BY DEF Making
  <2>4. c.size \in Nat
    BY DEF Making, Composition
  <2>3. size >= 1 + Len(c.an) + Len(c.ns) + Len(c.ar)
    <3>1. PICK a, b, e, f : a = Len(c.an) /\ b = Len(c.ns) /\ e = Len(c.ar) /\ f = c.size
      OBVIOUS
    <3>2. /\ a \in Nat /\ b \in Nat /\ e \in Nat /\ f \in Nat /\ f >= 1 + a + b + e
          /\ size \in Nat /\ size >= f
      BY <1>9, <2>1, <2>2, <2>4, <3>1
    <3>3. size >= 1 + a + b + e
      BY <3>2
    <3> QED  BY <3>1, <3>3
  <2> QED  BY <1>6, <2>3
<1>14. Making(d)
  BY <1>6, <1>7, <1>10, <1>12, <1>13 DEF Making
<1> QED  BY <1>4, <1>6, <1>14

\* The answer is complete.
LEMMA Completes ==
  ASSUME NEW c, Making(c), c.stage = "additional", NEW out, out = Reply(c, RC_OK, c.aa)
  PROVE  Ready(out)
<1>1. /\ c.an \in Seq(Record) /\ c.ns \in Seq(Record) /\ c.ar \in Seq(Record)
      /\ c.size \in Nat /\ c.limit \in Nat \cup {NoLimit} /\ c.aa \in BOOLEAN
  BY DEF Making, Composition
<1>2. /\ Distinct(c.ns) /\ Distinct(c.ar) /\ Apart(c.ns, c.an) /\ Apart(c.ar, c.an)
      /\ \A k \in 1..Len(c.ns) : c.ns[k].tp \in {"NS", "SOA"}
      /\ \A k \in 1..Len(c.ar) : c.ar[k].tp = "A"
  BY DEF Making, Remembered
<1>3. Distinct(c.ns \o c.ar) /\ Apart(c.ns \o c.ar, c.an)
  BY <1>1, <1>2, Sections
<1>4. /\ c.opt \in {None, 0}
      /\ Over(c.size, c.limit) => c.ar = <<>> /\ c.opt = None
  BY DEF Making, Staged
<1>5. /\ c.size >= 1 + Len(c.an) + Len(c.ns) + Len(c.ar)
      /\ c.aa => \A k \in 1..Len(c.an) : c.an[k].local
  BY DEF Making
<1>6. RC_OK \in -1..15
  BY DEF RC_OK
<1> QED  BY <1>1, <1>3, <1>4, <1>5, <1>6, Composed

\* A name that cannot be resolved, or a question that is not answered at all.
LEMMA FailsWith ==
  ASSUME NEW c, Making(c), c.stage = "answer", NEW rc \in -1..15, NEW out, out = Reply(c, rc, FALSE)
  PROVE  Ready(out)
<1>1. /\ c.an \in Seq(Record) /\ c.ns = <<>> /\ c.ar = <<>> /\ c.opt = None
      /\ c.size \in Nat /\ c.limit \in Nat \cup {NoLimit}
      /\ c.size >= 1 + Len(c.an) + Len(c.ns) + Len(c.ar)
  BY DEF Making, Composition, Staged
<1>2. Distinct(c.ns \o c.ar) /\ Apart(c.ns \o c.ar, c.an)
  <2>1. c.ns \o c.ar = <<>>
    BY <1>1
  <2> QED  BY <2>1 DEF Distinct, Apart
<1>3. <<>> \in Seq(Record)
  OBVIOUS
<1> QED  BY <1>1, <1>2, <1>3, Composed

\* With or without the SOA record of the zone.
Telling(c, y) ==
  /\ y.an = c.an /\ y.ns \in Seq(Record) /\ y.ar = <<>> /\ y.opt = None /\ y.edns = c.edns
  /\ y.size \in Nat /\ y.limit = c.limit /\ Shape(y)
  /\ y.size >= 1 + Len(y.an) + Len(y.ns) /\ Distinct(y.ns) /\ Apart(y.ns, y.an)

LEMMA ZoneTold ==
  ASSUME NEW c, Making(c), c.stage = "answer", NEW zone \in Names, NEW x, x = None \/ IsEntry(x)
  PROVE  Telling(c, c) /\ Telling(c, WithSoa(c, zone, x))
<1>10. PICK y : y = WithSoa(c, zone, x)
  OBVIOUS
<1>1. /\ c.an \in Seq(Record) /\ c.ns = <<>> /\ c.ar = <<>> /\ c.opt = None
      /\ c.size \in Nat /\ c.size >= 1 + Len(c.an) + Len(c.ns) + Len(c.ar) /\ Shape(c)
  BY DEF Making, Composition, Staged
<1>2. Telling(c, c)
  <2>1. Len(c.an) \in Nat /\ Len(<<>>) = 0 /\ <<>> \in Seq(Record)
    BY <1>1
  <2>2. Distinct(<<>>) /\ Apart(<<>>, c.an)
    BY DEF Distinct, Apart
  <2>3. c.size >= 1 + Len(c.an) + Len(c.ns)
    <3>1. Len(c.ns) = 0 /\ Len(c.ar) = 0 /\ c.size >= 1 + Len(c.an) + Len(c.ns) + Len(c.ar)
      BY <1>1, <2>1
    <3> QED  BY <1>1, <2>1, <3>1
  <2> QED  BY <1>1, <2>1, <2>2, <2>3 DEF Telling
<1>4. CASE x = None
  BY <1>2, <1>4, <1>10 DEF WithSoa
<1>3. CASE x # None
  <2>1. PICK rs : rs = Records(zone, x, "SOA")
    OBVIOUS
  <2>2. "SOA" \in Types
    BY DEF Types
  <2>3. rs \in Seq(Record) /\ Distinct(rs) /\ \A k \in 1..Len(rs) : rs[k].tp = "SOA"
    BY <1>3, <2>1, <2>2, RecordsOf
  <2>4. PICK ns : ns = c.ns \o rs
    OBVIOUS
  <2>5. ns = rs
    BY <1>1, <2>3, <2>4
  <2>6. y = [c EXCEPT !.ns = ns, !.size = c.size + Len(rs)]
    BY <1>3, <1>10, <2>1, <2>4 DEF WithSoa, AddAll
  <2>7. y = [qs |-> c.qs, name |-> c.name, hops |-> c.hops, rd |-> c.rd, edns |-> c.edns,
             an |-> c.an, ns |-> ns, ar |-> c.ar, exts |-> c.exts, sva |-> c.sva,
             stage |-> c.stage, next |-> c.next, rrs |-> c.rrs, aa |-> c.aa, opt |-> c.opt,
             size |-> c.size + Len(rs), limit |-> c.limit]
    BY <1>1, <2>6 DEF Shape
  <2>8. Shape(y)
    BY <2>7 DEF Shape
  <2>9. /\ y.an = c.an /\ y.ns = rs /\ y.ar = <<>> /\ y.opt = None /\ y.edns = c.edns
        /\ y.size = c.size + Len(rs) /\ y.limit = c.limit
    BY <1>1, <2>5, <2>7
  <2>10. Len(rs) \in Nat /\ Len(c.an) \in Nat /\ Len(<<>>) = 0
    BY <1>1, <2>3
  <2>11. c.size + Len(rs) \in Nat /\ c.size + Len(rs) >= 1 + Len(c.an) + Len(rs)
    <3>1. c.size \in Nat /\ c.size >= 1 + Len(c.an) + Len(c.ns) + Len(c.ar)
      BY <1>1
    <3>2. Len(c.ns) = 0 /\ Len(c.ar) = 0
      BY <1>1, <2>10
    <3> QED  BY <2>10, <3>1, <3>2
  <2>12. Apart(rs, c.an)
    BY <2>3 DEF Apart
  <2>13. Telling(c, y)
    BY <2>3, <2>8, <2>9, <2>11, <2>12 DEF Telling
  <2> QED  BY <1>2, <1>10, <2>13
<1> QED  BY <1>2, <1>3, <1>4, <1>10

LEMMA Fails ==
  ASSUME NEW c, Making(c), c.stage = "answer", NEW o, o.rc \in -1..15, o.soa \in Names \cup {None},
         NEW d \in Unresolved(c, o), NEW out, out = Reply(d, o.rc, FALSE)
  PROVE  Ready(out)
<1>1. CASE d = c
  BY <1>1, FailsWith
<1>2. CASE d # c
  <2>1. o.rc = 3
    BY <1>2 DEF Unresolved, RC_NAMEERR
  <2>2. PICK y : /\ d = WithOpt(y, 3)
                 /\ y = c \/ (o.soa # None /\ \E x \in Cached[o.soa] : y = WithSoa(c, o.soa, x))
    <3>1. CASE o.soa = None
      BY <1>2, <2>1, <3>1 DEF Unresolved, RC_NAMEERR
    <3>2. CASE o.soa # None
      <4>1. PICK x \in Cached[o.soa] : d = WithOpt(WithSoa(c, o.soa, x), 3)
        BY <1>2, <2>1, <3>2 DEF Unresolved, RC_NAMEERR
      <4> QED  BY <3>2, <4>1
    <3> QED  BY <3>1, <3>2
  <2>10. Telling(c, y)
    <3>1. CASE y = c
      <4>1. PICK n : n \in Names
        BY DEF Making, Composition
      <4> QED  BY <3>1, <4>1, ZoneTold
    <3>2. CASE y # c
      <4>1. PICK x \in Cached[o.soa] : y = WithSoa(c, o.soa, x)
        BY <2>2, <3>2
      <4>2. o.soa \in Names
        BY <2>2, <3>2
      <4>3. x = None \/ IsEntry(x)
        BY <4>1, <4>2, AnswerAssumption
      <4> QED  BY <4>1, <4>2, <4>3, ZoneTold
    <3> QED  BY <3>1, <3>2
  <2>3. /\ y.an = c.an /\ y.ns \in Seq(Record) /\ y.ar = <<>> /\ y.opt = None /\ y.edns = c.edns
        /\ y.size \in Nat /\ y.limit = c.limit /\ Shape(y)
        /\ y.size >= 1 + Len(y.an) + Len(y.ns) /\ Distinct(y.ns) /\ Apart(y.ns, y.an)
    BY <2>10 DEF Telling
  <2>4. /\ d.an = y.an /\ d.ns = y.ns /\ d.ar = <<>> /\ d.opt \in {None, 0} /\ d.limit = y.limit
        /\ d.size \in Nat /\ d.size >= y.size
    <3>1. CASE y.edns
      <4>1. d = [y EXCEPT !.opt = 0, !.size = y.size + 1]
        <5>1. 3 \div 16 = 0
          OBVIOUS
        <5> QED  BY <2>2, <3>1, <5>1 DEF WithOpt, add_opt_pseudo_rr
      <4>2. y.size + 1 \in Nat /\ y.size + 1 >= y.size
        BY <2>3
      <4>3. d = [qs |-> y.qs, name |-> y.name, hops |-> y.hops, rd |-> y.rd, edns |-> y.edns,
                 an |-> y.an, ns |-> y.ns, ar |-> y.ar, exts |-> y.exts, sva |-> y.sva,
                 stage |-> y.stage, next |-> y.next, rrs |-> y.rrs, aa |-> y.aa, opt |-> 0,
                 size |-> y.size + 1, limit |-> y.limit]
        BY <2>3, <4>1 DEF Shape
      <4>4. /\ d.an = y.an /\ d.ns = y.ns /\ d.ar = y.ar /\ d.opt = 0 /\ d.limit = y.limit
            /\ d.size = y.size + 1
        BY <4>3
      <4> QED  BY <2>3, <4>2, <4>4
    <3>2. CASE ~ y.edns
      <4>1. d = y
        BY <2>2, <3>2 DEF WithOpt
      <4> QED  BY <2>3, <4>1
    <3> QED  BY <3>1, <3>2
  <2>5. c.an \in Seq(Record) /\ c.limit \in Nat \cup {NoLimit} /\ <<>> \in Seq(Record)
    BY DEF Making, Composition
  <2>6. d.size >= 1 + Len(d.an) + Len(d.ns) + Len(d.ar)
    <3>1. Len(y.an) \in Nat /\ Len(y.ns) \in Nat /\ Len(<<>>) = 0
      BY <2>3, <2>5
    <3>2. PICK a, b, f, g : a = Len(y.an) /\ b = Len(y.ns) /\ f = y.size /\ g = d.size
      OBVIOUS
    <3>3. a \in Nat /\ b \in Nat /\ f \in Nat /\ g \in Nat /\ f >= 1 + a + b /\ g >= f
      BY <2>3, <2>4, <3>1, <3>2
    <3>4. g >= 1 + a + b + 0
      BY <3>3
    <3> QED  BY <2>4, <3>1, <3>2, <3>4
  <2>7. Distinct(d.ns \o d.ar) /\ Apart(d.ns \o d.ar, d.an)
    <3>1. d.ns \o d.ar = d.ns
      BY <2>3, <2>4
    <3> QED  BY <2>3, <2>4, <3>1
  <2>8. d.an \in Seq(Record) /\ d.ns \in Seq(Record) /\ d.ar \in Seq(Record)
        /\ d.limit \in Nat \cup {NoLimit} /\ d.size \in Nat /\ d.opt \in {None, 0}
    BY <2>3, <2>4, <2>5
  <2>9. o.rc \in -1..15 /\ ~ (o.rc <= 0)
    BY <2>1
  <2> QED  BY <2>6, <2>7, <2>8, <2>9, Composed
<1> QED  BY <1>1, <1>2

-----------------------------------------------------------------------------
(* The message.                                                            *)

LEMMA Examined ==
  ASSUME NEW m, IsMessage(m), NEW p, p = process_query(m)
  PROVE  \/ p.kind = "discard"
         \/ p.kind = "error" /\ p.rc \in {RC_FORMAT, RC_SERVFAIL, RC_NOTSUPP, RC_BADVERS}
         \/ p.kind = "compose" /\ p.ql = m.qs /\ p.ql # <<>>
<1>1. PICK d : d = decode_query(m)
  OBVIOUS
<1>2. /\ d.res \in {RC_OK, RC_TRUNC, RC_FORMAT, RC_SERVFAIL}
      /\ d.res \in {RC_OK, RC_TRUNC} => d.ql = m.qs
  <2>1. m.body \in {"ok", "cut", "bad", "memory"}
    BY DEF IsMessage
  <2>2. CASE m.body \in {"ok", "cut"}
    BY <1>1, <2>2 DEF decode_query
  <2>3. CASE m.body \in {"bad", "memory"}
    BY <1>1, <2>3 DEF decode_query, RC_OK, RC_TRUNC, RC_FORMAT, RC_SERVFAIL
  <2> QED  BY <2>1, <2>2, <2>3
<1>3. PICK a : a = AdditionalError(m, d.res)
  OBVIOUS
<1>4. a \in {RC_OK, RC_FORMAT, RC_BADVERS}
  BY <1>3 DEF AdditionalError, OptError
<1>5. PICK e : e = IF d.res = RC_TRUNC /\ (~ m.tc \/ d.ql = <<>>) THEN RC_FORMAT
                   ELSE IF d.res \notin {RC_OK, RC_TRUNC} THEN d.res ELSE a
  OBVIOUS
<1>6. /\ e \in {RC_OK, RC_FORMAT, RC_SERVFAIL, RC_BADVERS}
      /\ e = RC_OK => d.ql = m.qs
  <2>1. RC_FORMAT # RC_OK /\ RC_SERVFAIL # RC_OK
    BY DEF RC_OK, RC_FORMAT, RC_SERVFAIL
  <2> QED  BY <1>2, <1>4, <1>5, <2>1
<1>7. p = IF m.len = "tiny" THEN Discard
          ELSE IF m.len = "short" THEN Error(RC_FORMAT)
          ELSE IF m.qr THEN Discard
          ELSE IF m.opcode # "QUERY" THEN Error(RC_NOTSUPP)
          ELSE IF m.z THEN Error(RC_FORMAT)
          ELSE IF m.rcode # RC_OK THEN Discard
          ELSE IF m.counts THEN Error(RC_FORMAT)
          ELSE IF e # RC_OK THEN Error(e)
          ELSE IF d.ql = <<>> THEN Error(RC_FORMAT)
          ELSE [kind |-> "compose", ql |-> d.ql]
  BY <1>1, <1>3, <1>5 DEF process_query
<1>8. \/ p = Discard
      \/ \E c \in {RC_FORMAT, RC_SERVFAIL, RC_NOTSUPP, RC_BADVERS} : p = Error(c)
      \/ e = RC_OK /\ d.ql # <<>> /\ p = [kind |-> "compose", ql |-> d.ql]
  BY <1>6, <1>7
<1>9. CASE p = Discard
  BY <1>9 DEF Discard
<1>10. CASE \E c \in {RC_FORMAT, RC_SERVFAIL, RC_NOTSUPP, RC_BADVERS} : p = Error(c)
  BY <1>10 DEF Error
<1>11. CASE e = RC_OK /\ d.ql # <<>> /\ p = [kind |-> "compose", ql |-> d.ql]
  BY <1>6, <1>11
<1> QED  BY <1>8, <1>9, <1>10, <1>11

LEMMA Limits ==
  ASSUME NEW r, NEW m, IsMessage(m), NEW l, l = LimitFor(r, m)
  PROVE  l \in Nat \cup {NoLimit} /\ (l = NoLimit \/ l >= 2)
<1>1. UDP_BUFSIZE \in Nat \ {0, 1} /\ udpbufsize \in Nat /\ UDP_BUFSIZE <= udpbufsize
  BY AnswerAssumption
<1>2. m.opt # None => m.opt.udpsize \in Nat
  BY DEF IsMessage
<1>3. Limit(m) \in Nat /\ Limit(m) >= 2
  BY <1>1, <1>2 DEF Limit
<1> QED  BY <1>3 DEF LimitFor

LEMMA Starts ==
  ASSUME NEW m, IsMessage(m), m.qs # <<>>, NEW limit \in Nat \cup {NoLimit},
         NEW c, c = Start(m, m.qs, limit)
  PROVE  /\ Making([c EXCEPT !.qs = <<>>]) /\ c.stage = "answer"
         /\ (\A k \in DOMAIN m.qs : Supported(m.qs[k])) => Making(c)
<1>1. PICK ql : ql = m.qs
  OBVIOUS
<1>2. PICK Q : Q = [name : Names, type : Types \cup {"ALL", "MAILB", "AXFR"}, class : {"IN", "other"}]
  OBVIOUS
<1>3. ql \in Seq(Q) /\ ql # <<>> /\ m.rd \in BOOLEAN
  BY <1>1, <1>2 DEF IsMessage
<1>4. Head(ql) \in Q /\ Len(ql) \in Nat
  BY <1>3
<1>5. PICK n : n = Head(ql).name
  OBVIOUS
<1>6. n \in Names
  BY <1>2, <1>4, <1>5
<1>7. PICK edns : edns = (m.ar # "none" /\ m.opt # None)
  OBVIOUS
<1>8. edns \in BOOLEAN
  BY <1>7
<1>9. PICK size : size = 1 + Len(ql)
  OBVIOUS
<1>10. size \in Nat /\ size >= 1
  BY <1>4, <1>9
<1>11. MAX_HOPS \in 0..MAX_HOPS /\ MAX_HOPS \in Nat
  BY AnswerAssumption
<1>12. ASSUME NEW qs \in Seq(Question), NEW d,
              d = [qs |-> qs, name |-> n, hops |-> MAX_HOPS, rd |-> m.rd, edns |-> edns, an |-> <<>>,
                    ns |-> <<>>, ar |-> <<>>, exts |-> <<>>, sva |-> {}, stage |-> "answer", next |-> 1,
                    rrs |-> <<>>, aa |-> TRUE, opt |-> None, size |-> size, limit |-> limit]
       PROVE  Making(d)
  <2>1. d = [qs |-> qs, name |-> n, hops |-> MAX_HOPS, rd |-> m.rd, edns |-> edns, an |-> <<>>,
             ns |-> <<>>, ar |-> <<>>, exts |-> <<>>, sva |-> {}, stage |-> "answer", next |-> 1,
             rrs |-> <<>>, aa |-> TRUE, opt |-> None, size |-> size, limit |-> limit]
    BY <1>12
  <2>2. /\ d.qs = qs /\ d.name = n /\ d.hops = MAX_HOPS /\ d.rd = m.rd /\ d.edns = edns
        /\ d.an = <<>> /\ d.ns = <<>> /\ d.ar = <<>> /\ d.exts = <<>> /\ d.sva = {}
        /\ d.stage = "answer" /\ d.next = 1 /\ d.rrs = <<>> /\ d.aa = TRUE /\ d.opt = None
        /\ d.size = size /\ d.limit = limit
    BY <2>1
  <2>3. Shape(d)
    BY <2>1, <2>2 DEF Shape
  <2>4. /\ <<>> \in Seq(Record) /\ <<>> \in Seq(Listing) /\ <<>> \in Seq(Ext) /\ Len(<<>>) = 0
        /\ 1..Len(<<>>) = {}
    OBVIOUS
  <2>5. Composition(d)
    <3>1. 1 \in 1..(Len(<<>>) + 1)
      BY <2>4
    <3>2. /\ d.name \in Names /\ d.hops \in 0..MAX_HOPS /\ d.rd \in BOOLEAN /\ d.edns \in BOOLEAN
          /\ d.size \in Nat /\ d.limit \in Nat \cup {NoLimit}
      BY <1>3, <1>6, <1>8, <1>10, <1>11, <2>2
    <3>3. /\ d.an \in Seq(Record) /\ d.ns \in Seq(Record) /\ d.ar \in Seq(Record)
          /\ d.exts \in Seq(Listing) /\ d.rrs \in Seq(Record) /\ d.next \in 1..(Len(d.exts) + 1)
      BY <2>2, <2>4, <3>1
    <3>4. d.stage \in {"answer", "authority", "additional"} /\ d.aa \in BOOLEAN
      BY <2>2
    <3> QED  BY <3>2, <3>3, <3>4 DEF Composition
  <2>6. Staged(d) /\ Remembered(d)
    BY <2>2, <2>4 DEF Staged, Remembered
  <2>7. /\ Distinct(d.ns) /\ Distinct(d.ar) /\ Apart(d.ns, d.an) /\ Apart(d.ar, d.an)
        /\ \A k \in 1..Len(d.an) : d.an[k].local
    BY <2>2, <2>4 DEF Distinct, Apart
  <2>8. d.size >= 1 + Len(d.an) + Len(d.ns) + Len(d.ar)
    BY <1>10, <2>2, <2>4
  <2> QED  BY <2>2, <2>3, <2>4, <2>5, <2>6, <2>7, <2>8 DEF Making
<1>13. c.stage = "answer" /\ c.qs = ql
  BY <1>1 DEF Start
<1>14. Making([c EXCEPT !.qs = <<>>])
  <2>1. <<>> \in Seq(Question)
    OBVIOUS
  <2>2. PICK d : d = [c EXCEPT !.qs = <<>>]
    OBVIOUS
  <2>3. d = [qs |-> <<>>, name |-> n, hops |-> MAX_HOPS, rd |-> m.rd, edns |-> edns, an |-> <<>>,
             ns |-> <<>>, ar |-> <<>>, exts |-> <<>>, sva |-> {}, stage |-> "answer", next |-> 1,
             rrs |-> <<>>, aa |-> TRUE, opt |-> None, size |-> size, limit |-> limit]
    BY <1>1, <1>5, <1>7, <1>9, <2>2 DEF Start
  <2>4. Making(d)
    BY <1>12, <2>1, <2>3
  <2> QED  BY <2>2, <2>4
<1>15. ASSUME \A k \in DOMAIN m.qs : Supported(m.qs[k])
       PROVE  Making(c)
  <2>1. \A k \in 1..Len(ql) : ql[k] \in Question
    <3>1. TAKE k \in 1..Len(ql)
    <3>2. ql[k] \in Q
      BY <1>3
    <3>3. Supported(ql[k])
      BY <1>1, <1>3, <1>15
    <3> QED  BY <1>2, <3>2, <3>3 DEF Supported, Question
  <2>2. ql \in Seq(Question)
    BY <1>3, <2>1
  <2>3. c = [qs |-> ql, name |-> n, hops |-> MAX_HOPS, rd |-> m.rd, edns |-> edns, an |-> <<>>,
             ns |-> <<>>, ar |-> <<>>, exts |-> <<>>, sva |-> {}, stage |-> "answer", next |-> 1,
             rrs |-> <<>>, aa |-> TRUE, opt |-> None, size |-> size, limit |-> limit]
    BY <1>1, <1>5, <1>7, <1>9 DEF Start
  <2> QED  BY <1>12, <2>2, <2>3
<1> QED  BY <1>13, <1>14, <1>15

\* A message with a question that pdnsd does not answer.
LEMMA Refuses ==
  ASSUME NEW m, IsMessage(m), m.qs # <<>>, NEW limit \in Nat \cup {NoLimit},
         NEW out, out = Reply(Start(m, m.qs, limit), RC_NOTSUPP, FALSE)
  PROVE  Ready(out)
<1>1. PICK c : c = Start(m, m.qs, limit)
  OBVIOUS
<1>2. PICK d : d = [c EXCEPT !.qs = <<>>]
  OBVIOUS
<1>3. Making(d)
  BY <1>1, <1>2, Starts
<1>4. /\ d.stage = "answer" /\ d.an = c.an /\ d.ns = c.ns /\ d.ar = c.ar /\ d.opt = c.opt
      /\ d.size = c.size /\ d.limit = c.limit
  BY <1>1, <1>2 DEF Start
<1>5. out = Reply(d, RC_NOTSUPP, FALSE)
  BY <1>1, <1>4 DEF Reply
<1>6. RC_NOTSUPP \in -1..15
  BY DEF RC_NOTSUPP
<1> QED  BY <1>3, <1>4, <1>5, <1>6, FailsWith

LEMMA CutTo ==
  ASSUME NEW out, NEW l, NEW d, d = [out EXCEPT !.size = l, !.tc = TRUE],
         out = [qr |-> out.qr, aa |-> out.aa, tc |-> out.tc, rcode |-> out.rcode, opt |-> out.opt,
                size |-> out.size, limit |-> out.limit, code |-> out.code, recs |-> out.recs]
  PROVE  d = [qr |-> out.qr, aa |-> out.aa, tc |-> TRUE, rcode |-> out.rcode, opt |-> out.opt,
              size |-> l, limit |-> out.limit, code |-> out.code, recs |-> out.recs]
  OBVIOUS

\* What is sent.
LEMMA Cuts ==
  ASSUME NEW out, Ready(out), NEW d, d = Cut(out)
  PROVE  Truthful(d) /\ Limited(d)
<1>1. CASE Over(out.size, out.limit)
  <2>1. d = [out EXCEPT !.size = out.limit, !.tc = TRUE]
    BY <1>1 DEF Cut
  <2>2. d = [qr |-> out.qr, aa |-> out.aa, tc |-> TRUE, rcode |-> out.rcode, opt |-> out.opt,
             size |-> out.limit, limit |-> out.limit, code |-> out.code,
             recs |-> [an |-> out.recs.an, ns |-> out.recs.ns, ar |-> out.recs.ar]]
    <3>1. PICK recs : recs = [an |-> out.recs.an, ns |-> out.recs.ns, ar |-> out.recs.ar]
      OBVIOUS
    <3>2. out = [qr |-> out.qr, aa |-> out.aa, tc |-> out.tc, rcode |-> out.rcode, opt |-> out.opt,
                 size |-> out.size, limit |-> out.limit, code |-> out.code, recs |-> recs]
      BY <3>1 DEF Ready, Truthful, ReplyShape
    <3>3. out.recs = recs
      BY <3>2
    <3>4. d = [qr |-> out.qr, aa |-> out.aa, tc |-> TRUE, rcode |-> out.rcode, opt |-> out.opt,
               size |-> out.limit, limit |-> out.limit, code |-> out.code, recs |-> out.recs]
      BY <2>1, <3>2, <3>3, CutTo
    <3> QED  BY <3>1, <3>3, <3>4
  <2>3. /\ d.qr = out.qr /\ d.aa = out.aa /\ d.tc = TRUE /\ d.rcode = out.rcode /\ d.opt = out.opt
        /\ d.size = out.limit /\ d.limit = out.limit /\ d.code = out.code
        /\ d.recs.an = out.recs.an /\ d.recs.ns = out.recs.ns /\ d.recs.ar = out.recs.ar
    BY <2>2
  <2>4. ReplyShape(d)
    BY <2>2, <2>3 DEF ReplyShape
  <2>5. out.limit \in Nat /\ ~ Over(out.limit, out.limit)
    BY <1>1 DEF Ready, Truthful, Answer, Over
  <2>6. Answer(d)
    <3>1. \A s \in {"an", "ns", "ar"} : d.recs[s] = out.recs[s]
      BY <2>3
    <3> QED  BY <2>3, <2>5, <3>1 DEF Ready, Truthful, Answer
  <2>7. Truthful(d)
    BY <2>3, <2>4, <2>6 DEF Ready, Truthful
  <2>8. Limited(d)
    BY <1>1, <2>3, <2>5 DEF Ready, Limited
  <2> QED  BY <2>7, <2>8
<1>2. CASE ~ Over(out.size, out.limit)
  <2>1. d = out
    BY <1>2 DEF Cut
  <2>2. ~ Over(Full(out), out.limit)
    <3>1. out.size \in Nat /\ out.limit \in Nat \cup {NoLimit} /\ Full(out) <= out.size
      BY DEF Ready, Truthful, Answer
    <3>2. Full(out) \in Int
      <4>1. out.recs.an \in Seq(Record) /\ out.recs.ns \in Seq(Record) /\ out.recs.ar \in Seq(Record)
        BY DEF Ready, Truthful, Answer
      <4>2. Len(out.recs.an) \in Nat /\ Len(out.recs.ns) \in Nat /\ Len(out.recs.ar) \in Nat
        BY <4>1
      <4> QED  BY <4>2 DEF Full
    <3> QED  BY <1>2, <3>1, <3>2 DEF Over, NoLimit
  <2>3. ~ out.tc
    BY DEF Ready
  <2> QED  BY <1>2, <2>1, <2>2, <2>3 DEF Ready, Limited
<1> QED  BY <1>1, <1>2

-----------------------------------------------------------------------------
(* Requests and their number.                                              *)

LEMMA OneMoves ==
  ASSUME IInv, NEW r \in Requests, NEW g, req' = [req EXCEPT ![r] = g], RequestInv(g)
  PROVE  /\ req' = [u \in Requests |-> req'[u]] /\ \A u \in Requests : RequestInv(req'[u])
         /\ req'[r] = g /\ \A u \in Requests \ {r} : req'[u] = req[u]
<1>1. req = [u \in Requests |-> req[u]] /\ \A u \in Requests : RequestInv(req[u])
  BY DEF IInv
<1>2. req'[r] = g /\ \A u \in Requests \ {r} : req'[u] = req[u]
  BY <1>1
<1>3. req' = [u \in Requests |-> req'[u]]
  BY <1>1
<1> QED  BY <1>1, <1>2, <1>3

\* One request comes to or leaves a set of them.
LEMMA Moved ==
  ASSUME NEW A \in SUBSET Requests, NEW B \in SUBSET Requests, NEW t \in Requests,
         \A u \in Requests \ {t} : u \in B <=> u \in A
  PROVE  /\ Cardinality(A) \in Nat /\ Cardinality(B) \in Nat
         /\ Cardinality(B) = Cardinality(A) + (IF t \in B THEN 1 ELSE 0) - (IF t \in A THEN 1 ELSE 0)
         /\ t \in A => Cardinality(A) >= 1
<1>1. IsFiniteSet(Requests)
  BY AnswerAssumption, FS_Interval DEF Requests
<1>2. IsFiniteSet(A) /\ Cardinality(A) \in Nat /\ Cardinality(B) \in Nat
  BY <1>1, FS_Subset, FS_CardinalityType
<1>3. Cardinality(A \cup {t}) = IF t \in A THEN Cardinality(A) ELSE Cardinality(A) + 1
  BY <1>2, FS_AddElement
<1>4. /\ Cardinality(A \ {t}) = IF t \in A THEN Cardinality(A) - 1 ELSE Cardinality(A)
      /\ Cardinality(A \ {t}) \in Nat
  BY <1>2, FS_RemoveElement, FS_CardinalityType
<1>5. t \in A => Cardinality(A) >= 1
  BY <1>2, <1>4
<1>6. CASE t \in B
  <2>1. B = A \cup {t}
    BY <1>6
  <2> QED  BY <1>2, <1>3, <1>5, <1>6, <2>1
<1>7. CASE t \notin B
  <2>1. B = A \ {t}
    BY <1>7
  <2> QED  BY <1>2, <1>4, <1>5, <1>7, <2>1
<1> QED  BY <1>6, <1>7

LEMMA MovedWith ==
  ASSUME NEW CONSTANT S, NEW t \in Requests, \A u \in Requests \ {t} : req'[u].pc = req[u].pc
  PROVE  /\ With(S) \in Nat /\ With(S)' \in Nat
         /\ With(S)' = With(S) + (IF req'[t].pc \in S THEN 1 ELSE 0)
                               - (IF req[t].pc \in S THEN 1 ELSE 0)
         /\ req[t].pc \in S => With(S) >= 1
<1>1. PICK A : A = {u \in Requests : req[u].pc \in S}
  OBVIOUS
<1>2. PICK B : B = {u \in Requests : req'[u].pc \in S}
  OBVIOUS
<1>3. /\ A \in SUBSET Requests /\ B \in SUBSET Requests
      /\ \A u \in Requests \ {t} : u \in B <=> u \in A
      /\ t \in A <=> req[t].pc \in S
      /\ t \in B <=> req'[t].pc \in S
  BY <1>1, <1>2
<1>4. With(S) = Cardinality(A) /\ With(S)' = Cardinality(B)
  BY <1>1, <1>2 DEF With
<1>5. /\ Cardinality(A) \in Nat /\ Cardinality(B) \in Nat
      /\ Cardinality(B) = Cardinality(A) + (IF t \in B THEN 1 ELSE 0) - (IF t \in A THEN 1 ELSE 0)
      /\ t \in A => Cardinality(A) >= 1
  BY <1>3, Moved
<1> QED  BY <1>3, <1>4, <1>5

LEMMA MovedArrived ==
  ASSUME NEW t \in Requests, \A u \in Requests \ {t} : req'[u].pc = req[u].pc
  PROVE  /\ Arrived \in Nat /\ Arrived' \in Nat
         /\ Arrived' = Arrived + (IF req'[t].pc # "none" THEN 1 ELSE 0)
                               - (IF req[t].pc # "none" THEN 1 ELSE 0)
<1>1. PICK A : A = {u \in Requests : req[u].pc # "none"}
  OBVIOUS
<1>2. PICK B : B = {u \in Requests : req'[u].pc # "none"}
  OBVIOUS
<1>3. /\ A \in SUBSET Requests /\ B \in SUBSET Requests
      /\ \A u \in Requests \ {t} : u \in B <=> u \in A
      /\ t \in A <=> req[t].pc # "none"
      /\ t \in B <=> req'[t].pc # "none"
  BY <1>1, <1>2
<1>4. Arrived = Cardinality(A) /\ Arrived' = Cardinality(B)
  BY <1>1, <1>2 DEF Arrived
<1>5. /\ Cardinality(A) \in Nat /\ Cardinality(B) \in Nat
      /\ Cardinality(B) = Cardinality(A) + (IF t \in B THEN 1 ELSE 0) - (IF t \in A THEN 1 ELSE 0)
  BY <1>3, Moved
<1> QED  BY <1>3, <1>4, <1>5

\* A step of an answering thread.
LEMMA ThreadStep ==
  ASSUME IInv, NEW r \in Requests, NEW g, req' = [req EXCEPT ![r] = g], RequestInv(g),
         req[r].pc \in Working \cup {"queued"}, g.pc \in Working \cup {"queued", "done"},
         UNCHANGED <<server, socket, spawned, dropped>>,
         exiting' \in BOOLEAN, exiting => exiting', faults' \in Nat,
         \/ req[r].pc \in Working /\ g.pc \in Working /\ procs' = procs /\ qprocs' = qprocs
         \/ req[r].pc = "queued" /\ g.pc \in Working /\ procs < proc_limit
            /\ procs' = procs + 1 /\ qprocs' = qprocs
         \/ g.pc = "done" /\ procs' = procs - 1 /\ qprocs' = qprocs - 1
            /\ (req[r].pc \in Working \/ exiting')
  PROVE  IInv'
<1>1. /\ req' = [u \in Requests |-> req'[u]] /\ \A u \in Requests : RequestInv(req'[u])
      /\ req'[r] = g /\ \A u \in Requests \ {r} : req'[u] = req[u]
  BY OneMoves
<1>2. req[r].pc \notin {"none", "new"} /\ g.pc \notin {"none", "new"}
  BY DEF Working
<1>3. \A u \in Requests \ {r} : req'[u].pc = req[u].pc
  BY <1>1
<1>4. /\ With(Active) \in Nat /\ With(Active)' \in Nat
      /\ With(Active)' = With(Active) + (IF g.pc \in Active THEN 1 ELSE 0) - 1
      /\ With(Active) >= 1
  <2>1. req[r].pc \in Active
    BY DEF Active
  <2> QED  BY <1>1, <1>3, <2>1, MovedWith
<1>5. /\ With(Working) \in Nat /\ With(Working)' \in Nat
      /\ With(Working)' = With(Working) + (IF g.pc \in Working THEN 1 ELSE 0)
                                        - (IF req[r].pc \in Working THEN 1 ELSE 0)
  BY <1>1, <1>3, MovedWith
<1>6. Arrived' = Arrived
  BY <1>1, <1>2, <1>3, MovedArrived
<1>7. /\ procs \in Int /\ qprocs \in Nat /\ spawned \in Nat /\ dropped \in Nat
      /\ qprocs = With(Active) /\ qprocs <= proc_limit + procq_limit
      /\ ~ exiting => procs = With(Working) /\ procs <= proc_limit
      /\ spawned + dropped = Arrived /\ qprocs <= spawned
  BY DEF IInv, Counted
<1>8. proc_limit \in Nat /\ procq_limit \in Nat /\ exiting \in BOOLEAN
  BY AnswerAssumption DEF IInv
<1>9. Counted'
  <2>1. CASE req[r].pc \in Working /\ g.pc \in Working /\ procs' = procs /\ qprocs' = qprocs
    <3>1. g.pc \in Active
      BY <2>1 DEF Active
    <3> QED  BY <1>4, <1>5, <1>6, <1>7, <2>1, <3>1 DEF Counted
  <2>2. CASE req[r].pc = "queued" /\ g.pc \in Working /\ procs < proc_limit
             /\ procs' = procs + 1 /\ qprocs' = qprocs
    <3>1. g.pc \in Active /\ req[r].pc \notin Working
      BY <2>2 DEF Active, Working
    <3>2. procs' \in Int /\ procs' <= proc_limit
      BY <1>7, <1>8, <2>2
    <3>3. qprocs' = With(Active)'
      BY <1>4, <1>7, <2>2, <3>1
    <3>4. ~ exiting' => procs' = With(Working)'
      BY <1>5, <1>7, <2>2, <3>1
    <3> QED  BY <1>6, <1>7, <2>2, <3>2, <3>3, <3>4 DEF Counted
  <2>3. CASE g.pc = "done" /\ procs' = procs - 1 /\ qprocs' = qprocs - 1
             /\ (req[r].pc \in Working \/ exiting')
    <3>1. g.pc \notin Active /\ g.pc \notin Working
      BY <2>3 DEF Active, Working
    <3>2. procs' \in Int /\ qprocs' \in Nat /\ qprocs' = With(Active)' /\ qprocs' <= qprocs
      BY <1>4, <1>7, <2>3, <3>1
    <3>3. ~ exiting' => procs' = With(Working)' /\ procs' <= proc_limit
      <4>1. ASSUME ~ exiting'
            PROVE  req[r].pc \in Working /\ procs = With(Working) /\ procs <= proc_limit
        BY <1>7, <2>3, <4>1
      <4> QED  BY <1>5, <1>7, <1>8, <2>3, <3>1, <4>1
    <3>4. qprocs' <= proc_limit + procq_limit /\ qprocs' <= spawned
      BY <1>7, <1>8, <3>2
    <3> QED  BY <1>6, <1>7, <3>2, <3>3, <3>4 DEF Counted
  <2> QED  BY <2>1, <2>2, <2>3
<1>10. InOrder'
  <2>1. \A u \in Requests : req'[u].pc # "none" <=> req[u].pc # "none"
    BY <1>1, <1>2
  <2> QED  BY <1>6, <2>1 DEF IInv, InOrder, Requests
<1>11. ServerInv'
  <2>1. \A u \in Requests : req[u].pc = "new" \/ req'[u].pc = "new" => req'[u] = req[u]
    BY <1>1, <1>2
  <2>2. ServerInv
    BY DEF IInv
  <2>3. server' = [p \in Protos |-> [pc |-> server'[p].pc, r |-> server'[p].r]]
    BY <2>2 DEF ServerInv, Serves
  <2>4. \A p \in Protos : Serves(p)'
    BY <2>1, <2>2 DEF ServerInv, Serves
  <2>5. \A u \in Requests :
          req'[u].pc = "new" => server'[req'[u].proto].pc = "create" /\ server'[req'[u].proto].r = u
    BY <2>1, <2>2 DEF ServerInv, Serves
  <2>6. (\A p \in Protos : server'[p].pc = "off") => exiting'
    BY <2>2 DEF ServerInv, Serves
  <2> QED  BY <2>3, <2>4, <2>5, <2>6 DEF ServerInv, Requests, Protos
<1>12. socket' \in [Protos -> BOOLEAN]
  BY DEF IInv
<1> QED  BY <1>1, <1>9, <1>10, <1>11, <1>12 DEF IInv, Requests, Protos

-----------------------------------------------------------------------------
(* The steps of an answering thread.                                       *)

LEMMA RequestOf ==
  ASSUME IInv, NEW r \in Requests
  PROVE  /\ RequestInv(req[r])
         /\ req[r] = [pc |-> req[r].pc, proto |-> req[r].proto, held |-> req[r].held,
                      c |-> req[r].c, out |-> req[r].out]
         /\ req = [u \in Requests |-> req[u]] /\ exiting \in BOOLEAN /\ faults \in Nat
  BY DEF IInv, RequestInv

LEMMA Exits ==
  ASSUME IInv, NEW r \in Requests, Exit(r), req[r].pc \in (Working \ {"compose"}) \cup {"queued"},
         exiting' \in BOOLEAN, exiting => exiting', req[r].pc = "queued" => exiting', faults' \in Nat
  PROVE  IInv'
<1>1. PICK x : x = req[r]
  OBVIOUS
<1>2. RequestInv(x)
  BY <1>1, RequestOf
<1>3. PICK h : h = x.held \ Handlers(x)
  OBVIOUS
<1>4. PICK g : g = [NoRequest EXCEPT !.pc = "done", !.held = h]
  OBVIOUS
<1>5. g = [pc |-> "done", proto |-> None, held |-> h, c |-> None, out |-> None]
  BY <1>4 DEF NoRequest
<1>6. h = {}
  <2>1. x.held = Held(x) /\ x.pc \in Active /\ x.pc # "compose"
    BY <1>1, <1>2 DEF RequestInv, Active, Working
  <2>2. Held(x) \subseteq Handlers(x)
    <3>1. CASE x.pc \in {"reply", "sent"}
      <4>1. Handlers(x) = Buffers(x.proto) \cup {"resp"}
        BY <3>1 DEF Handlers
      <4>2. Held(x) \subseteq Buffers(x.proto) \cup {"resp"}
        BY <3>1 DEF Held
      <4> QED  BY <4>1, <4>2
    <3>2. CASE x.pc \in {"body", "part", "process"} /\ x.proto = "tcp"
      <4>1. Handlers(x) = Buffers(x.proto) \cup {"buf"}
        BY <3>2 DEF Handlers
      <4>2. Held(x) \subseteq Buffers(x.proto) \cup {"buf"}
        BY <3>2 DEF Held
      <4> QED  BY <4>1, <4>2
    <3>3. CASE /\ ~ (x.pc \in {"reply", "sent"})
             /\ ~ (x.pc \in {"body", "part", "process"} /\ x.proto = "tcp")
      <4>1. Held(x) \subseteq Buffers(x.proto)
        BY <2>1, <3>3 DEF Held
      <4> QED  BY <4>1 DEF Handlers
    <3> QED  BY <3>1, <3>2, <3>3
  <2> QED  BY <1>3, <2>1, <2>2
<1>7. RequestInv(g)
  <2>1. /\ g.pc = "done" /\ g.proto = None /\ g.held = {} /\ g.c = None /\ g.out = None
    BY <1>5, <1>6
  <2>2. g = [pc |-> g.pc, proto |-> g.proto, held |-> g.held, c |-> g.c, out |-> g.out]
    BY <1>5
  <2>3. Held(g) = {}
    BY <2>1 DEF Held, Active, Working
  <2> QED  BY <2>1, <2>2, <2>3 DEF RequestInv, Active, Working
<1>8. req' = [req EXCEPT ![r] = g]
  BY <1>1, <1>3, <1>4 DEF Exit
<1>9. /\ req[r].pc \in Working \cup {"queued"} /\ g.pc = "done"
      /\ UNCHANGED <<server, socket, spawned, dropped>>
      /\ procs' = procs - 1 /\ qprocs' = qprocs - 1
      /\ req[r].pc \in Working \/ exiting'
  BY <1>5 DEF Exit, decrease_procs
<1> QED  BY <1>7, <1>8, <1>9, ThreadStep

\* A thread that goes on.
LEMMA Continues ==
  ASSUME IInv, NEW r \in Requests, NEW g, req' = [req EXCEPT ![r] = g], RequestInv(g),
         req[r].pc \in Working, g.pc \in Working, OnlyRequest, faults' \in Nat
  PROVE  IInv'
<1>1. exiting' = exiting /\ exiting \in BOOLEAN /\ procs' = procs /\ qprocs' = qprocs
  BY RequestOf DEF OnlyRequest
<1>2. UNCHANGED <<server, socket, spawned, dropped>>
  BY DEF OnlyRequest
<1> QED  BY <1>1, <1>2, ThreadStep

LEMMA Goes ==
  ASSUME IInv, NEW r \in Requests, NEW pc \in {"length", "process"},
         NEW g, g = [req[r] EXCEPT !.pc = pc],
         \/ req[r].pc = "queued" /\ (pc = "length" <=> req[r].proto = "tcp")
         \/ req[r].pc = "body" /\ pc = "process"
  PROVE  RequestInv(g) /\ g.pc = pc
<1>1. PICK x : x = req[r]
  OBVIOUS
<1>2. /\ RequestInv(x)
      /\ x = [pc |-> x.pc, proto |-> x.proto, held |-> x.held, c |-> x.c, out |-> x.out]
  BY <1>1, RequestOf
<1>3. g = [pc |-> pc, proto |-> x.proto, held |-> x.held, c |-> x.c, out |-> x.out]
  BY <1>1, <1>2
<1>4. g.pc = pc /\ g.proto = x.proto /\ g.held = x.held /\ g.c = x.c /\ g.out = x.out
  BY <1>3
<1>5. x.pc \in {"queued", "body"} /\ x.pc \in Active /\ x.proto \in Protos /\ x.held = Held(x)
      /\ x.c = None /\ x.out = None /\ (x.pc = "body" => x.proto = "tcp")
  BY <1>1, <1>2 DEF RequestInv, Active, Working
<1>6. g.held = Held(g)
  <2>1. x.pc = "queued" /\ pc = "length" => Held(g) = Buffers(x.proto) /\ Held(x) = Buffers(x.proto)
    BY <1>4 DEF Held, Active, Working
  <2>2. x.pc = "queued" /\ pc = "process" /\ x.proto # "tcp"
          => Held(g) = Buffers(x.proto) /\ Held(x) = Buffers(x.proto)
    BY <1>4 DEF Held, Active, Working
  <2>3. x.pc = "body" /\ pc = "process" => Held(g) = Held(x)
    BY <1>4 DEF Held, Active, Working
  <2> QED  BY <1>1, <1>4, <1>5, <2>1, <2>2, <2>3
<1>7. g = [pc |-> g.pc, proto |-> g.proto, held |-> g.held, c |-> g.c, out |-> g.out]
  BY <1>3
<1>8. pc = "length" => x.proto = "tcp"
  BY <1>1, <1>5
<1> QED  BY <1>4, <1>5, <1>6, <1>7, <1>8 DEF RequestInv, Active, Working

LEMMA Faults == ASSUME IInv, Fault PROVE faults' \in Nat
  BY RequestOf DEF Fault, IInv

LEMMA ThreadReads ==
  ASSUME IInv, NEW r \in Requests,
         RunAsFails(r) \/ Slot(r) \/ ReadLength(r) \/ ReadFails(r) \/ ReadBody(r) \/ ReadPart(r)
  PROVE  IInv'
<1>1. CASE RunAsFails(r)
  <2>1. /\ Exit(r) /\ req[r].pc = "queued" /\ exiting' = TRUE /\ faults' \in Nat
    BY <1>1, Faults DEF RunAsFails
  <2> QED  BY <2>1, Exits
<1>2. CASE Slot(r)
  <2>1. PICK pc : pc = IF req[r].proto = "udp" THEN "process" ELSE "length"
    OBVIOUS
  <2>2. PICK g : g = [req[r] EXCEPT !.pc = pc]
    OBVIOUS
  <2>3. req[r].pc = "queued" /\ req[r].proto \in {"udp", "tcp"}
    BY <1>2, RequestOf DEF Slot, RequestInv, Active, Protos
  <2>4. RequestInv(g) /\ g.pc = pc
    BY <2>1, <2>2, <2>3, Goes
  <2>5. req' = [req EXCEPT ![r] = g]
    BY <1>2, <2>1, <2>2 DEF Slot
  <2>6. pc \in Working
    BY <2>1 DEF Working
  <2>7. /\ UNCHANGED <<server, socket, spawned, dropped>> /\ exiting' = exiting /\ exiting \in BOOLEAN
        /\ faults' \in Nat /\ procs < proc_limit /\ procs' = procs + 1 /\ qprocs' = qprocs
    BY <1>2, RequestOf DEF Slot
  <2> QED  BY <2>3, <2>4, <2>5, <2>6, <2>7, ThreadStep
<1>3. CASE ReadLength(r)
  <2>1. PICK x : x = req[r]
    OBVIOUS
  <2>2. /\ RequestInv(x) /\ x.pc = "length"
        /\ x = [pc |-> x.pc, proto |-> x.proto, held |-> x.held, c |-> x.c, out |-> x.out]
    BY <1>3, <2>1, RequestOf DEF ReadLength
  <2>3. PICK h : h = x.held \cup {"buf"}
    OBVIOUS
  <2>4. PICK g : g = [x EXCEPT !.pc = "body", !.held = h]
    OBVIOUS
  <2>5. g = [pc |-> "body", proto |-> x.proto, held |-> h, c |-> x.c, out |-> x.out]
    BY <2>2, <2>4
  <2>6. g.pc = "body" /\ g.proto = x.proto /\ g.held = h /\ g.c = x.c /\ g.out = x.out
    BY <2>5
  <2>7. x.proto = "tcp" /\ x.held = Held(x) /\ x.c = None /\ x.out = None
    BY <2>2 DEF RequestInv
  <2>8. g.held = Held(g)
    <3>1. Held(x) = Buffers("tcp")
      BY <2>2, <2>7 DEF Held, Active, Working
    <3>2. Held(g) = Buffers("tcp") \cup {"buf"}
      BY <2>6, <2>7 DEF Held, Active, Working
    <3> QED  BY <2>3, <2>6, <2>7, <3>1, <3>2
  <2>9. RequestInv(g)
    <3>1. g = [pc |-> g.pc, proto |-> g.proto, held |-> g.held, c |-> g.c, out |-> g.out]
      BY <2>5
    <3> QED  BY <2>6, <2>7, <2>8, <3>1 DEF RequestInv, Active, Working, Protos
  <2>10. req' = [req EXCEPT ![r] = g] /\ OnlyRequest /\ faults' \in Nat
    BY <1>3, <2>1, <2>3, <2>4, RequestOf DEF ReadLength
  <2>11. req[r].pc \in Working /\ g.pc \in Working
    BY <2>1, <2>2, <2>6 DEF Working
  <2> QED  BY <2>9, <2>10, <2>11, Continues
<1>4. CASE ReadFails(r)
  <2>1. /\ Exit(r) /\ req[r].pc \in {"length", "body"} /\ exiting' = exiting /\ faults' \in Nat
        /\ exiting \in BOOLEAN
    BY <1>4, Faults, RequestOf DEF ReadFails
  <2>2. req[r].pc \in (Working \ {"compose"}) \cup {"queued"} /\ req[r].pc # "queued"
    BY <2>1 DEF Working
  <2> QED  BY <2>1, <2>2, Exits
<1>5. CASE ReadBody(r)
  <2>1. PICK g : g = [req[r] EXCEPT !.pc = "process"]
    OBVIOUS
  <2>2. req[r].pc = "body" /\ req' = [req EXCEPT ![r] = g] /\ OnlyRequest /\ faults' \in Nat
    BY <1>5, <2>1, RequestOf DEF ReadBody, To
  <2>3. RequestInv(g) /\ g.pc = "process"
    BY <2>1, <2>2, Goes
  <2>4. req[r].pc \in Working /\ g.pc \in Working
    BY <2>2, <2>3 DEF Working
  <2> QED  BY <2>2, <2>3, <2>4, Continues
<1>6. CASE ReadPart(r)
  <2>1. PICK x : x = req[r]
    OBVIOUS
  <2>2. /\ RequestInv(x) /\ x.pc = "body"
        /\ x = [pc |-> x.pc, proto |-> x.proto, held |-> x.held, c |-> x.c, out |-> x.out]
    BY <1>6, <2>1, RequestOf DEF ReadPart
  <2>3. PICK out : out = ErrorReply(RC_FORMAT, NoLimit)
    OBVIOUS
  <2>4. Ready(out) /\ out.limit = NoLimit
    <3>1. RC_FORMAT # RC_BADVERS
      BY DEF RC_FORMAT, RC_BADVERS
    <3> QED  BY <2>3, <3>1, ErrorReplyReady
  <2>5. Truthful(out) /\ Limited(out)
    <3>1. \A n : ~ Over(n, out.limit)
      BY <2>4 DEF Over
    <3> QED  BY <2>4, <3>1 DEF Ready, Limited
  <2>6. PICK g : g = [x EXCEPT !.pc = "part", !.out = out]
    OBVIOUS
  <2>7. g = [pc |-> "part", proto |-> x.proto, held |-> x.held, c |-> x.c, out |-> out]
    BY <2>2, <2>6
  <2>8. g.pc = "part" /\ g.proto = x.proto /\ g.held = x.held /\ g.c = x.c /\ g.out = out
    BY <2>7
  <2>9. x.proto = "tcp" /\ x.held = Held(x) /\ x.c = None
    BY <2>2 DEF RequestInv
  <2>10. g.held = Held(g)
    BY <2>2, <2>8, <2>9 DEF Held, Active, Working
  <2>11. RequestInv(g)
    <3>1. g = [pc |-> g.pc, proto |-> g.proto, held |-> g.held, c |-> g.c, out |-> g.out]
      BY <2>7, <2>8
    <3> QED  BY <2>5, <2>8, <2>9, <2>10, <3>1 DEF RequestInv, Active, Working, Protos
  <2>12. req' = [req EXCEPT ![r] = g] /\ OnlyRequest /\ faults' \in Nat
    BY <1>6, <2>1, <2>3, <2>6, Faults DEF ReadPart
  <2>13. req[r].pc \in Working /\ g.pc \in Working
    BY <2>1, <2>2, <2>8 DEF Working
  <2> QED  BY <2>11, <2>12, <2>13, Continues
<1> QED  BY <1>1, <1>2, <1>3, <1>4, <1>5, <1>6

\* A reply is ready.
LEMMA RepliesStep ==
  ASSUME IInv, NEW r \in Requests, req[r].pc \in {"process", "compose"}, NEW out, Ready(out),
         Replies(r, out), OnlyRequest, faults' \in Nat
  PROVE  IInv'
<1>1. PICK x : x = req[r]
  OBVIOUS
<1>2. /\ RequestInv(x) /\ x.pc \in {"process", "compose"}
      /\ x = [pc |-> x.pc, proto |-> x.proto, held |-> x.held, c |-> x.c, out |-> x.out]
  BY <1>1, RequestOf
<1>3. PICK h : h = (x.held \ {"buf"}) \cup {"resp"}
  OBVIOUS
<1>4. PICK g : g = [x EXCEPT !.pc = "reply", !.out = out, !.c = None, !.held = h]
  OBVIOUS
<1>5. g = [pc |-> "reply", proto |-> x.proto, held |-> h, c |-> None, out |-> out]
  BY <1>2, <1>4
<1>6. g.pc = "reply" /\ g.proto = x.proto /\ g.held = h /\ g.c = None /\ g.out = out
  BY <1>5
<1>7. x.proto \in Protos /\ x.held = Held(x)
  BY <1>2 DEF RequestInv, Active, Working
<1>8. g.held = Held(g)
  <2>1. Held(x) \ {"buf"} = Buffers(x.proto)
    <3>1. "buf" \notin Buffers(x.proto)
      BY DEF Buffers
    <3>2. Held(x) = Buffers(x.proto) \/ Held(x) = Buffers(x.proto) \cup {"buf"}
      BY <1>2 DEF Held, Active, Working
    <3> QED  BY <3>1, <3>2
  <2>2. Held(g) = Buffers(x.proto) \cup {"resp"}
    BY <1>6 DEF Held, Active, Working
  <2> QED  BY <1>3, <1>6, <1>7, <2>1, <2>2
<1>9. RequestInv(g)
  <2>1. g = [pc |-> g.pc, proto |-> g.proto, held |-> g.held, c |-> g.c, out |-> g.out]
    BY <1>5
  <2> QED  BY <1>6, <1>7, <1>8, <2>1 DEF RequestInv, Active, Working
<1>10. req' = [req EXCEPT ![r] = g]
  BY <1>1, <1>3, <1>4 DEF Replies
<1>11. req[r].pc \in Working /\ g.pc \in Working
  BY <1>6 DEF Working
<1> QED  BY <1>9, <1>10, <1>11, Continues

\* The answer grows.
LEMMA ComposeStep ==
  ASSUME IInv, NEW r \in Requests, req[r].pc = "compose", NEW d, Making(d),
         req' = [req EXCEPT ![r].c = d], OnlyRequest, faults' \in Nat
  PROVE  IInv'
<1>1. PICK x : x = req[r]
  OBVIOUS
<1>2. /\ RequestInv(x) /\ x.pc = "compose"
      /\ x = [pc |-> x.pc, proto |-> x.proto, held |-> x.held, c |-> x.c, out |-> x.out]
  BY <1>1, RequestOf
<1>3. PICK g : g = [x EXCEPT !.c = d]
  OBVIOUS
<1>4. g = [pc |-> x.pc, proto |-> x.proto, held |-> x.held, c |-> d, out |-> x.out]
  BY <1>2, <1>3
<1>5. g.pc = "compose" /\ g.proto = x.proto /\ g.held = x.held /\ g.c = d /\ g.out = x.out
  BY <1>2, <1>4
<1>6. Held(g) = Held(x)
  BY <1>2, <1>5 DEF Held
<1>7. RequestInv(g)
  <2>1. g = [pc |-> g.pc, proto |-> g.proto, held |-> g.held, c |-> g.c, out |-> g.out]
    BY <1>4
  <2> QED  BY <1>2, <1>5, <1>6, <2>1 DEF RequestInv, Active, Working
<1>8. req' = [req EXCEPT ![r] = g]
  BY <1>1, <1>3
<1>9. req[r].pc \in Working /\ g.pc \in Working
  BY <1>5 DEF Working
<1> QED  BY <1>7, <1>8, <1>9, Continues

\* What a thread composes.
LEMMA InMaking ==
  ASSUME IInv, NEW r \in Requests, req[r].pc = "compose"
  PROVE  /\ Making(req[r].c) /\ req[r].c.stage \in {"answer", "authority", "additional"}
         /\ req[r].c.qs # <<>> => req[r].c.stage = "answer"
  BY RequestOf DEF RequestInv, Making, Composition, Staged

LEMMA ProcessStep == ASSUME IInv, NEW r \in Requests, Process(r) PROVE IInv'
<1>1. PICK m \in Messages[r] :
        LET p     == process_query(m)
            limit == LimitFor(r, m)
            c     == Start(m, p.ql, limit)
        IN  /\ req[r].pc = "process"
            /\ CASE p.kind = "discard" -> Exit(r)
                 [] p.kind = "error" ->
                      /\ Replies(r, ErrorReply(p.rc, limit))
                      /\ UNCHANGED <<server, socket, procs, qprocs, spawned, dropped>>
                 [] p.kind = "compose" ->
                      /\ IF \E k \in DOMAIN p.ql : ~ Supported(p.ql[k])
                         THEN Replies(r, Reply(c, RC_NOTSUPP, FALSE))
                         ELSE req' = [req EXCEPT ![r] = [@ EXCEPT !.pc = "compose", !.c = c]]
                      /\ UNCHANGED <<server, socket, procs, qprocs, spawned, dropped>>
            /\ UNCHANGED <<exiting, faults>>
  BY DEF Process
<1>2. IsMessage(m)
  BY AnswerAssumption DEF Requests
<1>3. PICK p : p = process_query(m)
  OBVIOUS
<1>4. PICK limit : limit = LimitFor(r, m)
  OBVIOUS
<1>5. limit \in Nat \cup {NoLimit} /\ (limit = NoLimit \/ limit >= 2)
  BY <1>2, <1>4, Limits
<1>6. /\ req[r].pc = "process" /\ exiting' = exiting /\ faults' = faults
      /\ exiting \in BOOLEAN /\ faults' \in Nat
  BY <1>1, RequestOf
<1>7. CASE p.kind = "discard"
  <2>1. Exit(r)
    BY <1>1, <1>3, <1>7
  <2>2. req[r].pc \in (Working \ {"compose"}) \cup {"queued"} /\ req[r].pc # "queued"
    BY <1>6 DEF Working
  <2> QED  BY <1>6, <2>1, <2>2, Exits
<1>8. CASE p.kind = "error" /\ p.rc \in {RC_FORMAT, RC_SERVFAIL, RC_NOTSUPP, RC_BADVERS}
  <2>1. PICK out : out = ErrorReply(p.rc, limit)
    OBVIOUS
  <2>2. Replies(r, out) /\ OnlyRequest
    BY <1>1, <1>3, <1>4, <1>8, <2>1 DEF OnlyRequest
  <2>3. Ready(out)
    BY <1>5, <1>8, <2>1, ErrorReplyReady
  <2> QED  BY <1>6, <2>2, <2>3, RepliesStep
<1>9. CASE p.kind = "compose" /\ p.ql = m.qs /\ p.ql # <<>>
  <2>1. PICK c : c = Start(m, m.qs, limit)
    OBVIOUS
  <2>2. OnlyRequest
    BY <1>1, <1>3, <1>9 DEF OnlyRequest
  <2>3. CASE \E k \in DOMAIN m.qs : ~ Supported(m.qs[k])
    <3>1. PICK out : out = Reply(c, RC_NOTSUPP, FALSE)
      OBVIOUS
    <3>2. Replies(r, out)
      BY <1>1, <1>3, <1>4, <1>9, <2>1, <2>3, <3>1
    <3>3. Ready(out)
      BY <1>2, <1>5, <1>9, <2>1, <3>1, Refuses
    <3> QED  BY <1>6, <2>2, <3>2, <3>3, RepliesStep
  <2>4. CASE ~ \E k \in DOMAIN m.qs : ~ Supported(m.qs[k])
    <3>1. Making(c)
      BY <1>2, <1>5, <1>9, <2>1, <2>4, Starts
    <3>2. PICK x : x = req[r]
      OBVIOUS
    <3>3. PICK g : g = [x EXCEPT !.pc = "compose", !.c = c]
      OBVIOUS
    <3>4. req' = [req EXCEPT ![r] = g]
      BY <1>1, <1>3, <1>4, <1>9, <2>1, <2>4, <3>2, <3>3
    <3>5. /\ RequestInv(x) /\ x.pc = "process"
          /\ x = [pc |-> x.pc, proto |-> x.proto, held |-> x.held, c |-> x.c, out |-> x.out]
      BY <1>6, <3>2, RequestOf
    <3>6. g = [pc |-> "compose", proto |-> x.proto, held |-> x.held, c |-> c, out |-> x.out]
      BY <3>3, <3>5
    <3>7. g.pc = "compose" /\ g.proto = x.proto /\ g.held = x.held /\ g.c = c /\ g.out = x.out
      BY <3>6
    <3>8. Held(g) = Held(x)
      BY <3>5, <3>7 DEF Held, Active, Working
    <3>9. RequestInv(g)
      <4>1. g = [pc |-> g.pc, proto |-> g.proto, held |-> g.held, c |-> g.c, out |-> g.out]
        BY <3>6
      <4> QED  BY <3>1, <3>5, <3>7, <3>8, <4>1 DEF RequestInv, Active, Working
    <3>10. req[r].pc \in Working /\ g.pc \in Working
      BY <1>6, <3>7 DEF Working
    <3> QED  BY <1>6, <2>2, <3>4, <3>9, <3>10, Continues
  <2> QED  BY <2>3, <2>4
<1> QED  BY <1>2, <1>3, <1>7, <1>8, <1>9, Examined

LEMMA HopStep == ASSUME IInv, NEW r \in Requests, Hop(r) PROVE IInv'
<1>1. PICK c : c = req[r].c
  OBVIOUS
<1>2. req[r].pc = "compose" /\ c.qs # <<>> /\ OnlyRequest /\ faults' \in Nat
  BY <1>1, RequestOf DEF Hop
<1>3. Making(c) /\ c.stage = "answer" /\ c.name \in Names
  BY <1>1, <1>2, InMaking DEF Making, Composition
<1>4. PICK o \in Resolve[c.name] :
        IF o.rc = RC_OK
        THEN \E c1 \in Resolved(c, o.ent) : req' = [req EXCEPT ![r].c = c1]
        ELSE \E c1 \in Unresolved(c, o) : Replies(r, Reply(c1, o.rc, FALSE))
  BY <1>1 DEF Hop
<1>5. o.rc \in -1..15 /\ o.soa \in Names \cup {None} /\ (o.rc = 0 => IsEntry(o.ent))
  BY <1>3, AnswerAssumption
<1>6. CASE o.rc = RC_OK
  <2>1. PICK d \in Resolved(c, o.ent) : req' = [req EXCEPT ![r].c = d]
    BY <1>4, <1>6
  <2>2. IsEntry(o.ent)
    BY <1>5, <1>6 DEF RC_OK
  <2>3. Making(d)
    BY <1>2, <1>3, <2>1, <2>2, Resolves
  <2> QED  BY <1>2, <2>1, <2>3, ComposeStep
<1>7. CASE o.rc # RC_OK
  <2>1. PICK d \in Unresolved(c, o) : Replies(r, Reply(d, o.rc, FALSE))
    BY <1>4, <1>7
  <2>2. PICK out : out = Reply(d, o.rc, FALSE)
    OBVIOUS
  <2>3. Ready(out)
    BY <1>3, <1>5, <2>1, <2>2, Fails
  <2> QED  BY <1>2, <2>1, <2>2, <2>3, RepliesStep
<1> QED  BY <1>6, <1>7

LEMMA AuthorityStep == ASSUME IInv, NEW r \in Requests, Authority(r) PROVE IInv'
<1>1. PICK c : c = req[r].c
  OBVIOUS
<1>2. In(r, "answer") \/ In(r, "authority")
  BY DEF Authority
<1>3. req[r].pc = "compose" /\ c.qs = <<>> /\ Making(c)
  BY <1>1, <1>2, InMaking DEF In
<1>4. faults' = faults => faults' \in Nat
  BY RequestOf
<1>5. CASE In(r, "answer")
  <2>1. PICK d : d = [c EXCEPT !.stage = "authority"]
    OBVIOUS
  <2>2. Compose(r, d)
    <3>1. Compose(r, [req[r].c EXCEPT !.stage = "authority"])
      <4>1. ~ In(r, "authority")
        BY <1>5 DEF In
      <4> QED  BY <1>5, <4>1, Zenon DEF Authority
    <3> QED  BY <1>1, <2>1, <3>1
  <2>3. Making(d)
    BY <1>1, <1>3, <1>5, <2>1, ToAuthority DEF In
  <2> QED  BY <1>3, <1>4, <2>2, <2>3, ComposeStep DEF Compose
<1>6. CASE In(r, "authority") /\ ~ In(r, "answer")
  <2>1. c.stage = "authority"
    BY <1>1, <1>6 DEF In
  <2>2. CASE c.next > Len(c.exts)
    <3>1. PICK d : d = StartAdditional(c)
      OBVIOUS
    <3>2. Compose(r, d)
      BY <1>1, <1>6, <2>2, <3>1 DEF Authority
    <3>3. Making(d)
      BY <1>3, <2>1, <3>1, ToAdditional
    <3> QED  BY <1>3, <1>4, <3>2, <3>3, ComposeStep DEF Compose
  <2>3. CASE ~ (c.next > Len(c.exts))
    <3>1. PICK x : x = c.exts[c.next]
      OBVIOUS
    <3>2. c.next \in 1..(Len(c.exts) + 1) /\ c.exts \in Seq(Ext) /\ Len(c.exts) \in Nat
      BY <1>3 DEF Making, Composition
    <3>3. c.next \in 1..Len(c.exts) /\ c.next + 1 \in 1..(Len(c.exts) + 1)
      BY <2>3, <3>2
    <3>4. x \in Ext
      BY <3>1, <3>2, <3>3
    <3>5. PICK n \in 1..(Len(c.exts) + 1) : n = c.next + 1
      BY <3>3
    <3>6. PICK c1 : c1 = [c EXCEPT !.next = n]
      OBVIOUS
    <3>7. c.stage # "answer"
      BY <2>1
    <3>8. Making(c1) /\ c1.stage = "authority"
      <4>1. Making([c EXCEPT !.next = n]) /\ [c EXCEPT !.next = n].stage = c.stage
        BY <1>3, <3>7, GoesOn
      <4> QED  BY <2>1, <3>6, <4>1
    <3>9. Compose(r, IF x.tp = "ADD" THEN c1 ELSE add_additional_rr(c1, "ns", x.rec))
      BY <1>1, <1>6, <2>3, <3>1, <3>5, <3>6 DEF Authority
    <3>10. CASE x.tp = "ADD"
      <4>1. Compose(r, c1)
        BY <3>9, <3>10
      <4> QED  BY <1>3, <1>4, <3>8, <4>1, ComposeStep DEF Compose
    <3>11. CASE x.tp # "ADD"
      <4>1. x.rec \in Record /\ x.rec.tp \in {"NS", "SOA"}
        BY <3>4, <3>11 DEF Ext, Listing
      <4>2. PICK d : d = add_additional_rr(c1, "ns", x.rec)
        OBVIOUS
      <4>3. Making(d)
        BY <3>8, <4>1, <4>2, AddsAuthority DEF Adding
      <4>4. Compose(r, d)
        BY <3>9, <3>11, <4>2
      <4> QED  BY <1>3, <1>4, <4>3, <4>4, ComposeStep DEF Compose
    <3> QED  BY <3>10, <3>11
  <2> QED  BY <2>2, <2>3
<1> QED  BY <1>2, <1>5, <1>6

LEMMA HostStep == ASSUME IInv, NEW r \in Requests, NextHost(r) PROVE IInv'
<1>1. PICK c : c = req[r].c
  OBVIOUS
<1>2. /\ req[r].pc = "compose" /\ c.stage = "additional" /\ c.rrs = <<>> /\ c.next <= Len(c.exts)
      /\ Making(c)
  BY <1>1, InMaking DEF NextHost, In
<1>3. faults' = faults => faults' \in Nat
  BY RequestOf
<1>4. PICK x : x = c.exts[c.next]
  OBVIOUS
<1>5. c.next \in 1..(Len(c.exts) + 1) /\ c.exts \in Seq(Ext) /\ Len(c.exts) \in Nat
  BY <1>2 DEF Making, Composition
<1>6. c.next \in 1..Len(c.exts) /\ c.next + 1 \in 1..(Len(c.exts) + 1)
  BY <1>2, <1>5
<1>7. x \in Ext
  BY <1>4, <1>5, <1>6
<1>8. PICK n \in 1..(Len(c.exts) + 1) : n = c.next + 1
  BY <1>6
<1>9. PICK c1 : c1 = [c EXCEPT !.next = n]
  OBVIOUS
<1>10. c.stage # "answer"
  BY <1>2
<1>11. Making(c1) /\ c1.stage = "additional"
  <2>1. Making([c EXCEPT !.next = n]) /\ [c EXCEPT !.next = n].stage = c.stage
    BY <1>2, <1>10, GoesOn
  <2> QED  BY <1>2, <1>9, <2>1
<1>12. CASE x.tp = "SOA"
  <2>1. Compose(r, c1)
    BY <1>1, <1>4, <1>8, <1>9, <1>12 DEF NextHost
  <2> QED  BY <1>2, <1>3, <1>11, <2>1, ComposeStep DEF Compose
<1>13. CASE x.tp # "SOA"
  <2>1. PICK host : host = x.rec.data
    OBVIOUS
  <2>2. host \in Names
    BY <1>7, <1>13, <2>1 DEF Ext
  <2>3. PICK y \in Cached[host] :
          Compose(r, IF y = None THEN c1 ELSE [c1 EXCEPT !.rrs = Records(host, y, "A")])
    BY <1>1, <1>4, <1>8, <1>9, <1>13, <2>1 DEF NextHost
  <2>4. CASE y = None
    BY <1>2, <1>3, <1>11, <2>3, <2>4, ComposeStep DEF Compose
  <2>5. CASE y # None
    <3>1. IsEntry(y)
      BY <2>2, <2>5, AnswerAssumption
    <3>2. PICK rrs : rrs = Records(host, y, "A")
      OBVIOUS
    <3>3. rrs \in Seq(Record) /\ \A k \in 1..Len(rrs) : rrs[k].tp = "A"
      <4>1. "A" \in Types
        BY DEF Types
      <4> QED  BY <2>2, <3>1, <3>2, <4>1, RecordsOf
    <3>4. PICK d : d = [c1 EXCEPT !.rrs = rrs]
      OBVIOUS
    <3>5. Making([c1 EXCEPT !.rrs = rrs])
      BY <1>11, <3>3, HasLeft
    <3>6. Making(d)
      BY <3>4, <3>5
    <3>7. Compose(r, d)
      BY <2>3, <2>5, <3>2, <3>4
    <3> QED  BY <1>2, <1>3, <3>6, <3>7, ComposeStep DEF Compose
  <2> QED  BY <2>4, <2>5
<1> QED  BY <1>12, <1>13

LEMMA AddressStep == ASSUME IInv, NEW r \in Requests, NextAddress(r) PROVE IInv'
<1>1. PICK c : c = req[r].c
  OBVIOUS
<1>2. req[r].pc = "compose" /\ c.stage = "additional" /\ c.rrs # <<>> /\ Making(c)
  BY <1>1, InMaking DEF NextAddress, In
<1>3. faults' = faults => faults' \in Nat
  BY RequestOf
<1>4. PICK s : s = c.rrs
  OBVIOUS
<1>5. s \in Seq(Record) /\ s # <<>> /\ \A k \in 1..Len(s) : s[k].tp = "A"
  BY <1>2, <1>4 DEF Making, Composition, Remembered
<1>6. PICK x : x = Head(s)
  OBVIOUS
<1>7. PICK u : u = Tail(s)
  OBVIOUS
<1>8. /\ x \in Record /\ u \in Seq(Record) /\ Len(u) = Len(s) - 1 /\ Len(s) \in Nat \ {0}
      /\ \A k \in 1..Len(u) : u[k] = s[k + 1]
  <2>1. Len(s) \in Nat \ {0}
    BY <1>5
  <2> QED  BY <1>5, <1>6, <1>7, <2>1, HeadTailProperties
<1>9. x.tp = "A"
  <2>1. PICK l : l = Len(s)
    OBVIOUS
  <2>2. 1 \in 1..l
    BY <1>8, <2>1
  <2>3. x = s[1]
    BY <1>5, <1>6
  <2> QED  BY <1>5, <2>1, <2>2, <2>3
<1>10. \A k \in 1..Len(u) : u[k].tp = "A"
  <2>1. PICK l : l = Len(s)
    OBVIOUS
  <2>2. \A k \in 1..(l - 1) : k + 1 \in 1..l
    BY <1>8, <2>1
  <2> QED  BY <1>5, <1>8, <2>1, <2>2
<1>11. PICK c1 : c1 = [c EXCEPT !.rrs = u]
  OBVIOUS
<1>12. Making([c EXCEPT !.rrs = u]) /\ [c EXCEPT !.rrs = u].stage = c.stage
  BY <1>2, <1>8, <1>10, HasLeft
<1>13. Making(c1) /\ c1.stage = "additional"
  BY <1>2, <1>11, <1>12
<1>14. PICK d : d = add_additional_rr(c1, "ar", x)
  OBVIOUS
<1>15. Making(d)
  BY <1>8, <1>9, <1>13, <1>14, AddsAddress DEF Adding
<1>16. Compose(r, d)
  BY <1>1, <1>4, <1>6, <1>7, <1>11, <1>14 DEF NextAddress
<1> QED  BY <1>2, <1>3, <1>15, <1>16, ComposeStep DEF Compose

LEMMA ReplyStep == ASSUME IInv, NEW r \in Requests, Complete(r) \/ ComposeFails(r) PROVE IInv'
<1>1. PICK c : c = req[r].c
  OBVIOUS
<1>2. CASE Complete(r)
  <2>1. /\ req[r].pc = "compose" /\ c.stage = "additional" /\ Making(c) /\ OnlyRequest
        /\ faults' \in Nat
    BY <1>1, <1>2, InMaking, RequestOf DEF Complete, In
  <2>2. PICK out : out = Reply(c, RC_OK, c.aa)
    OBVIOUS
  <2>3. Ready(out)
    BY <2>1, <2>2, Completes
  <2>4. Replies(r, out)
    BY <1>1, <1>2, <2>2 DEF Complete
  <2> QED  BY <2>1, <2>3, <2>4, RepliesStep
<1>3. CASE ComposeFails(r)
  <2>1. req[r].pc = "compose" /\ Making(c) /\ OnlyRequest /\ faults' \in Nat
    BY <1>1, <1>3, InMaking, Faults DEF ComposeFails
  <2>2. c.limit \in Nat \cup {NoLimit}
    BY <2>1 DEF Making, Composition
  <2>3. PICK out : out = ErrorReply(RC_SERVFAIL, c.limit)
    OBVIOUS
  <2>4. Ready(out)
    <3>1. RC_SERVFAIL # RC_BADVERS
      BY DEF RC_SERVFAIL, RC_BADVERS
    <3> QED  BY <2>2, <2>3, <3>1, ErrorReplyReady
  <2>5. Replies(r, out)
    BY <1>1, <1>3, <2>3 DEF ComposeFails
  <2> QED  BY <2>1, <2>4, <2>5, RepliesStep
<1> QED  BY <1>2, <1>3

LEMMA SendStep ==
  ASSUME IInv, NEW r \in Requests, Send(r) \/ SendFails(r) \/ Finish(r)
  PROVE  IInv'
<1>1. CASE Send(r)
  <2>1. PICK x : x = req[r]
    OBVIOUS
  <2>2. /\ RequestInv(x) /\ x.pc = "reply"
        /\ x = [pc |-> x.pc, proto |-> x.proto, held |-> x.held, c |-> x.c, out |-> x.out]
    BY <1>1, <2>1, RequestOf DEF Send
  <2>3. PICK out : out = Cut(x.out)
    OBVIOUS
  <2>4. Truthful(out) /\ Limited(out)
    <3>1. Ready(x.out)
      BY <2>2 DEF RequestInv
    <3> QED  BY <2>3, <3>1, Cuts
  <2>5. PICK g : g = [x EXCEPT !.pc = "sent", !.out = out]
    OBVIOUS
  <2>6. g = [pc |-> "sent", proto |-> x.proto, held |-> x.held, c |-> x.c, out |-> out]
    BY <2>2, <2>5
  <2>7. g.pc = "sent" /\ g.proto = x.proto /\ g.held = x.held /\ g.c = x.c /\ g.out = out
    BY <2>6
  <2>8. Held(g) = Held(x)
    BY <2>2, <2>7 DEF Held, Active, Working
  <2>9. RequestInv(g)
    <3>1. g = [pc |-> g.pc, proto |-> g.proto, held |-> g.held, c |-> g.c, out |-> g.out]
      BY <2>6, <2>7
    <3> QED  BY <2>2, <2>4, <2>7, <2>8, <3>1 DEF RequestInv, Active, Working
  <2>10. /\ req' = [req EXCEPT ![r] = g]
         /\ OnlyRequest /\ faults' \in Nat
    <3>1. req' = [req EXCEPT ![r] = [req[r] EXCEPT !.pc = "sent", !.out = Cut(req[r].out)]]
      BY <1>1 DEF Send
    <3>2. OnlyRequest /\ faults' \in Nat
      BY <1>1, RequestOf DEF Send
    <3> QED  BY <2>1, <2>3, <2>5, <3>1, <3>2
  <2>11. req[r].pc \in Working /\ g.pc \in Working
    BY <2>1, <2>2, <2>7 DEF Working
  <2> QED  BY <2>9, <2>10, <2>11, Continues
<1>2. CASE SendFails(r)
  <2>1. /\ Exit(r) /\ req[r].pc = "reply" /\ exiting' = exiting /\ exiting \in BOOLEAN
        /\ faults' \in Nat
    BY <1>2, Faults, RequestOf DEF SendFails
  <2>2. req[r].pc \in (Working \ {"compose"}) \cup {"queued"} /\ req[r].pc # "queued"
    BY <2>1 DEF Working
  <2> QED  BY <2>1, <2>2, Exits
<1>3. CASE Finish(r)
  <2>1. /\ Exit(r) /\ req[r].pc \in {"sent", "part"} /\ exiting' = exiting /\ exiting \in BOOLEAN
        /\ faults' \in Nat
    BY <1>3, RequestOf DEF Finish
  <2>2. req[r].pc \in (Working \ {"compose"}) \cup {"queued"} /\ req[r].pc # "queued"
    BY <2>1 DEF Working
  <2> QED  BY <2>1, <2>2, Exits
<1> QED  BY <1>1, <1>2, <1>3


-----------------------------------------------------------------------------
(* The steps of a server thread.                                           *)

\* What is known of it, the request in its hands and the counters.
LEMMA ServerOf ==
  ASSUME IInv, NEW p \in Protos
  PROVE  /\ ServerInv /\ InOrder /\ Counted /\ socket \in [Protos -> BOOLEAN] /\ exiting \in BOOLEAN
         /\ req = [u \in Requests |-> req[u]] /\ \A u \in Requests : RequestInv(req[u])
         /\ server[p].pc = "create" =>
              server[p].r \in Requests /\ req[server[p].r].pc = "new" /\ req[server[p].r].proto = p
         /\ server[p].pc # "create" => \A u \in Requests : req[u].pc = "new" => req[u].proto # p
  BY ZenonT(40) DEF IInv, ServerInv, Serves

\* Without a request in its hands.
LEMMA ServerMoves ==
  ASSUME IInv, NEW p \in Protos, server[p].pc # "create", NEW pc \in {"leave", "last", "off"},
         Serving(p, pc, None), req' = req, UNCHANGED <<procs, qprocs, spawned, dropped>>,
         socket' \in [Protos -> BOOLEAN], \A q \in Protos : socket'[q] => socket[q],
         pc \in {"last", "off"} => ~ socket'[p],
         exiting' \in BOOLEAN, exiting => exiting',
         pc = "off" /\ (\A q \in Protos : ~ socket'[q]) => exiting',
         ~ exiting' => ~ exiting, faults' \in Nat
  PROVE  IInv'
<1>1. /\ ServerInv /\ InOrder /\ Counted
      /\ server = [q \in Protos |-> [pc |-> server[q].pc, r |-> server[q].r]]
  BY ServerOf DEF ServerInv, Serves
<1>2. PICK s : s = [pc |-> pc, r |-> None]
  OBVIOUS
<1>3. server'[p] = s /\ s.pc = pc /\ \A q \in Protos \ {p} : server'[q] = server[q]
  BY <1>1, <1>2 DEF Serving
<1>4. server' = [q \in Protos |-> [pc |-> server'[q].pc, r |-> server'[q].r]]
  BY <1>1, <1>2 DEF Serving
<1>5. /\ With(Active)' = With(Active) /\ With(Working)' = With(Working) /\ Arrived' = Arrived
  BY DEF With, Arrived
<1>6. Counted'
  BY <1>1, <1>5 DEF Counted
<1>7. InOrder'
  BY <1>1, <1>5 DEF InOrder, Requests
<1>8. ServerInv'
  <2>1. \A q \in Protos : Serves(q)'
    <3>1. ASSUME NEW q \in Protos PROVE Serves(q)'
      <4>1. CASE q = p
        BY <4>1, <1>3 DEF Serves
      <4>2. CASE q # p
        <5>1. server'[q] = server[q]
          BY <4>2, <1>3
        <5>2. /\ server[q].pc \in {"wait", "create", "leave", "last", "off"}
              /\ server[q].pc \in {"last", "off"} => ~ socket'[q]
          BY <1>1 DEF ServerInv, Serves
        <5>3. server[q].pc = "create" =>
                server[q].r \in Requests /\ req'[server[q].r].pc = "new"
                /\ req'[server[q].r].proto = q
          BY <4>2, <1>1 DEF ServerInv, Serves
        <5> QED  BY <5>1, <5>2, <5>3 DEF Serves
      <4> QED  BY <4>1, <4>2
    <3> QED  BY <3>1
  <2>2. \A u \in Requests :
          req'[u].pc = "new" => server'[req'[u].proto].pc = "create" /\ server'[req'[u].proto].r = u
    <3>1. ASSUME NEW u \in Requests, req[u].pc = "new"
          PROVE  server'[req[u].proto].pc = "create" /\ server'[req[u].proto].r = u
      <4>1. req[u].proto \in Protos
        BY <3>1, ServerOf DEF RequestInv, Active
      <4>2. req[u].proto # p
        BY <3>1, ServerOf
      <4>3. server[req[u].proto].pc = "create" /\ server[req[u].proto].r = u
        BY <1>1, <3>1 DEF ServerInv, Serves
      <4> QED  BY <1>3, <4>1, <4>2, <4>3
    <3> QED  BY <3>1
  <2>3. (\A q \in Protos : server'[q].pc = "off") => exiting'
    BY <1>3, <2>1 DEF Serves
  <2> QED  BY <1>4, <2>1, <2>2, <2>3 DEF ServerInv, Requests, Protos
<1> QED  BY <1>6, <1>7, <1>8, ServerOf DEF IInv, Requests, Protos

LEMMA ServerStops ==
  ASSUME IInv, NEW p \in Protos, NoMemory(p) \/ CloseSocket(p) \/ LeaveServer(p)
  PROVE  IInv'
<1>1. /\ socket \in [Protos -> BOOLEAN] /\ exiting \in BOOLEAN /\ faults \in Nat
      /\ server[p].pc \in {"last", "off"} => ~ socket[p]
  BY DEF IInv, ServerInv, Serves
<1>2. CASE NoMemory(p)
  <2>1. /\ server[p].pc # "create" /\ Serving(p, "leave", None) /\ req' = req
        /\ UNCHANGED <<procs, qprocs, spawned, dropped>> /\ socket' = socket /\ exiting' = exiting
        /\ faults' \in Nat
    BY <1>2, Faults DEF NoMemory
  <2> QED  BY <1>1, <2>1, ServerMoves
<1>3. CASE CloseSocket(p)
  <2>1. /\ server[p].pc # "create" /\ Serving(p, "last", None) /\ req' = req
        /\ UNCHANGED <<procs, qprocs, spawned, dropped>> /\ exiting' = exiting /\ faults' = faults
        /\ socket' = [socket EXCEPT ![p] = FALSE]
    BY <1>3 DEF CloseSocket
  <2>2. /\ socket' \in [Protos -> BOOLEAN] /\ ~ socket'[p]
        /\ \A q \in Protos : socket'[q] => socket[q]
    BY <1>1, <2>1
  <2> QED  BY <1>1, <2>1, <2>2, ServerMoves
<1>4. CASE LeaveServer(p)
  <2>1. /\ server[p].pc = "last" /\ Serving(p, "off", None) /\ req' = req
        /\ UNCHANGED <<procs, qprocs, spawned, dropped>> /\ socket' = socket /\ faults' = faults
        /\ exiting' = (exiting \/ \A s \in Protos : ~ socket[s])
    BY <1>4 DEF LeaveServer
  <2>2. exiting' \in BOOLEAN /\ (exiting => exiting')
        /\ ((\A q \in Protos : ~ socket'[q]) => exiting') /\ (~ exiting' => ~ exiting)
    BY <1>1, <2>1
  <2> QED  BY <1>1, <2>1, <2>2, ServerMoves
<1> QED  BY <1>2, <1>3, <1>4

\* What a request in its hands becomes: nothing else changes.
LEMMA HandsOver ==
  ASSUME IInv, NEW p \in Protos, NEW r \in Requests, NEW g, req' = [req EXCEPT ![r] = g], RequestInv(g),
         UNCHANGED <<socket, exiting>>,
         \/ /\ req[r].pc = "none" /\ g.pc = "new" /\ g.proto = p
            /\ server[p].pc = "wait" /\ Serving(p, "create", r)
         \/ req[r].pc = "none" /\ g.pc = "done" /\ server' = server
         \/ /\ server[p].pc = "create" /\ server[p].r = r /\ g.pc \in {"queued", "done"}
            /\ Serving(p, "wait", None)
  PROVE  ServerInv'
<1>1. /\ req' = [u \in Requests |-> req'[u]] /\ \A u \in Requests : RequestInv(req'[u])
      /\ req'[r] = g /\ \A u \in Requests \ {r} : req'[u] = req[u]
  BY OneMoves
<1>2. ServerInv /\ server = [q \in Protos |-> [pc |-> server[q].pc, r |-> server[q].r]]
  BY ServerOf DEF ServerInv, Serves
<1>3. \A u \in Requests : req[u].pc = "new" => req[u].proto \in Protos
  BY ServerOf DEF RequestInv, Active
<1>4. CASE /\ req[r].pc = "none" /\ g.pc = "new" /\ g.proto = p
           /\ server[p].pc = "wait" /\ Serving(p, "create", r)
  <2>1. PICK s : s = [pc |-> "create", r |-> r]
    OBVIOUS
  <2>2. /\ server'[p] = s /\ s.pc = "create" /\ s.r = r
        /\ \A q \in Protos \ {p} : server'[q] = server[q]
    BY <1>2, <1>4, <2>1 DEF Serving
  <2>3. server' = [q \in Protos |-> [pc |-> server'[q].pc, r |-> server'[q].r]]
    BY <1>2, <1>4, <2>1 DEF Serving
  <2>4. \A q \in Protos : Serves(q)'
    <3>1. ASSUME NEW q \in Protos PROVE Serves(q)'
      <4>1. CASE q = p
        BY <4>1, <1>1, <1>4, <2>2 DEF Serves
      <4>2. CASE q # p
        <5>1. server'[q] = server[q]
          BY <4>2, <2>2
        <5>2. /\ server[q].pc \in {"wait", "create", "leave", "last", "off"}
              /\ server[q].pc \in {"last", "off"} => ~ socket'[q]
          BY <1>2 DEF ServerInv, Serves
        <5>3. server[q].pc = "create" =>
                server[q].r \in Requests /\ req'[server[q].r].pc = "new"
                /\ req'[server[q].r].proto = q
          BY <4>2, <1>1, <1>2, <1>4 DEF ServerInv, Serves
        <5> QED  BY <5>1, <5>2, <5>3 DEF Serves
      <4> QED  BY <4>1, <4>2
    <3> QED  BY <3>1
  <2>5. \A u \in Requests :
          req'[u].pc = "new" => server'[req'[u].proto].pc = "create" /\ server'[req'[u].proto].r = u
    <3>1. ASSUME NEW u \in Requests, req'[u].pc = "new"
          PROVE  server'[req'[u].proto].pc = "create" /\ server'[req'[u].proto].r = u
      <4>1. CASE u = r
        BY <1>1, <1>4, <2>2, <4>1
      <4>2. CASE u # r
        <5>1. req'[u] = req[u] /\ req[u].pc = "new"
          BY <1>1, <3>1, <4>2
        <5>2. server[req[u].proto].pc = "create" /\ server[req[u].proto].r = u
          BY <1>2, <5>1 DEF ServerInv, Serves
        <5>3. req[u].proto \in Protos \ {p}
          BY <1>3, <1>4, <5>1, <5>2
        <5> QED  BY <2>2, <5>1, <5>2, <5>3
      <4> QED  BY <4>1, <4>2
    <3> QED  BY <3>1
  <2>6. ~ \A q \in Protos : server'[q].pc = "off"
    BY <2>2
  <2> QED  BY <2>3, <2>4, <2>5, <2>6 DEF ServerInv, Requests, Protos
<1>5. CASE req[r].pc = "none" /\ g.pc = "done" /\ server' = server
  <2>1. \A u \in Requests : req[u].pc = "new" \/ req'[u].pc = "new" => req'[u] = req[u]
    BY <1>1, <1>5
  <2>2. server' = [q \in Protos |-> [pc |-> server'[q].pc, r |-> server'[q].r]]
    BY <1>2, <1>5
  <2>3. \A q \in Protos : Serves(q)'
    BY <1>2, <1>5, <2>1 DEF ServerInv, Serves
  <2>4. \A u \in Requests :
          req'[u].pc = "new" => server'[req'[u].proto].pc = "create" /\ server'[req'[u].proto].r = u
    BY <1>2, <1>5, <2>1 DEF ServerInv, Serves
  <2>5. (\A q \in Protos : server'[q].pc = "off") => exiting'
    BY <1>2, <1>5 DEF ServerInv, Serves
  <2> QED  BY <2>2, <2>3, <2>4, <2>5 DEF ServerInv, Requests, Protos
<1>6. CASE /\ server[p].pc = "create" /\ server[p].r = r /\ g.pc \in {"queued", "done"}
           /\ Serving(p, "wait", None)
  <2>1. PICK s : s = [pc |-> "wait", r |-> None]
    OBVIOUS
  <2>2. /\ server'[p] = s /\ s.pc = "wait"
        /\ \A q \in Protos \ {p} : server'[q] = server[q]
    BY <1>2, <1>6, <2>1 DEF Serving
  <2>3. server' = [q \in Protos |-> [pc |-> server'[q].pc, r |-> server'[q].r]]
    BY <1>2, <1>6, <2>1 DEF Serving
  <2>4. req[r].pc = "new" /\ req[r].proto = p
    BY <1>6, ServerOf
  <2>5. \A q \in Protos : Serves(q)'
    <3>1. ASSUME NEW q \in Protos PROVE Serves(q)'
      <4>1. CASE q = p
        BY <4>1, <2>2 DEF Serves
      <4>2. CASE q # p
        <5>1. server'[q] = server[q]
          BY <4>2, <2>2
        <5>2. /\ server[q].pc \in {"wait", "create", "leave", "last", "off"}
              /\ server[q].pc \in {"last", "off"} => ~ socket'[q]
          BY <1>2 DEF ServerInv, Serves
        <5>3. server[q].pc = "create" =>
                server[q].r \in Requests /\ req'[server[q].r].pc = "new"
                /\ req'[server[q].r].proto = q
          BY <4>2, <1>1, <1>2, <2>4 DEF ServerInv, Serves
        <5> QED  BY <5>1, <5>2, <5>3 DEF Serves
      <4> QED  BY <4>1, <4>2
    <3> QED  BY <3>1
  <2>6. \A u \in Requests :
          req'[u].pc = "new" => server'[req'[u].proto].pc = "create" /\ server'[req'[u].proto].r = u
    <3>1. ASSUME NEW u \in Requests, req'[u].pc = "new"
          PROVE  server'[req'[u].proto].pc = "create" /\ server'[req'[u].proto].r = u
      <4>1. u # r
        BY <1>1, <1>6, <3>1
      <4>2. req'[u] = req[u] /\ req[u].pc = "new"
        BY <1>1, <3>1, <4>1
      <4>3. server[req[u].proto].pc = "create" /\ server[req[u].proto].r = u
        BY <1>2, <4>2 DEF ServerInv, Serves
      <4>4. req[u].proto \in Protos \ {p}
        BY <1>3, <1>6, <4>1, <4>2, <4>3
      <4> QED  BY <2>2, <4>2, <4>3, <4>4
    <3> QED  BY <3>1
  <2>7. ~ \A q \in Protos : server'[q].pc = "off"
    BY <2>2
  <2> QED  BY <2>3, <2>5, <2>6, <2>7 DEF ServerInv, Requests, Protos
<1> QED  BY <1>4, <1>5, <1>6

LEMMA HaveArrived == Arrived \in Nat
<1>1. IsFiniteSet(Requests)
  BY AnswerAssumption, FS_Interval DEF Requests
<1>2. PICK A : A = {u \in Requests : req[u].pc # "none"}
  OBVIOUS
<1>3. A \in SUBSET Requests
  BY <1>2
<1>4. IsFiniteSet(A)
  BY <1>1, <1>3, FS_Subset
<1>5. Cardinality(A) \in Nat
  BY <1>4, FS_CardinalityType
<1> QED  BY <1>2, <1>5 DEF Arrived

LEMMA ReceiveStep == ASSUME IInv, NEW p \in Protos, Receive(p) PROVE IInv'
<1>1. PICK r : r = Arrived + 1
  OBVIOUS
<1>2. r \in Requests /\ server[p].pc = "wait" /\ UNCHANGED <<socket, procs, exiting, faults>>
  BY <1>1 DEF Receive
<1>3. PICK x : x = req[r]
  OBVIOUS
<1>4. /\ Arrived \in Nat /\ r \in Nat /\ ServerInv /\ InOrder /\ Counted /\ RequestInv(x)
      /\ req = [u \in Requests |-> req[u]] /\ socket \in [Protos -> BOOLEAN] /\ exiting \in BOOLEAN
      /\ faults \in Nat
  <2>1. Arrived \in Nat
    BY HaveArrived
  <2> QED  BY <1>2, <1>3, <2>1, ServerOf DEF IInv, Requests
<1>5. x.pc = "none" /\ ~ (r <= Arrived)
  <2>1. ~ (r <= Arrived)
    BY <1>1, <1>4
  <2> QED  BY <1>2, <1>3, <1>4, <2>1 DEF InOrder
<1>6. /\ x = [pc |-> x.pc, proto |-> x.proto, held |-> x.held, c |-> x.c, out |-> x.out]
      /\ x.held = {} /\ x.c = None /\ x.out = None
  BY <1>4, <1>5 DEF RequestInv, Held, Active, Working
<1>7. \A u \in Requests \ {r} : u <= Arrived + 1 <=> u <= Arrived
  BY <1>1, <1>4 DEF Requests
<1>8. CASE Room
  <2>1. PICK g : g = [x EXCEPT !.pc = "new", !.proto = p, !.held = Buffers(p)]
    OBVIOUS
  <2>2. g = [pc |-> "new", proto |-> p, held |-> Buffers(p), c |-> x.c, out |-> x.out]
    BY <1>6, <2>1
  <2>3. g.pc = "new" /\ g.proto = p /\ g.held = Buffers(p) /\ g.c = None /\ g.out = None
    BY <1>6, <2>2
  <2>4. RequestInv(g)
    <3>1. g = [pc |-> g.pc, proto |-> g.proto, held |-> g.held, c |-> g.c, out |-> g.out]
      BY <2>2, <2>3
    <3>2. Held(g) = Buffers(p)
      BY <2>3 DEF Held, Active, Working
    <3> QED  BY <2>3, <3>1, <3>2 DEF RequestInv, Active, Working
  <2>5. /\ req' = [req EXCEPT ![r] = g] /\ Serving(p, "create", r)
        /\ qprocs' = qprocs + 1 /\ spawned' = spawned + 1 /\ dropped' = dropped
    BY <1>1, <1>3, <1>8, <2>1 DEF Receive
  <2>6. /\ req' = [u \in Requests |-> req'[u]] /\ \A u \in Requests : RequestInv(req'[u])
        /\ req'[r] = g /\ \A u \in Requests \ {r} : req'[u] = req[u]
    BY <1>2, <2>4, <2>5, OneMoves
  <2>7. ServerInv'
    BY <1>2, <1>3, <1>5, <2>3, <2>4, <2>5, HandsOver
  <2>8. Arrived' = Arrived + 1
    BY <1>2, <1>3, <1>4, <1>5, <2>3, <2>6, MovedArrived
  <2>9. With(Active)' = With(Active) + 1 /\ With(Working)' = With(Working)
    <3>1. \A u \in Requests \ {r} : req'[u].pc = req[u].pc
      BY <2>6
    <3>2. "new" \in Active /\ "none" \notin Active /\ "new" \notin Working /\ "none" \notin Working
      BY DEF Active, Working
    <3>3. /\ With(Active) \in Nat
          /\ With(Active)' = With(Active) + (IF g.pc \in Active THEN 1 ELSE 0)
                                          - (IF x.pc \in Active THEN 1 ELSE 0)
      BY <1>2, <1>3, <2>6, <3>1, MovedWith
    <3>4. /\ With(Working) \in Nat
          /\ With(Working)' = With(Working) + (IF g.pc \in Working THEN 1 ELSE 0)
                                            - (IF x.pc \in Working THEN 1 ELSE 0)
      BY <1>2, <1>3, <2>6, <3>1, MovedWith
    <3> QED  BY <1>5, <2>3, <3>2, <3>3, <3>4
  <2>10. Counted'
    <3>1. proc_limit + procq_limit \in Nat
      BY AnswerAssumption
    <3> QED  BY <1>2, <1>4, <1>8, <2>5, <2>8, <2>9, <3>1 DEF Counted, Room
  <2>11. InOrder'
    <3>1. \A u \in Requests : req'[u].pc # "none" <=> u <= Arrived + 1
      BY <1>1, <1>4, <1>7, <2>3, <2>6 DEF InOrder
    <3> QED  BY <2>8, <3>1 DEF InOrder, Requests
  <2> QED  BY <1>2, <1>4, <2>6, <2>7, <2>10, <2>11 DEF IInv, Requests, Protos
<1>9. CASE ~ Room
  <2>1. PICK g : g = [x EXCEPT !.pc = "done"]
    OBVIOUS
  <2>2. g = [pc |-> "done", proto |-> x.proto, held |-> x.held, c |-> x.c, out |-> x.out]
    BY <1>6, <2>1
  <2>3. g.pc = "done" /\ g.proto = x.proto /\ g.held = {} /\ g.c = None /\ g.out = None
    BY <1>6, <2>2
  <2>4. RequestInv(g)
    <3>1. g = [pc |-> g.pc, proto |-> g.proto, held |-> g.held, c |-> g.c, out |-> g.out]
      BY <2>2, <2>3
    <3>2. Held(g) = {}
      BY <2>3 DEF Held, Active, Working
    <3> QED  BY <2>3, <3>1, <3>2 DEF RequestInv, Active, Working
  <2>5. /\ req' = [req EXCEPT ![r] = g] /\ server' = server
        /\ qprocs' = qprocs /\ spawned' = spawned /\ dropped' = dropped + 1
    BY <1>1, <1>3, <1>9, <2>1 DEF Receive
  <2>6. /\ req' = [u \in Requests |-> req'[u]] /\ \A u \in Requests : RequestInv(req'[u])
        /\ req'[r] = g /\ \A u \in Requests \ {r} : req'[u] = req[u]
    BY <1>2, <2>4, <2>5, OneMoves
  <2>7. ServerInv'
    BY <1>2, <1>3, <1>5, <2>3, <2>4, <2>5, HandsOver
  <2>8. Arrived' = Arrived + 1
    BY <1>2, <1>3, <1>4, <1>5, <2>3, <2>6, MovedArrived
  <2>9. With(Active)' = With(Active) /\ With(Working)' = With(Working)
    <3>1. \A u \in Requests \ {r} : req'[u].pc = req[u].pc
      BY <2>6
    <3>2. "done" \notin Active /\ "none" \notin Active /\ "done" \notin Working /\ "none" \notin Working
      BY DEF Active, Working
    <3>3. /\ With(Active) \in Nat
          /\ With(Active)' = With(Active) + (IF g.pc \in Active THEN 1 ELSE 0)
                                          - (IF x.pc \in Active THEN 1 ELSE 0)
      BY <1>2, <1>3, <2>6, <3>1, MovedWith
    <3>4. /\ With(Working) \in Nat
          /\ With(Working)' = With(Working) + (IF g.pc \in Working THEN 1 ELSE 0)
                                            - (IF x.pc \in Working THEN 1 ELSE 0)
      BY <1>2, <1>3, <2>6, <3>1, MovedWith
    <3> QED  BY <1>5, <2>3, <3>2, <3>3, <3>4
  <2>10. Counted'
    BY <1>2, <1>4, <2>5, <2>8, <2>9 DEF Counted
  <2>11. InOrder'
    <3>1. \A u \in Requests : req'[u].pc # "none" <=> u <= Arrived + 1
      BY <1>1, <1>4, <1>7, <2>3, <2>6 DEF InOrder
    <3> QED  BY <2>8, <3>1 DEF InOrder, Requests
  <2> QED  BY <1>2, <1>4, <2>6, <2>7, <2>10, <2>11 DEF IInv, Requests, Protos
<1> QED  BY <1>8, <1>9

\* A thread is started for the request, or it cannot be.
LEMMA CreateStep == ASSUME IInv, NEW p \in Protos, Created(p) \/ NotCreated(p) PROVE IInv'
<1>1. server[p].pc = "create" /\ UNCHANGED <<socket, procs, exiting>> /\ Serving(p, "wait", None)
  BY DEF Created, NotCreated
<1>2. PICK r \in Requests : r = server[p].r
  BY <1>1, ServerOf
<1>3. PICK x : x = req[r]
  OBVIOUS
<1>4. x.pc = "new" /\ RequestInv(x) /\ faults \in Nat /\ Counted /\ InOrder
      /\ socket \in [Protos -> BOOLEAN] /\ exiting \in BOOLEAN
  BY <1>1, <1>2, <1>3, ServerOf DEF IInv
<1>5. /\ x = [pc |-> x.pc, proto |-> x.proto, held |-> x.held, c |-> x.c, out |-> x.out]
      /\ x.proto \in Protos /\ x.held = Held(x) /\ x.c = None /\ x.out = None
  BY <1>4 DEF RequestInv, Active
<1>6. PICK g \in {[x EXCEPT !.pc = "queued"], [NoRequest EXCEPT !.pc = "done"]} :
        /\ req' = [req EXCEPT ![r] = g]
        /\ \/ /\ Created(p) /\ g = [x EXCEPT !.pc = "queued"]
           \/ /\ NotCreated(p) /\ g = [NoRequest EXCEPT !.pc = "done"]
  <2>1. CASE Created(p)
    BY <1>2, <1>3, <2>1 DEF Created
  <2>2. CASE NotCreated(p)
    BY <1>2, <1>3, <2>2 DEF NotCreated
  <2> QED  BY <2>1, <2>2
<1>7. CASE Created(p) /\ g = [x EXCEPT !.pc = "queued"]
  <2>1. g = [pc |-> "queued", proto |-> x.proto, held |-> x.held, c |-> x.c, out |-> x.out]
    BY <1>5, <1>7
  <2>2. g.pc = "queued" /\ g.proto = x.proto /\ g.held = x.held /\ g.c = None /\ g.out = None
    BY <1>5, <2>1
  <2>3. RequestInv(g)
    <3>1. g = [pc |-> g.pc, proto |-> g.proto, held |-> g.held, c |-> g.c, out |-> g.out]
      BY <2>1, <2>2
    <3>2. Held(g) = Held(x)
      BY <1>4, <2>2 DEF Held, Active, Working
    <3> QED  BY <1>5, <2>2, <3>1, <3>2 DEF RequestInv, Active, Working
  <2>4. /\ qprocs' = qprocs /\ spawned' = spawned /\ dropped' = dropped /\ faults' = faults
    BY <1>7 DEF Created
  <2>5. /\ req' = [u \in Requests |-> req'[u]] /\ \A u \in Requests : RequestInv(req'[u])
        /\ req'[r] = g /\ \A u \in Requests \ {r} : req'[u] = req[u]
    BY <1>6, <2>3, OneMoves
  <2>6. ServerInv'
    BY <1>1, <1>2, <1>6, <2>2, <2>3, HandsOver
  <2>7. Arrived' = Arrived
    BY <1>3, <1>4, <2>2, <2>5, MovedArrived
  <2>8. With(Active)' = With(Active) /\ With(Working)' = With(Working)
    <3>1. \A u \in Requests \ {r} : req'[u].pc = req[u].pc
      BY <2>5
    <3>2. "queued" \in Active /\ "new" \in Active /\ "queued" \notin Working /\ "new" \notin Working
      BY DEF Active, Working
    <3>3. /\ With(Active) \in Nat
          /\ With(Active)' = With(Active) + (IF g.pc \in Active THEN 1 ELSE 0)
                                          - (IF x.pc \in Active THEN 1 ELSE 0)
      BY <1>3, <2>5, <3>1, MovedWith
    <3>4. /\ With(Working) \in Nat
          /\ With(Working)' = With(Working) + (IF g.pc \in Working THEN 1 ELSE 0)
                                            - (IF x.pc \in Working THEN 1 ELSE 0)
      BY <1>3, <2>5, <3>1, MovedWith
    <3> QED  BY <1>4, <2>2, <3>2, <3>3, <3>4
  <2>9. Counted'
    BY <1>1, <1>4, <2>4, <2>7, <2>8 DEF Counted
  <2>10. InOrder'
    <3>1. \A u \in Requests : req'[u].pc # "none" <=> req[u].pc # "none"
      BY <1>3, <1>4, <2>2, <2>5
    <3> QED  BY <1>4, <2>7, <3>1 DEF InOrder, Requests
  <2> QED  BY <1>1, <1>4, <2>4, <2>5, <2>6, <2>9, <2>10 DEF IInv, Requests, Protos
<1>8. CASE NotCreated(p) /\ g = [NoRequest EXCEPT !.pc = "done"]
  <2>1. g = [pc |-> "done", proto |-> None, held |-> {}, c |-> None, out |-> None]
    BY <1>8 DEF NoRequest
  <2>2. g.pc = "done" /\ g.proto = None /\ g.held = {} /\ g.c = None /\ g.out = None
    BY <2>1
  <2>3. RequestInv(g)
    <3>1. g = [pc |-> g.pc, proto |-> g.proto, held |-> g.held, c |-> g.c, out |-> g.out]
      BY <2>1, <2>2
    <3>2. Held(g) = {}
      BY <2>2 DEF Held, Active, Working
    <3> QED  BY <2>2, <3>1, <3>2 DEF RequestInv, Active, Working
  <2>4. /\ qprocs' = qprocs - 1 /\ spawned' = spawned - 1 /\ dropped' = dropped + 1
        /\ faults' \in Nat
    BY <1>8, Faults DEF NotCreated
  <2>5. /\ req' = [u \in Requests |-> req'[u]] /\ \A u \in Requests : RequestInv(req'[u])
        /\ req'[r] = g /\ \A u \in Requests \ {r} : req'[u] = req[u]
    BY <1>6, <2>3, OneMoves
  <2>6. ServerInv'
    BY <1>1, <1>2, <1>6, <2>2, <2>3, HandsOver
  <2>7. Arrived' = Arrived
    BY <1>3, <1>4, <2>2, <2>5, MovedArrived
  <2>8. With(Active) \in Nat /\ With(Active) >= 1 /\ With(Active)' = With(Active) - 1
        /\ With(Working)' = With(Working)
    <3>1. \A u \in Requests \ {r} : req'[u].pc = req[u].pc
      BY <2>5
    <3>2. "done" \notin Active /\ "new" \in Active /\ "done" \notin Working /\ "new" \notin Working
      BY DEF Active, Working
    <3>3. /\ With(Active) \in Nat
          /\ With(Active)' = With(Active) + (IF g.pc \in Active THEN 1 ELSE 0)
                                          - (IF x.pc \in Active THEN 1 ELSE 0)
          /\ x.pc \in Active => With(Active) >= 1
      BY <1>3, <2>5, <3>1, MovedWith
    <3>4. /\ With(Working) \in Nat
          /\ With(Working)' = With(Working) + (IF g.pc \in Working THEN 1 ELSE 0)
                                            - (IF x.pc \in Working THEN 1 ELSE 0)
      BY <1>3, <2>5, <3>1, MovedWith
    <3> QED  BY <1>4, <2>2, <3>2, <3>3, <3>4
  <2>9. Counted'
    <3>1. proc_limit + procq_limit \in Nat
      BY AnswerAssumption
    <3> QED  BY <1>1, <1>4, <2>4, <2>7, <2>8, <3>1 DEF Counted
  <2>10. InOrder'
    <3>1. \A u \in Requests : req'[u].pc # "none" <=> req[u].pc # "none"
      BY <1>3, <1>4, <2>2, <2>5
    <3> QED  BY <1>4, <2>7, <3>1 DEF InOrder, Requests
  <2> QED  BY <1>1, <1>4, <2>4, <2>5, <2>6, <2>9, <2>10 DEF IInv, Requests, Protos
<1> QED  BY <1>6, <1>7, <1>8

-----------------------------------------------------------------------------
(* The invariant.                                                          *)

LEMMA ThreadInv == ASSUME IInv, NEW r \in Requests, Thread(r) PROVE IInv'
<1>1. \/ RunAsFails(r) \/ Slot(r) \/ ReadLength(r) \/ ReadFails(r) \/ ReadBody(r) \/ ReadPart(r)
      \/ Process(r) \/ Hop(r) \/ Authority(r) \/ NextHost(r) \/ NextAddress(r)
      \/ Complete(r) \/ ComposeFails(r) \/ Send(r) \/ SendFails(r) \/ Finish(r)
  BY DEF Thread
<1>2. CASE RunAsFails(r) \/ Slot(r) \/ ReadLength(r) \/ ReadFails(r) \/ ReadBody(r) \/ ReadPart(r)
  BY <1>2, ThreadReads
<1>3. CASE Process(r) \/ Hop(r) \/ Authority(r)
  BY <1>3, ProcessStep, HopStep, AuthorityStep
<1>4. CASE NextHost(r) \/ NextAddress(r)
  BY <1>4, HostStep, AddressStep
<1>5. CASE Complete(r) \/ ComposeFails(r)
  BY <1>5, ReplyStep
<1>6. CASE Send(r) \/ SendFails(r) \/ Finish(r)
  BY <1>6, SendStep
<1> QED  BY <1>1, <1>2, <1>3, <1>4, <1>5, <1>6

LEMMA IdleStep == ASSUME IInv, UNCHANGED vars PROVE IInv'
<1>1. /\ req' = req /\ server' = server /\ socket' = socket /\ procs' = procs /\ qprocs' = qprocs
      /\ spawned' = spawned /\ dropped' = dropped /\ exiting' = exiting /\ faults' = faults
  BY DEF vars
<1>2. With(Active)' = With(Active) /\ With(Working)' = With(Working) /\ Arrived' = Arrived
  BY <1>1 DEF With, Arrived
<1>3. ServerInv'
  BY <1>1 DEF IInv, ServerInv, Serves, Requests, Protos
<1>5. InOrder'
  BY <1>1, <1>2 DEF IInv, InOrder, Requests
<1>4. Counted'
  BY <1>1, <1>2 DEF IInv, Counted
<1> QED  BY <1>1, <1>3, <1>4, <1>5 DEF IInv, Requests, Protos

LEMMA NextIInv == IInv /\ [Next]_vars => IInv'
<1> SUFFICES ASSUME IInv, [Next]_vars PROVE IInv'
  OBVIOUS
<1>1. CASE \E r \in Requests : Thread(r)
  BY <1>1, ThreadInv
<1>2. CASE \E p \in Protos : Server(p)
  BY <1>2, ReceiveStep, CreateStep, ServerStops DEF Server
<1>3. CASE Waiting \/ UNCHANGED vars
  BY <1>3, IdleStep DEF Waiting
<1> QED  BY <1>1, <1>2, <1>3 DEF Next

\* At the start no thread was asked for.
LEMMA InitIInv == Init => IInv
<1> SUFFICES ASSUME Init PROVE IInv
  OBVIOUS
<1>1. /\ req = [r \in Requests |-> NoRequest]
      /\ procs = 0 /\ qprocs = 0 /\ spawned = 0 /\ dropped = 0 /\ exiting = FALSE /\ faults = 0
      /\ socket \in [Protos -> BOOLEAN]
  BY DEF Init
<1>2. PICK x : x = NoRequest
  OBVIOUS
<1>3. x = [pc |-> "none", proto |-> None, held |-> {}, c |-> None, out |-> None]
  BY <1>2 DEF NoRequest
<1>4. x.pc = "none" /\ x.proto = None /\ x.held = {} /\ x.c = None /\ x.out = None
  BY <1>3
<1>5. RequestInv(x)
  <2>1. x = [pc |-> x.pc, proto |-> x.proto, held |-> x.held, c |-> x.c, out |-> x.out]
    BY <1>3, <1>4
  <2>2. Held(x) = {}
    BY <1>4 DEF Held, Active, Working
  <2> QED  BY <1>4, <2>1, <2>2 DEF RequestInv, Active, Working
<1>6. req = [r \in Requests |-> req[r]] /\ \A r \in Requests : req[r] = x
  BY <1>1, <1>2
<1>7. With(Active) = 0 /\ With(Working) = 0 /\ Arrived = 0
  <2>1. /\ {r \in Requests : req[r].pc \in Active} = {} /\ {r \in Requests : req[r].pc \in Working} = {}
        /\ {r \in Requests : req[r].pc # "none"} = {}
    BY <1>4, <1>6 DEF Active, Working
  <2> QED  BY <2>1, FS_EmptySet DEF With, Arrived
<1>8. Counted
  <2>1. proc_limit \in Nat /\ procq_limit \in Nat
    BY AnswerAssumption
  <2> QED  BY <1>1, <1>7, <2>1 DEF Counted
<1>9. InOrder
  <2>1. \A r \in Requests : ~ (r <= 0)
    BY AnswerAssumption DEF Requests
  <2> QED  BY <1>4, <1>6, <1>7, <2>1 DEF InOrder
<1>10. ServerInv
  <2>1. \A p \in Protos : server[p] = [pc |-> IF socket[p] THEN "wait" ELSE "off", r |-> None]
    BY DEF Init
  <2>2. \A p \in Protos :
          /\ server[p].pc = IF socket[p] THEN "wait" ELSE "off"
          /\ server[p] = [pc |-> server[p].pc, r |-> server[p].r]
    <3>1. ASSUME NEW a, NEW s, s = [pc |-> a, r |-> None]
          PROVE  s.pc = a /\ s = [pc |-> s.pc, r |-> s.r]
      BY <3>1
    <3>2. ASSUME NEW p \in Protos
          PROVE  /\ server[p].pc = IF socket[p] THEN "wait" ELSE "off"
                 /\ server[p] = [pc |-> server[p].pc, r |-> server[p].r]
      <4>1. PICK a : a = IF socket[p] THEN "wait" ELSE "off"
        OBVIOUS
      <4>2. PICK s : s = [pc |-> a, r |-> None]
        OBVIOUS
      <4>3. server[p] = s
        BY <2>1, <4>1, <4>2
      <4>4. s.pc = a /\ s = [pc |-> s.pc, r |-> s.r]
        BY <3>1, <4>2
      <4> QED  BY <4>1, <4>3, <4>4
    <3> QED  BY <3>2
  <2>3. server = [p \in Protos |-> server[p]]
    BY DEF Init
  <2>4. server = [p \in Protos |-> [pc |-> server[p].pc, r |-> server[p].r]]
    BY <2>2, <2>3
  <2>5. \E p \in Protos : socket[p]
    BY DEF Init
  <2>6. \A r \in Requests : req[r].pc # "new"
    BY <1>4, <1>6
  <2> QED  BY <1>1, <2>2, <2>4, <2>5, <2>6 DEF ServerInv, Serves
<1> QED  BY <1>1, <1>5, <1>6, <1>8, <1>9, <1>10 DEF IInv

\* What the threads, the messages and the replies of dns_answer.c are, in every state.
THEOREM Invariance == Spec => []IInv
<1> QED  BY InitIInv, NextIInv, PTL DEF Spec

-----------------------------------------------------------------------------
(* What follows from it.                                                   *)

\* Threads, requests, memory and sockets are accounted for, whatever fails in a server
\* thread, in the start of a thread or inside one.
THEOREM ThreadsAreAccounted == Spec => []ThreadsAccounted
<1>1. IInv => ThreadsAccounted
  <2> SUFFICES ASSUME IInv PROVE ThreadsAccounted
    OBVIOUS
  <2>1. \A r \in Requests : RequestInv(req[r])
    BY DEF IInv
  <2>2. TypeOK
    <3>1. ASSUME NEW r \in Requests
          PROVE  /\ req[r].held \subseteq {"data", "csock", "socket", "buf", "resp"}
                 /\ IF req[r].pc = "compose" THEN Composition(req[r].c) ELSE req[r].c = None
                 /\ IF req[r].pc \in {"reply", "sent", "part"} THEN Answer(req[r].out)
                    ELSE req[r].out = None
      <4>1. req[r].held = Held(req[r])
        BY <2>1 DEF RequestInv
      <4>2. Held(req[r]) \subseteq {"data", "csock", "socket", "buf", "resp"}
        BY DEF Held, Buffers
      <4>3. IF req[r].pc = "compose" THEN Composition(req[r].c) ELSE req[r].c = None
        BY <2>1 DEF RequestInv, Making
      <4>4. IF req[r].pc \in {"reply", "sent", "part"} THEN Answer(req[r].out) ELSE req[r].out = None
        BY <2>1 DEF RequestInv, Ready, Truthful
      <4> QED  BY <4>1, <4>2, <4>3, <4>4
    <3> QED  BY <3>1 DEF IInv, Counted, TypeOK
  <2>3. PlacesExact
    BY DEF IInv, Counted, PlacesExact, Active, Working, With
  <2>4. AllCounted /\ LastServerExits
    BY DEF IInv, Counted, AllCounted, ServerInv, Serves, LastServerExits
  <2>5. NothingHeld
    BY <2>1 DEF NothingHeld, RequestInv, Held, Active, Working
  <2> QED  BY <2>2, <2>3, <2>4, <2>5 DEF ThreadsAccounted
<1> QED  BY <1>1, Invariance, PTL

LEMMA SentIs ==
  ASSUME IInv, NEW out \in Sent
  PROVE  Truthful(out) /\ Limited(out)
  BY DEF IInv, Sent, RequestInv

\* A reply keeps to what the client can take, and says so if it was cut.
THEOREM RepliesFit == Spec => []KeepsToLimit
<1>1. IInv => KeepsToLimit
  BY SentIs DEF KeepsToLimit, Limited, Full
<1> QED  BY <1>1, Invariance, PTL

\* No reply causes another, has a record twice, claims authority without having it or
\* hides its code.
THEOREM RepliesAreTrue == Spec => []RepliesTrue
<1>1. IInv => RepliesTrue
  <2> SUFFICES ASSUME IInv PROVE RepliesTrue
    OBVIOUS
  <2>1. NoStorm
    <3>1. ASSUME NEW qr, NEW tc, NEW rcode, qr = TRUE
          PROVE process_query(
                   [len |-> "full", qr |-> qr, opcode |-> "QUERY", z |-> FALSE, rcode |-> rcode,
                    counts |-> FALSE, body |-> "ok", qs |-> <<>>, tc |-> tc, ar |-> "none",
                   opt |-> None, rd |-> TRUE]).kind = "discard"
      <4>1. PICK m : m = [len |-> "full", qr |-> qr, opcode |-> "QUERY", z |-> FALSE, rcode |-> rcode,
                   counts |-> FALSE, body |-> "ok", qs |-> <<>>, tc |-> tc, ar |-> "none",
                   opt |-> None, rd |-> TRUE]
        OBVIOUS
      <4>2. m.len = "full" /\ m.qr
        BY <3>1, <4>1
      <4>3. process_query(m) = Discard
        BY <4>2 DEF process_query
      <4> QED  BY <4>1, <4>3 DEF Discard
    <3>2. \A out \in Sent : out.qr = TRUE
      BY SentIs DEF Truthful, Answer
    <3> QED  BY <3>1, <3>2 DEF NoStorm
  <2>2. NoDoubles
    BY SentIs DEF NoDoubles, Truthful, Distinct, Apart
  <2>3. AuthorityTrue
    <3>1. ASSUME NEW out \in Sent, out.aa, NEW k \in DOMAIN out.recs.an PROVE out.recs.an[k].local
      <4>1. Truthful(out)
        BY SentIs
      <4>2. out.recs.an \in Seq(Record)
        BY <4>1 DEF Truthful, Answer
      <4>3. k \in 1..Len(out.recs.an)
        BY <4>2
      <4> QED  BY <3>1, <4>1, <4>3 DEF Truthful
    <3> QED  BY <3>1 DEF AuthorityTrue
  <2>4. CodeConveyed
    BY SentIs DEF CodeConveyed, Truthful
  <2> QED  BY <2>1, <2>2, <2>3, <2>4 DEF RepliesTrue
<1> QED  BY <1>1, Invariance, PTL
=============================================================================
