------------------------- MODULE PdnsdResolveProofs -------------------------
(***************************************************************************)
(* dns_query.c.  First the recursion of pdnsd's resolver, for all names,   *)
(* servers, referrals and numbers of hops: it never looks for an address   *)
(* it is looking for further out, never asks a server twice for a name,    *)
(* and never asks for or replaces what the configuration defines.          *)
(*                                                                         *)
(* Then one query of the servers, for any number of them, any replies and  *)
(* any configuration: it owns each socket and message once, uses the best  *)
(* answer, leaves no silent server untested, asks none without end, and    *)
(* gives up only when all have been asked.                                 *)
(***************************************************************************)
EXTENDS PdnsdResolve, PdnsdQuery, TLAPS

-----------------------------------------------------------------------------
(* The inductive invariant.  What is said of the frames is said of an      *)
(* arbitrary stack s, so that the lemmas need no primes.                   *)

IsSeq(s) == Len(s) \in Nat /\ s = [k \in 1..Len(s) |-> s[k]]

IsServ(v) ==
  v = [addr |-> v.addr, auth |-> v.auth, nocache |-> v.nocache, nopurge |-> v.nopurge,
       done |-> v.done]

IsList(q) == q = [x \in DOMAIN q |-> q[x]] /\ \A x \in DOMAIN q : IsServ(q[x])

Shape(f) ==
     f = [name |-> f.name, type |-> f.type, hops |-> f.hops, pc |-> f.pc, q |-> f.q,
          chain |-> f.chain, qh |-> f.qh, ns |-> f.ns, serv |-> f.serv, saved |-> f.saved,
          rc |-> f.rc, stale |-> f.stale, nocache |-> f.nocache, nopurge |-> f.nopurge,
          refer |-> f.refer]

IsFrame(f) ==
  /\ Shape(f)
  /\ f.name \in Names /\ IsList(f.q) /\ f.ns \in Seq(Names \X Names) /\ f.rc # "OK"

\* Name servers are only looked for with a hop left for them, servers are collected by
\* auth_ok alone, and a name that is asked for is not one the configuration defines.
FrameInv(f, k) ==
  /\ IsFrame(f)
  /\ f.hops \in Nat /\ f.hops = MAX_HOPS + 1 - k
  /\ f.ns # <<>> \/ f.serv # {} => f.hops > 0
  /\ f.pc = "address" => f.ns # <<>>
  /\ f.pc \in {"lookup", "ask"} => f.serv = {}
  /\ f.pc # "lookup" => f.name \notin DOMAIN Local

\* The frames from k on to m ask for the same name, each with the servers that the one
\* below found.
Linked(s, k, m) == \A i \in (k + 1)..m : s[i].chain

\* The server list of frame k says that a was asked.
AskedOf(s, k, a) == \E x \in DOMAIN s[k].q : s[k].q[x].done /\ s[k].q[x].addr = a

\* What is asked for further out is remembered in qh, or is the same question.
Remembered(s) ==
  \A k, m \in 1..Len(s) :
    k < m => <<s[k].name, s[k].type>> \in s[m].qh \cup {<<s[m].name, s[m].type>>}

NotRound(s) ==
  \A k, m \in 1..Len(s) :
    k < m /\ ~ s[m].chain => ~ (s[k].name = s[m].name /\ s[k].type = "A" /\ s[m].type = "A")

\* No server collected, nor any of a list made of those, was asked further out.
Collected(s) ==
  \A k, m \in 1..Len(s) :
    k <= m /\ Linked(s, k, m) => \A a \in s[m].serv : ~ AskedOf(s, k, a)

AskedOnce(s) ==
  \A k, m \in 1..Len(s) :
    k < m /\ Linked(s, k, m) => \A y \in DOMAIN s[m].q : ~ AskedOf(s, k, s[m].q[y].addr)

StackInv(s) ==
  /\ IsSeq(s)
  /\ \A k \in 1..Len(s) : FrameInv(s[k], k)
  /\ Remembered(s) /\ NotRound(s) /\ Collected(s) /\ AskedOnce(s)

\* The cache: entries are what IsEntry says, and the configured ones are there.
CacheInv(c) ==
  /\ c = [n \in Names |-> c[n]]
  /\ \A n \in Names : c[n] # None => IsEntry(c[n])
  /\ \A n \in DOMAIN Local : c[n] = Local[n]

\* What a frame returns as answered may be cached.
RetInv(r) == r # None /\ r.rc = "OK" => IsEntry(r.ent)

NoneLocal(a) == \A x \in a : x[1] \notin DOMAIN Local

IInv ==
  /\ StackInv(stack) /\ CacheInv(cache) /\ RetInv(ret) /\ NoneLocal(asked)
  /\ up \in [Sections -> BOOLEAN]

-----------------------------------------------------------------------------
(* Sequences: what Append and Front do to the frames.                      *)

LEMMA Elements ==
  ASSUME NEW s, IsSeq(s)
  PROVE  /\ s \in Seq({s[k] : k \in 1..Len(s)})
         /\ s # <<>> => Len(s) > 0
BY DEF IsSeq

LEMMA FrontOf ==
  ASSUME NEW s, IsSeq(s), s # <<>>
  PROVE  /\ IsSeq(Front(s)) /\ Len(Front(s)) = Len(s) - 1
         /\ \A k \in 1..(Len(s) - 1) : Front(s)[k] = s[k]
<1> DEFINE S == {s[k] : k \in 1..Len(s)}
<1>1. s \in Seq(S) /\ Len(s) \in Nat /\ Len(s) > 0  BY Elements DEF IsSeq
<1>2. Front(s) = [k \in 1..(Len(s) - 1) |-> s[k]]  BY <1>1 DEF Front
<1>3. Len(Front(s)) = Len(s) - 1  BY <1>1, <1>2
<1> QED  BY <1>1, <1>2, <1>3 DEF IsSeq

LEMMA AppendTo ==
  ASSUME NEW s, IsSeq(s), NEW f
  PROVE  /\ IsSeq(Append(s, f)) /\ Len(Append(s, f)) = Len(s) + 1
         /\ Append(s, f)[Len(s) + 1] = f
         /\ \A k \in 1..Len(s) : Append(s, f)[k] = s[k]
<1> DEFINE S == {s[k] : k \in 1..Len(s)} \cup {f}
<1>1. s \in Seq(S) /\ Len(s) \in Nat  BY DEF IsSeq
<1>2. Append(s, f) \in Seq(S) /\ Len(Append(s, f)) = Len(s) + 1  BY <1>1
<1>3. Append(s, f)[Len(s) + 1] = f /\ \A k \in 1..Len(s) : Append(s, f)[k] = s[k]  BY <1>1
<1> HIDE DEF S
<1>4. \A t \in Seq(S) : IsSeq(t)  BY DEF IsSeq
<1> QED  BY <1>1, <1>2, <1>3, <1>4

\* Keep: the innermost frame is replaced by f.
Put(s, f) == Append(Front(s), f)

LEMMA Replaced ==
  ASSUME NEW s, IsSeq(s), s # <<>>, NEW f
  PROVE  /\ IsSeq(Put(s, f)) /\ Len(Put(s, f)) = Len(s) /\ Put(s, f)[Len(s)] = f
         /\ \A k \in 1..(Len(s) - 1) : Put(s, f)[k] = s[k]
<1>1. Len(s) \in Nat /\ Len(s) > 0  BY Elements DEF IsSeq
<1>2. /\ IsSeq(Front(s)) /\ Len(Front(s)) = Len(s) - 1
      /\ \A k \in 1..(Len(s) - 1) : Front(s)[k] = s[k]  BY FrontOf
<1>3. /\ IsSeq(Put(s, f)) /\ Len(Put(s, f)) = Len(Front(s)) + 1
      /\ Put(s, f)[Len(Front(s)) + 1] = f
      /\ \A k \in 1..Len(Front(s)) : Put(s, f)[k] = Front(s)[k]  BY <1>2, AppendTo DEF Put
<1> QED  BY <1>1, <1>2, <1>3

-----------------------------------------------------------------------------
(* What a step may do to the frames.                                       *)

LEMMA KeepsStack ==
  ASSUME NEW s, StackInv(s), s # <<>>, NEW f, f = s[Len(s)],
         NEW g, FrameInv(g, Len(s)),
         g.name = f.name, g.type = f.type, g.chain = f.chain, g.qh = f.qh,
         g.chain => \A y \in DOMAIN g.q : \E z \in DOMAIN f.q : g.q[y].addr = f.q[z].addr,
         \A a \in g.serv : \A k \in 1..(Len(s) - 1) : Linked(s, k, Len(s)) => ~ AskedOf(s, k, a),
         \A x \in DOMAIN g.q : g.q[x].done => g.q[x].addr \notin g.serv
  PROVE  StackInv(Put(s, g))
<1> DEFINE L == Len(s)
<1>1. PICK t : t = Put(s, g)  OBVIOUS
<1>2. IsSeq(s) /\ L \in Nat /\ L > 0  BY Elements DEF StackInv, IsSeq
<1>3. IsSeq(t) /\ Len(t) = L /\ t[L] = g /\ \A k \in 1..(L - 1) : t[k] = s[k]
  BY <1>1, <1>2, Replaced
<1> HIDE DEF L
<1>4. \A k \in 1..L : k < L \/ k = L  BY <1>2
<1>5. \A k \in 1..L : t[k].name = s[k].name /\ t[k].type = s[k].type
                      /\ t[k].chain = s[k].chain /\ t[k].qh = s[k].qh
  BY <1>2, <1>3 DEF L
<1>6. \A k, m \in 1..L : Linked(t, k, m) <=> Linked(s, k, m)
  <2> SUFFICES ASSUME NEW k \in 1..L, NEW m \in 1..L  PROVE Linked(t, k, m) <=> Linked(s, k, m)
    OBVIOUS
  <2>1. \A i \in (k + 1)..m : i \in 1..L  BY <1>2
  <2> QED  BY <1>5, <2>1 DEF Linked
<1>7. \A k \in 1..(L - 1) : \A a : AskedOf(t, k, a) <=> AskedOf(s, k, a)  BY <1>3 DEF AskedOf
<1>8. \A k \in 1..L : FrameInv(t[k], k)  BY <1>2, <1>3 DEF StackInv, L
<1>9. Remembered(t)  BY <1>3, <1>5 DEF StackInv, Remembered, L
<1>10. NotRound(t)  BY <1>3, <1>5 DEF StackInv, NotRound, L
<1>11. Collected(t)
  <2> SUFFICES ASSUME NEW k \in 1..L, NEW m \in 1..L, k <= m, Linked(t, k, m), NEW a \in t[m].serv
               PROVE  ~ AskedOf(t, k, a)
    BY <1>3 DEF Collected
  <2>1. Linked(s, k, m)  BY <1>6
  <2>2. CASE m < L
    <3>1. m \in 1..(L - 1) /\ k \in 1..(L - 1)  BY <1>2, <2>2
    <3>2. a \in s[m].serv  BY <1>3, <3>1
    <3>3. ~ AskedOf(s, k, a)  BY <2>1, <3>2 DEF StackInv, Collected, L
    <3> QED  BY <1>7, <3>1, <3>3
  <2>3. CASE m = L /\ k < L
    <3>1. k \in 1..(L - 1)  BY <1>2, <2>3
    <3> QED  BY <1>3, <1>7, <2>1, <2>3, <3>1 DEF L
  <2>4. CASE m = L /\ k = L  BY <1>3, <2>4 DEF AskedOf
  <2> QED  BY <1>2, <2>2, <2>3, <2>4
<1>12. AskedOnce(t)
  <2> SUFFICES ASSUME NEW k \in 1..L, NEW m \in 1..L, k < m, Linked(t, k, m),
                      NEW y \in DOMAIN t[m].q
               PROVE  ~ AskedOf(t, k, t[m].q[y].addr)
    BY <1>3 DEF AskedOnce
  <2>1. Linked(s, k, m) /\ k \in 1..(L - 1)  BY <1>2, <1>6
  <2>2. PICK z \in DOMAIN s[m].q : t[m].q[y].addr = s[m].q[z].addr
    <3>1. CASE m = L
      <4>1. g.chain  BY <1>2, <1>3, <3>1 DEF Linked
      <4> QED  BY <1>3, <3>1, <4>1 DEF L
    <3>2. CASE m < L
      <4>1. m \in 1..(L - 1)  BY <1>2, <3>2
      <4> QED  BY <1>3, <4>1
    <3> QED  BY <1>4, <3>1, <3>2
  <2>3. ~ AskedOf(s, k, s[m].q[z].addr)  BY <2>1 DEF StackInv, AskedOnce, L
  <2> QED  BY <1>7, <2>1, <2>2, <2>3
<1> QED  BY <1>1, <1>3, <1>8, <1>9, <1>10, <1>11, <1>12 DEF StackInv

\* A frame returns.
LEMMA ReturnsStack ==
  ASSUME NEW s, StackInv(s), s # <<>>
  PROVE  StackInv(Front(s))
<1>1. PICK t : t = Front(s)  OBVIOUS
<1>2. IsSeq(s) /\ Len(s) \in Nat /\ Len(s) > 0  BY Elements DEF StackInv, IsSeq
<1>3. IsSeq(t) /\ Len(t) = Len(s) - 1 /\ \A k \in 1..(Len(s) - 1) : t[k] = s[k]
  BY <1>1, <1>2, FrontOf
<1>4. \A k \in 1..Len(t) : k \in 1..Len(s) /\ t[k] = s[k]  BY <1>2, <1>3
<1>5. \A k, m \in 1..Len(t) : Linked(t, k, m) <=> Linked(s, k, m)
  <2> SUFFICES ASSUME NEW k \in 1..Len(t), NEW m \in 1..Len(t)
               PROVE  Linked(t, k, m) <=> Linked(s, k, m)
    OBVIOUS
  <2>1. \A i \in (k + 1)..m : i \in 1..Len(t)  BY <1>2, <1>3
  <2> QED  BY <1>4, <2>1 DEF Linked
<1>6. \A k \in 1..Len(t) : \A a : AskedOf(t, k, a) <=> AskedOf(s, k, a)  BY <1>4 DEF AskedOf
<1>7. \A k \in 1..Len(t) : FrameInv(t[k], k)  BY <1>4 DEF StackInv
<1>8. Remembered(t)  BY <1>4 DEF StackInv, Remembered
<1>9. NotRound(t)  BY <1>4 DEF StackInv, NotRound
<1>10. Collected(t)  BY <1>4, <1>5, <1>6 DEF StackInv, Collected
<1>11. AskedOnce(t)  BY <1>4, <1>5, <1>6 DEF StackInv, AskedOnce
<1> QED  BY <1>1, <1>3, <1>7, <1>8, <1>9, <1>10, <1>11 DEF StackInv

\* A frame is put on top: one that looks for the address of a name server, or one that
\* asks the servers found.
LEMMA AddsFrame ==
  ASSUME NEW s, StackInv(s), s # <<>>, NEW f, f = s[Len(s)],
         NEW h, FrameInv(h, Len(s) + 1), h.serv = {},
         \/ /\ ~ h.chain /\ DOMAIN h.q = {} /\ h.type = "A" /\ ~ Cycle(f, h.name)
            /\ h.qh = f.qh \cup {<<f.name, f.type>>}
         \/ /\ h.chain /\ h.name = f.name /\ h.type = f.type /\ h.qh = f.qh
            /\ \A y \in DOMAIN h.q : h.q[y].addr \in f.serv
  PROVE  StackInv(Append(s, h))
<1> DEFINE L == Len(s)
<1>1. PICK t : t = Append(s, h)  OBVIOUS
<1>2. IsSeq(s) /\ L \in Nat /\ L > 0  BY Elements DEF StackInv, IsSeq
<1>3. IsSeq(t) /\ Len(t) = L + 1 /\ t[L + 1] = h /\ \A k \in 1..L : t[k] = s[k]
  BY <1>1, <1>2, AppendTo
<1>4. f = t[L] /\ f = s[L] /\ L \in 1..L  BY <1>2, <1>3
<1> HIDE DEF L
<1>5. \A k \in 1..(L + 1) : k \in 1..L \/ k = L + 1  BY <1>2
<1>6. \A k \in 1..L, m \in 1..(L + 1) : Linked(t, k, m) =>
        IF m = L + 1 THEN h.chain /\ Linked(s, k, L) ELSE Linked(s, k, m)
  <2> SUFFICES ASSUME NEW k \in 1..L, NEW m \in 1..(L + 1), Linked(t, k, m)
               PROVE  IF m = L + 1 THEN h.chain /\ Linked(s, k, L) ELSE Linked(s, k, m)
    OBVIOUS
  <2>1. CASE m = L + 1
    <3>1. \A i \in (k + 1)..L : i \in (k + 1)..m /\ i \in 1..L  BY <1>2, <2>1
    <3>2. L + 1 \in (k + 1)..m  BY <1>2, <2>1
    <3> QED  BY <1>3, <2>1, <3>1, <3>2 DEF Linked
  <2>2. CASE m # L + 1
    <3>1. \A i \in (k + 1)..m : i \in 1..L  BY <1>2, <2>2
    <3> QED  BY <1>3, <2>2, <3>1 DEF Linked
  <2> QED  BY <2>1, <2>2
<1>7. \A k \in 1..L : \A a : AskedOf(t, k, a) <=> AskedOf(s, k, a)  BY <1>3 DEF AskedOf
<1>8. \A k \in 1..(L + 1) : FrameInv(t[k], k)  BY <1>3, <1>5 DEF StackInv, L
<1>9. Remembered(t)
  <2> SUFFICES ASSUME NEW k \in 1..(L + 1), NEW m \in 1..(L + 1), k < m
               PROVE  <<t[k].name, t[k].type>> \in t[m].qh \cup {<<t[m].name, t[m].type>>}
    BY <1>3 DEF Remembered
  <2>0. k \in 1..L  BY <1>2
  <2>1. CASE m \in 1..L  BY <1>3, <2>0, <2>1 DEF StackInv, Remembered, L
  <2>2. CASE m = L + 1
    <3>1. <<s[k].name, s[k].type>> \in f.qh \cup {<<f.name, f.type>>}
      <4>1. CASE k = L  BY <1>4, <4>1
      <4>2. CASE k # L
        <5>1. k < L /\ k \in 1..L /\ L \in 1..L  BY <1>2, <1>4, <2>0, <4>2
        <5> QED  BY <1>4, <5>1 DEF StackInv, Remembered, L
      <4> QED  BY <4>1, <4>2
    <3>2. f.qh \cup {<<f.name, f.type>>} \subseteq h.qh \cup {<<h.name, h.type>>}  OBVIOUS
    <3> QED  BY <1>3, <2>0, <2>2, <3>1, <3>2
  <2> QED  BY <1>5, <2>1, <2>2
<1>10. NotRound(t)
  <2> SUFFICES ASSUME NEW k \in 1..(L + 1), NEW m \in 1..(L + 1), k < m, ~ t[m].chain,
                      t[k].name = t[m].name, t[k].type = "A", t[m].type = "A"
               PROVE  FALSE
    BY <1>3 DEF NotRound
  <2>0. k \in 1..L  BY <1>2
  <2>1. CASE m \in 1..L  BY <1>3, <2>0, <2>1 DEF StackInv, NotRound, L
  <2>2. CASE m = L + 1
    <3>1. /\ ~ h.chain /\ t[m] = h /\ t[k] = s[k]
          /\ s[k].name = h.name /\ s[k].type = "A"  BY <1>3, <2>0, <2>2
    <3>2. ~ Cycle(f, h.name)  BY <3>1
    <3>3. <<s[k].name, s[k].type>> \in f.qh \cup {<<f.name, f.type>>}
      <4>1. CASE k = L  BY <1>4, <4>1
      <4>2. CASE k # L
        <5>1. k < L /\ k \in 1..L /\ L \in 1..L  BY <1>2, <1>4, <2>0, <4>2
        <5> QED  BY <1>4, <5>1 DEF StackInv, Remembered, L
      <4> QED  BY <4>1, <4>2
    <3>4. f.name # h.name \/ f.type # "A"  BY <3>2 DEF Cycle
    <3>5. <<h.name, "A">> \notin f.qh  BY <3>2 DEF Cycle
    <3>6. <<h.name, "A">> \in f.qh \cup {<<f.name, f.type>>}  BY <3>1, <3>3
    <3> QED  BY <3>4, <3>5, <3>6
  <2> QED  BY <1>5, <2>1, <2>2
<1>11. Collected(t)
  <2> SUFFICES ASSUME NEW k \in 1..(L + 1), NEW m \in 1..(L + 1), k <= m, Linked(t, k, m),
                      NEW a \in t[m].serv
               PROVE  ~ AskedOf(t, k, a)
    BY <1>3 DEF Collected
  <2>1. m \in 1..L /\ k \in 1..L  BY <1>2, <1>3, <1>5
  <2>2. Linked(s, k, m)  BY <1>2, <1>6, <2>1
  <2> QED  BY <1>3, <1>7, <2>1, <2>2 DEF StackInv, Collected, L
<1>12. AskedOnce(t)
  <2> SUFFICES ASSUME NEW k \in 1..(L + 1), NEW m \in 1..(L + 1), k < m, Linked(t, k, m),
                      NEW y \in DOMAIN t[m].q
               PROVE  ~ AskedOf(t, k, t[m].q[y].addr)
    BY <1>3 DEF AskedOnce
  <2>0. k \in 1..L  BY <1>2
  <2>1. CASE m \in 1..L
    <3>0. m # L + 1  BY <1>2, <2>1
    <3>1. Linked(s, k, m)  BY <1>6, <2>0, <3>0
    <3> QED  BY <1>3, <1>7, <2>0, <2>1, <3>1 DEF StackInv, AskedOnce, L
  <2>2. CASE m = L + 1
    <3>1. Linked(s, k, L) /\ h.chain  BY <1>6, <2>0, <2>2
    <3>2. h.q[y].addr \in f.serv  BY <1>3, <2>2, <3>1
    <3>3. k <= L  BY <1>2, <2>0
    <3>4. ~ AskedOf(s, k, h.q[y].addr)
      BY <1>4, <2>0, <3>1, <3>2, <3>3 DEF StackInv, Collected, L
    <3> QED  BY <1>3, <1>7, <2>0, <2>2, <3>4
  <2> QED  BY <1>5, <2>1, <2>2
<1> QED  BY <1>1, <1>3, <1>8, <1>9, <1>10, <1>11, <1>12 DEF StackInv

\* A query begins.
LEMMA FirstFrame ==
  ASSUME NEW h, FrameInv(h, 1), h.serv = {}
  PROVE  StackInv(<<h>>)
<1>1. IsSeq(<<h>>) /\ Len(<<h>>) = 1 /\ <<h>>[1] = h  BY DEF IsSeq
<1>2. \A k \in 1..1 : k = 1  OBVIOUS
<1> QED  BY <1>1, <1>2 DEF StackInv, Remembered, NotRound, Collected, AskedOnce

-----------------------------------------------------------------------------
(* The cache.                                                              *)

LEMMA Entries ==
  /\ \A t, data, root, nopurge : IsEntry(Entry(t, data, root, nopurge))
  /\ IsEntry(Negative)
BY DEF IsEntry, Entry, Negative

\* add_cache makes an entry of entries, and leaves a local one as it is.
LEMMA AddedEntry ==
  ASSUME NEW o, NEW e, o # None => IsEntry(o), IsEntry(e)
  PROVE  /\ IsEntry(Added(o, e))
         /\ o # None /\ o.local => Added(o, e) = o
<1>1. CASE o # None /\ o.local  BY <1>1 DEF Added
<1>2. CASE (o = None \/ o.negative \/ e.negative) /\ ~ (o # None /\ o.local)  BY <1>2 DEF Added
<1>3. CASE ~ (o = None \/ o.negative \/ e.negative) /\ ~ (o # None /\ o.local)
  <2>1. PICK u : u = [t \in DOMAIN NoSets |-> IF e.sets[t] = None THEN o.sets[t] ELSE e.sets[t]]
    OBVIOUS
  <2>2. Added(o, e) = [e EXCEPT !.sets = u]  BY <1>3, <2>1 DEF Added
  <2>3. Added(o, e) = [local |-> e.local, negative |-> e.negative, fresh |-> e.fresh, sets |-> u]
    BY <2>2 DEF IsEntry
  <2> QED  BY <1>3, <2>3 DEF IsEntry
<1> QED  BY <1>1, <1>2, <1>3

LEMMA LocalCached ==
  ASSUME NEW c, CacheInv(c), NEW n \in DOMAIN Local
  PROVE  n \in Names /\ c[n] = Local[n] /\ c[n] # None /\ c[n].local
BY ResolveAssumption DEF CacheInv

LEMMA AddKeeps ==
  ASSUME NEW c, CacheInv(c), NEW n \in Names, NEW e, IsEntry(e)
  PROVE  CacheInv(Add(c, n, e))
<1>1. c[n] # None => IsEntry(c[n])  BY DEF CacheInv
<1>2. IsEntry(Added(c[n], e)) /\ (c[n] # None /\ c[n].local => Added(c[n], e) = c[n])
  BY <1>1, AddedEntry
<1>3. PICK d : d = Add(c, n, e)  OBVIOUS
<1>4. d = [x \in Names |-> IF x = n THEN Added(c[n], e) ELSE c[x]]  BY <1>3 DEF CacheInv, Add
<1>5. \A x \in DOMAIN Local : d[x] = Local[x]
  <2> SUFFICES ASSUME NEW x \in DOMAIN Local  PROVE d[x] = Local[x]  OBVIOUS
  <2>1. x \in Names /\ c[x] = Local[x] /\ c[x] # None /\ c[x].local  BY LocalCached
  <2> QED  BY <1>2, <1>4, <2>1
<1>6. \A x \in Names : d[x] # None => IsEntry(d[x])  BY <1>2, <1>4 DEF CacheInv
<1> QED  BY <1>3, <1>4, <1>5, <1>6 DEF CacheInv

\* So does what p_exec_query caches of a referral.
LEMMA ReferralKeeps ==
  ASSUME NEW c, CacheInv(c), NEW r, NEW root
  PROVE  CacheInv(WithReferral(c, r, root))
<1> DEFINE hosts(d) == {r.ns[k][2] : k \in {k \in DOMAIN r.ns : r.ns[k][1] = d}}
           addrs(h) == {g[2] : g \in {g \in r.glue : g[1] = h}}
           With(o, e, data) == IF data = {} THEN o ELSE Added(o, e)
           First(n) == With(c[n], Entry("NS", hosts(n), root, FALSE), hosts(n))
           Both(n) == With(First(n), Entry("A", addrs(n), FALSE, FALSE), addrs(n))
<1>1. \A o, e, data : (o # None => IsEntry(o)) /\ IsEntry(e) =>
        /\ With(o, e, data) # None => IsEntry(With(o, e, data))
        /\ o # None /\ o.local => With(o, e, data) = o
  BY AddedEntry
<1>2. WithReferral(c, r, root) = [n \in Names |-> Both(n)]  BY DEF WithReferral
<1> HIDE DEF With
<1>3. \A n \in Names : /\ Both(n) # None => IsEntry(Both(n))
                       /\ c[n] # None /\ c[n].local => Both(n) = c[n]
  <2> SUFFICES ASSUME NEW n \in Names
               PROVE  /\ Both(n) # None => IsEntry(Both(n))
                      /\ c[n] # None /\ c[n].local => Both(n) = c[n]
    OBVIOUS
  <2>1. c[n] # None => IsEntry(c[n])  BY DEF CacheInv
  <2>2. /\ First(n) # None => IsEntry(First(n))
        /\ c[n] # None /\ c[n].local => First(n) = c[n]
    BY <1>1, <2>1, Entries
  <2> HIDE DEF First
  <2> QED  BY <1>1, <2>2, Entries
<1> HIDE DEF Both
<1>4. PICK d : d = WithReferral(c, r, root)  OBVIOUS
<1>5. d = [n \in Names |-> Both(n)]  BY <1>2, <1>4
<1>6. \A x \in DOMAIN Local : d[x] = Local[x]
  <2> SUFFICES ASSUME NEW x \in DOMAIN Local  PROVE d[x] = Local[x]  OBVIOUS
  <2>1. x \in Names /\ c[x] = Local[x] /\ c[x] # None /\ c[x].local  BY LocalCached
  <2> QED  BY <1>3, <1>5, <2>1
<1>7. \A n \in Names : d[n] # None => IsEntry(d[n])  BY <1>3, <1>5
<1>8. CacheInv(d)  BY <1>5, <1>6, <1>7 DEF CacheInv
<1> QED  BY <1>4, <1>8

\* Records that age or go are not local ones.
LEMMA AgeKeeps ==
  ASSUME CacheInv(cache), NEW n \in Names, Age(n)
  PROVE  CacheInv(cache')
<1>1. cache[n] # None /\ ~ cache[n].local /\ IsEntry(cache[n])  BY DEF Age, CacheInv
<1>2. IsEntry(Aged(cache[n]))
  <2>1. PICK o : o = cache[n]  OBVIOUS
  <2>2. PICK u : u = [t \in DOMAIN NoSets |-> IF o.sets[t] = None THEN None
                                             ELSE [o.sets[t] EXCEPT !.fresh = FALSE]]
    OBVIOUS
  <2>a. Aged(o) = [o EXCEPT !.fresh = FALSE, !.sets = u]  BY <2>2 DEF Aged
  <2>3. Aged(o) = [local |-> o.local, negative |-> o.negative, fresh |-> FALSE, sets |-> u]
    BY <1>1, <2>1, <2>a DEF IsEntry
  <2>4. o.sets = NoSets => u = NoSets  BY <2>2 DEF NoSets
  <2> QED  BY <1>1, <2>1, <2>3, <2>4 DEF IsEntry
<1>3. PICK e : cache' = [cache EXCEPT ![n] = e] /\ (e # None => IsEntry(e))
  <2>1. CASE \E t \in DOMAIN NoSets : NoPurge(n, t)
    <3>1. cache' = [cache EXCEPT ![n] = Aged(cache[n])]  BY <2>1 DEF Age
    <3> QED  BY <1>2, <3>1
  <2>2. CASE ~ \E t \in DOMAIN NoSets : NoPurge(n, t)
    <3>1. cache' = [cache EXCEPT ![n] = None]  BY <2>2 DEF Age
    <3> QED  BY <3>1
  <2> QED  BY <2>1, <2>2
<1>4. cache' = [x \in Names |-> IF x = n THEN e ELSE cache[x]]  BY <1>3 DEF CacheInv
<1>5. \A x \in DOMAIN Local : cache'[x] = Local[x]
  <2> SUFFICES ASSUME NEW x \in DOMAIN Local  PROVE cache'[x] = Local[x]  OBVIOUS
  <2>1. x \in Names /\ cache[x] = Local[x] /\ cache[x] # None /\ cache[x].local  BY LocalCached
  <2> QED  BY <1>1, <1>4, <2>1
<1>6. \A x \in Names : cache'[x] # None => IsEntry(cache'[x])  BY <1>3, <1>4 DEF CacheInv
<1> QED  BY <1>4, <1>5, <1>6 DEF CacheInv

-----------------------------------------------------------------------------
(* The actions.                                                            *)

LEMMA TopFrame ==
  ASSUME IInv, stack # <<>>
  PROVE  /\ StackInv(stack) /\ Top = stack[Len(stack)] /\ Len(stack) \in Nat /\ Len(stack) > 0
         /\ FrameInv(Top, Len(stack))
BY Elements DEF IInv, StackInv, IsSeq, Top

\* The innermost frame is replaced by one for the same name whose servers are the same,
\* and no more of them are collected.
LEMMA KeepsServers ==
  ASSUME IInv, stack # <<>>, NEW g, FrameInv(g, Len(stack)),
         g.name = Top.name, g.type = Top.type, g.chain = Top.chain, g.qh = Top.qh,
         g.q = Top.q, g.serv \in {{}, Top.serv}
  PROVE  StackInv(Put(stack, g))
<1>1. StackInv(stack) /\ Top = stack[Len(stack)] /\ Len(stack) \in Nat /\ Len(stack) > 0
  BY TopFrame
<1>2. \A a \in g.serv : \A k \in 1..Len(stack) :
        Linked(stack, k, Len(stack)) => ~ AskedOf(stack, k, a)
  <2>1. Len(stack) \in 1..Len(stack) /\ \A k \in 1..Len(stack) : k <= Len(stack)  BY <1>1
  <2>2. \A a \in g.serv : a \in stack[Len(stack)].serv  BY <1>1
  <2> QED  BY <1>1, <2>1, <2>2 DEF StackInv, Collected
<1>3. \A x \in DOMAIN g.q : g.q[x].done => g.q[x].addr \notin g.serv
  <2>1. Len(stack) \in 1..Len(stack) /\ Linked(stack, Len(stack), Len(stack))
    BY <1>1 DEF Linked
  <2> QED  BY <1>1, <1>2, <2>1 DEF AskedOf
<1>4. \A k \in 1..(Len(stack) - 1) : k \in 1..Len(stack)  BY <1>1
<1> QED  BY <1>1, <1>2, <1>3, <1>4, KeepsStack

\* What leaving a frame does.
LEMMA Leaves ==
  ASSUME IInv, stack # <<>>, NEW f, f.name \in Names, NEW rc, NEW e, Leave(f, rc, e),
         rc = "OK" => IsEntry(e)
  PROVE  StackInv(stack') /\ CacheInv(cache') /\ RetInv(ret')
<1>1. CacheInv(cache')  BY AddKeeps DEF Leave, IInv
<1>2. stack' = Front(stack)  BY DEF Leave, Return
<1>3. RetInv(ret')
  <2>1. CASE rc = "SERVFAIL" /\ f.stale # None  BY <2>1 DEF Leave, Return, RetInv
  <2>2. CASE ~ (rc = "SERVFAIL" /\ f.stale # None)  BY <2>2 DEF Leave, Return, RetInv
  <2> QED  BY <2>1, <2>2
<1> QED  BY <1>1, <1>2, <1>3, ReturnsStack DEF IInv

LEMMA ListMade ==
  ASSUME NEW n
  PROVE  /\ IsList(ServersFor(n))
         /\ \A x \in DOMAIN ServersFor(n) : ~ ServersFor(n)[x].done
<1>1. \A a, auth, nocache, nopurge :
        IsServ(Serv(a, auth, nocache, nopurge)) /\ ~ Serv(a, auth, nocache, nopurge).done
  BY DEF IsServ, Serv
<1> HIDE DEF Serv
<1> QED  BY <1>1 DEF ServersFor, IsList

LEMMA LookupKeeps ==
  ASSUME IInv, p_dns_cached_resolve
  PROVE  IInv'
<1> USE DEF In
<1>1. stack # <<>> /\ ret = None /\ Top.pc = "lookup" /\ cache' = cache /\ up' = up
      /\ asked' = asked
  BY DEF p_dns_cached_resolve
<1>2. FrameInv(Top, Len(stack)) /\ StackInv(stack) /\ Len(stack) \in Nat /\ Len(stack) > 0
  BY <1>1, TopFrame
<1>3. StackInv(stack') /\ RetInv(ret')
  <2> DEFINE f == Top
             rc == lookup_cache_status(f.name, f.type)
             q == ServersFor(f.name)
             old == IF NoPurge(f.name, f.type) THEN cache[f.name] ELSE None
             g == [f EXCEPT !.pc = "ask", !.stale = old, !.q = IF f.chain THEN @ ELSE q]
  <2>1. CASE \E x \in {"CACHED", "NAMEERR", "SERVFAIL"} : \E e : Return(x, e)
    <3>1. PICK x, e : x \in {"CACHED", "NAMEERR", "SERVFAIL"} /\ Return(x, e)  BY <2>1
    <3>2. RetInv(ret')  BY <3>1 DEF Return, RetInv
    <3>3. stack' = Front(stack)  BY <3>1 DEF Return
    <3> QED  BY <1>1, <1>2, <3>2, <3>3, ReturnsStack
  <2>2. CASE rc \notin {"OK", "NAMEERR"} /\ Keep(g) /\ ret' = ret
    <3> DEFINE L == Len(stack)
    <3> HIDE DEF q, old, rc
    <3>1. /\ g.name = f.name /\ g.type = f.type /\ g.chain = f.chain /\ g.qh = f.qh
          /\ g.serv = {} /\ g.q = IF f.chain THEN f.q ELSE q
      BY <1>1, <1>2 DEF FrameInv, IsFrame, Shape
    <3>2. IsList(g.q)  BY <1>2, <3>1, ListMade DEF FrameInv, IsFrame, q
    <3>3. g.name \notin DOMAIN Local
      <4> SUFFICES ASSUME g.name \in DOMAIN Local  PROVE FALSE  OBVIOUS
      <4>1. cache[f.name] # None /\ cache[f.name].local  BY <3>1, LocalCached DEF IInv
      <4> QED  BY <2>2, <4>1 DEF rc, lookup_cache_status
    <3>4. FrameInv(g, L)
      <4>1. /\ Shape(g)
            /\ g.hops = f.hops /\ g.ns = f.ns /\ g.serv = f.serv /\ g.pc = "ask" /\ g.rc = f.rc
        <5>1. PICK h : h = f  OBVIOUS
        <5>2. PICK w : w = IF f.chain THEN f.q ELSE q  OBVIOUS
        <5>3. g = [h EXCEPT !.pc = "ask", !.stale = old, !.q = w]  BY <5>1, <5>2
        <5>4. g = [name |-> h.name, type |-> h.type, hops |-> h.hops, pc |-> "ask", q |-> w,
                   chain |-> h.chain, qh |-> h.qh, ns |-> h.ns, serv |-> h.serv,
                   saved |-> h.saved, rc |-> h.rc, stale |-> old, nocache |-> h.nocache,
                   nopurge |-> h.nopurge, refer |-> h.refer]
          <6> HIDE DEF g
          <6> QED  BY <1>2, <5>1, <5>3 DEF FrameInv, IsFrame, Shape
        <5> HIDE DEF g
        <5> QED  BY <5>1, <5>4 DEF Shape
      <4> HIDE DEF g
      <4> QED  BY <1>1, <1>2, <3>1, <3>2, <3>3, <4>1 DEF FrameInv, IsFrame
    <3>5. g.chain => \A y \in DOMAIN g.q : \E z \in DOMAIN f.q : g.q[y].addr = f.q[z].addr
      BY <3>1
    <3>6. stack' = Put(stack, g)  BY <2>2 DEF Keep, Put
    <3>7. f = stack[Len(stack)]  BY DEF Top
    <3> HIDE DEF g, f
    <3>8. StackInv(Put(stack, g))  BY <1>1, <1>2, <3>1, <3>4, <3>5, <3>7, KeepsStack
    <3> QED  BY <1>1, <2>2, <3>6, <3>8 DEF RetInv
  <2>3. \/ \E x \in {"CACHED", "NAMEERR", "SERVFAIL"} : \E e : Return(x, e)
        \/ rc \notin {"OK", "NAMEERR"} /\ Keep(g) /\ ret' = ret
    BY DEF p_dns_cached_resolve
  <2> QED  BY <2>1, <2>2, <2>3
<1> QED  BY <1>1, <1>3 DEF IInv

\* The frame after a server was asked: only its mark is new.
LEMMA DoneFrame ==
  ASSUME NEW f, IsFrame(f), NEW k \in DOMAIN f.q, NEW g, g = Done(f, k)
  PROVE  /\ IsFrame(g) /\ g.name = f.name /\ g.type = f.type /\ g.chain = f.chain
         /\ g.qh = f.qh /\ g.hops = f.hops /\ g.ns = f.ns /\ g.serv = f.serv /\ g.pc = f.pc
         /\ DOMAIN g.q = DOMAIN f.q /\ \A x \in DOMAIN f.q : g.q[x].addr = f.q[x].addr
<1>1. PICK s : s = [f.q[k] EXCEPT !.done = TRUE]  OBVIOUS
<1>2. IsServ(s) /\ s.addr = f.q[k].addr
  <2>1. IsServ(f.q[k])  BY DEF IsFrame, IsList
  <2>2. PICK o : o = f.q[k]  OBVIOUS
  <2>3. s = [addr |-> o.addr, auth |-> o.auth, nocache |-> o.nocache,
             nopurge |-> o.nopurge, done |-> TRUE]
    BY <1>1, <2>1, <2>2 DEF IsServ
  <2> QED  BY <2>2, <2>3 DEF IsServ
<1>3. PICK w : w = [f.q EXCEPT ![k] = s]  OBVIOUS
<1>4. IsList(w) /\ DOMAIN w = DOMAIN f.q /\ \A x \in DOMAIN f.q : w[x].addr = f.q[x].addr
  <2>1. PICK p : p = f.q  OBVIOUS
  <2>2. IsList(p) /\ k \in DOMAIN p  BY <2>1 DEF IsFrame
  <2>3. w = [x \in DOMAIN p |-> IF x = k THEN s ELSE p[x]]  BY <1>3, <2>1, <2>2 DEF IsList
  <2>4. DOMAIN w = DOMAIN p /\ \A x \in DOMAIN p : w[x] = IF x = k THEN s ELSE p[x]  BY <2>3
  <2>5. \A x \in DOMAIN w : IsServ(w[x])  BY <1>2, <2>2, <2>4 DEF IsList
  <2>6. w = [x \in DOMAIN w |-> w[x]]  BY <2>3, <2>4
  <2>7. IsList(w)  BY <2>5, <2>6 DEF IsList
  <2> QED  BY <1>2, <2>1, <2>4, <2>7
<1>5. g = [f EXCEPT !.q = w, !.nocache = f.q[k].nocache, !.nopurge = f.q[k].nopurge]
  BY <1>1, <1>3 DEF Done, IsFrame, Shape, IsList
<1>6. PICK a, b : g = [f EXCEPT !.q = w, !.nocache = a, !.nopurge = b]  BY <1>5
<1>7. g = [name |-> f.name, type |-> f.type, hops |-> f.hops, pc |-> f.pc, q |-> w,
           chain |-> f.chain, qh |-> f.qh, ns |-> f.ns, serv |-> f.serv, saved |-> f.saved,
           rc |-> f.rc, stale |-> f.stale, nocache |-> a, nopurge |-> b, refer |-> f.refer]
  BY <1>6 DEF IsFrame, Shape
<1>8. Shape(g)  BY <1>7 DEF Shape
<1> QED  BY <1>4, <1>7, <1>8 DEF IsFrame

\* A frame that has no servers collected goes on, whatever was answered.
LEMMA AfterAnswer ==
  ASSUME IInv, stack # <<>>, Top.pc = "ask", NEW k \in DOMAIN Top.q,
         NEW g, g = Done(Top, k), NEW h, Shape(h), h.rc # "OK",
         h.name = g.name, h.type = g.type, h.chain = g.chain, h.qh = g.qh, h.q = g.q,
         h.hops = g.hops, h.serv = {}, h.pc \in {"ask", "answered", "nxdomain", "auth_ok"},
         h.ns = g.ns \/ h.ns = <<>> \/ (h.hops > 0 /\ h.ns \in Seq(Names \X Names))
  PROVE  StackInv(Put(stack, h))
<1>1. PICK f : f = Top  OBVIOUS
<1>2. FrameInv(f, Len(stack)) /\ StackInv(stack) /\ f = stack[Len(stack)]  BY <1>1, TopFrame
<1>3. /\ IsFrame(g) /\ g.name = f.name /\ g.type = f.type /\ g.chain = f.chain /\ g.qh = f.qh
      /\ g.hops = f.hops /\ g.ns = f.ns
      /\ DOMAIN g.q = DOMAIN f.q /\ \A x \in DOMAIN f.q : g.q[x].addr = f.q[x].addr
  <2>1. IsFrame(f) /\ k \in DOMAIN f.q /\ g = Done(f, k)  BY <1>1, <1>2 DEF FrameInv
  <2> QED  BY <2>1, DoneFrame
<1>4. FrameInv(h, Len(stack))
  <2>1. h.ns \in Seq(Names \X Names) /\ (h.ns # <<>> => h.hops > 0)
    <3>1. f.ns \in Seq(Names \X Names) /\ (f.ns # <<>> => f.hops > 0)
      BY <1>2 DEF FrameInv, IsFrame
    <3>2. CASE h.ns = g.ns  BY <1>3, <3>1, <3>2
    <3>3. CASE h.ns = <<>>
      <4>1. <<>> \in Seq(Names \X Names)  OBVIOUS
      <4> QED  BY <3>3, <4>1
    <3> QED  BY <3>2, <3>3
  <2>2. IsFrame(h)  BY <1>3, <2>1 DEF IsFrame
  <2> QED  BY <1>1, <1>2, <1>3, <2>1, <2>2 DEF FrameInv
<1>5. \A y \in DOMAIN h.q : \E z \in DOMAIN f.q : h.q[y].addr = f.q[z].addr  BY <1>3
<1>6. h.name = f.name /\ h.type = f.type /\ h.chain = f.chain /\ h.qh = f.qh  BY <1>3
<1> QED  BY <1>2, <1>4, <1>5, <1>6, KeepsStack

LEMMA AskKeeps ==
  ASSUME IInv, stack # <<>>, NEW k \in DOMAIN Top.q, Ask(k)
  PROVE  IInv'
<1>1. PICK f, g : f = Top /\ g = Done(Top, k)  OBVIOUS
<1>2. /\ Top.pc = "ask" /\ ret' = ret /\ up' = up
      /\ asked' = asked \cup {<<f.name, f.q[k].addr>>}
  BY <1>1 DEF Ask, In
<1>3. FrameInv(f, Len(stack)) /\ StackInv(stack) /\ k \in DOMAIN f.q  BY <1>1, TopFrame
<1>4. /\ IsFrame(g) /\ g.name = f.name /\ g.hops = f.hops /\ g.ns = f.ns /\ g.serv = {}
      /\ g.pc = "ask"
  <2>1. IsFrame(f) /\ g = Done(f, k) /\ f.serv = {}  BY <1>1, <1>2, <1>3 DEF FrameInv
  <2> QED  BY <1>1, <1>2, <1>3, <2>1, DoneFrame
<1>5. NoneLocal(asked')
  <2>1. f.name \notin DOMAIN Local  BY <1>1, <1>2, <1>3 DEF FrameInv
  <2> QED  BY <1>2, <2>1 DEF NoneLocal, IInv
<1>6. PICK r \in Replies(f.q[k].addr, f.name) :
        \/ /\ r.kind = "answer" /\ UNCHANGED cache
           /\ Keep([g EXCEPT !.pc = "answered", !.refer = r])
        \/ r.kind = "nxdomain" /\ Keep([g EXCEPT !.pc = "nxdomain"]) /\ UNCHANGED cache
        \/ r.kind = "error" /\ Keep([g EXCEPT !.rc = r.rc]) /\ UNCHANGED cache
        \/ /\ r.kind = "refer" /\ cache' = WithReferral(cache, r, f.q[k].auth = 3)
           /\ Keep([g EXCEPT !.pc = "auth_ok", !.refer = r, !.serv = {},
                             !.ns = NameServers(f, r)])
  BY <1>1 DEF Ask
<1>7. /\ r.kind = "refer" => r.ns \in Seq(Names \X Names)
      /\ r.kind = "error" => r.rc # "OK"
  <2>1. f.name \in Names  BY <1>3 DEF FrameInv, IsFrame
  <2>2. CASE f.q[k].addr \in DOMAIN World  BY <1>6, <2>1, <2>2, ResolveAssumption DEF Replies
  <2>3. CASE f.q[k].addr \notin DOMAIN World  BY <1>6, <2>3 DEF Replies
  <2> QED  BY <2>2, <2>3
<1>8. CacheInv(cache')
  <2>1. CASE cache' = cache  BY <2>1 DEF IInv
  <2>2. CASE cache' = WithReferral(cache, r, f.q[k].auth = 3)  BY <2>2, ReferralKeeps DEF IInv
  <2> QED  BY <1>6, <2>1, <2>2
<1>9. PICK h : /\ stack' = Put(stack, h) /\ Shape(h) /\ h.rc # "OK" /\ h.name = g.name
               /\ h.type = g.type /\ h.chain = g.chain /\ h.qh = g.qh /\ h.q = g.q
               /\ h.hops = g.hops /\ h.serv = {}
               /\ h.pc \in {"ask", "answered", "nxdomain", "auth_ok"}
               /\ h.ns = g.ns \/ h.ns = <<>> \/ (h.hops > 0 /\ h.ns \in Seq(Names \X Names))
  <2> DEFINE Next1(h) ==
               /\ stack' = Put(stack, h) /\ Shape(h) /\ h.rc # "OK" /\ h.name = g.name
               /\ h.type = g.type /\ h.chain = g.chain /\ h.qh = g.qh /\ h.q = g.q
               /\ h.hops = g.hops /\ h.serv = {}
               /\ h.pc \in {"ask", "answered", "nxdomain", "auth_ok"}
               /\ h.ns = g.ns \/ h.ns = <<>> \/ (h.hops > 0 /\ h.ns \in Seq(Names \X Names))
  <2> SUFFICES \E h : Next1(h)  OBVIOUS
  <2>0. Shape(g) /\ g.rc # "OK" /\ g.serv = {} /\ g.pc = "ask"  BY <1>4 DEF IsFrame
  <2>1. CASE r.kind = "answer" /\ Keep([g EXCEPT !.pc = "answered", !.refer = r])
    <3>1. PICK h : h = [g EXCEPT !.pc = "answered", !.refer = r]  OBVIOUS
    <3>2. h = [name |-> g.name, type |-> g.type, hops |-> g.hops, pc |-> "answered",
               q |-> g.q, chain |-> g.chain, qh |-> g.qh, ns |-> g.ns, serv |-> g.serv,
               saved |-> g.saved, rc |-> g.rc, stale |-> g.stale, nocache |-> g.nocache,
               nopurge |-> g.nopurge, refer |-> r]
      BY <2>0, <3>1 DEF Shape
    <3>3. stack' = Put(stack, h)  BY <2>1, <3>1 DEF Keep, Put
    <3>4. Shape(h)  BY <3>2 DEF Shape
    <3>5. Next1(h)  BY <2>0, <3>2, <3>3, <3>4
    <3> QED  BY <3>5
  <2>2. CASE r.kind = "nxdomain" /\ Keep([g EXCEPT !.pc = "nxdomain"])
    <3>1. PICK h : h = [g EXCEPT !.pc = "nxdomain"]  OBVIOUS
    <3>2. h = [name |-> g.name, type |-> g.type, hops |-> g.hops, pc |-> "nxdomain",
               q |-> g.q, chain |-> g.chain, qh |-> g.qh, ns |-> g.ns, serv |-> g.serv,
               saved |-> g.saved, rc |-> g.rc, stale |-> g.stale, nocache |-> g.nocache,
               nopurge |-> g.nopurge, refer |-> g.refer]
      BY <2>0, <3>1 DEF Shape
    <3>3. stack' = Put(stack, h)  BY <2>2, <3>1 DEF Keep, Put
    <3>4. Shape(h)  BY <3>2 DEF Shape
    <3>5. Next1(h)  BY <2>0, <3>2, <3>3, <3>4
    <3> QED  BY <3>5
  <2>3. CASE r.kind = "error" /\ Keep([g EXCEPT !.rc = r.rc])
    <3>1. PICK h, c : h = [g EXCEPT !.rc = c] /\ c = r.rc  OBVIOUS
    <3>2. h = [name |-> g.name, type |-> g.type, hops |-> g.hops, pc |-> g.pc,
               q |-> g.q, chain |-> g.chain, qh |-> g.qh, ns |-> g.ns, serv |-> g.serv,
               saved |-> g.saved, rc |-> c, stale |-> g.stale, nocache |-> g.nocache,
               nopurge |-> g.nopurge, refer |-> g.refer]
      BY <2>0, <3>1 DEF Shape
    <3>3. stack' = Put(stack, h) /\ c # "OK"  BY <1>7, <2>3, <3>1 DEF Keep, Put
    <3>4. Shape(h)  BY <3>2 DEF Shape
    <3>5. Next1(h)  BY <2>0, <3>2, <3>3, <3>4
    <3> QED  BY <3>5
  <2>4. CASE /\ r.kind = "refer"
             /\ Keep([g EXCEPT !.pc = "auth_ok", !.refer = r, !.serv = {},
                               !.ns = NameServers(f, r)])
    <3>1. PICK h, l : h = [g EXCEPT !.pc = "auth_ok", !.refer = r, !.serv = {}, !.ns = l]
                      /\ l = NameServers(f, r)
      OBVIOUS
    <3>2. h = [name |-> g.name, type |-> g.type, hops |-> g.hops, pc |-> "auth_ok",
               q |-> g.q, chain |-> g.chain, qh |-> g.qh, ns |-> l, serv |-> {},
               saved |-> g.saved, rc |-> g.rc, stale |-> g.stale, nocache |-> g.nocache,
               nopurge |-> g.nopurge, refer |-> r]
      BY <2>0, <3>1 DEF Shape
    <3>3. stack' = Put(stack, h)  BY <2>4, <3>1 DEF Keep, Put
    <3>4. l = <<>> \/ (g.hops > 0 /\ l \in Seq(Names \X Names))
      BY <1>4, <1>7, <2>4, <3>1 DEF NameServers
    <3>5. Shape(h)  BY <3>2 DEF Shape
    <3>6. Next1(h)  BY <2>0, <3>2, <3>3, <3>4, <3>5
    <3> QED  BY <3>6
  <2> QED  BY <1>6, <2>1, <2>2, <2>3, <2>4
<1>10. StackInv(stack')  BY <1>1, <1>2, <1>9, AfterAnswer
<1> QED  BY <1>2, <1>5, <1>8, <1>10 DEF IInv

LEMMA PushKeeps ==
  ASSUME IInv, stack # <<>>, NEW g, FrameInv(g, Len(stack)),
         g.name = Top.name, g.type = Top.type, g.chain = Top.chain, g.qh = Top.qh,
         g.q = Top.q, g.serv = Top.serv,
         NEW h, FrameInv(h, Len(stack) + 1), h.serv = {},
         \/ /\ ~ h.chain /\ DOMAIN h.q = {} /\ h.type = "A" /\ ~ Cycle(g, h.name)
            /\ h.qh = g.qh \cup {<<g.name, g.type>>}
         \/ /\ h.chain /\ h.name = g.name /\ h.type = g.type /\ h.qh = g.qh
            /\ \A y \in DOMAIN h.q : h.q[y].addr \in g.serv
  PROVE  StackInv(Append(Put(stack, g), h))
<1>1. StackInv(Put(stack, g))
  <2>1. g.serv \in {{}, Top.serv}  OBVIOUS
  <2> QED  BY <2>1, KeepsServers
<1>2. PICK s : s = Put(stack, g)  OBVIOUS
<1>3. Len(s) = Len(stack) /\ s[Len(s)] = g /\ StackInv(s) /\ s # <<>>
  <2>1. IsSeq(stack) /\ Len(stack) > 0  BY TopFrame DEF StackInv
  <2>2. Len(Put(stack, g)) = Len(stack) /\ Put(stack, g)[Len(stack)] = g  BY <2>1, Replaced
  <2>3. Len(<<>>) = 0  OBVIOUS
  <2> QED  BY <1>1, <1>2, <2>1, <2>2, <2>3
<1>4. FrameInv(h, Len(s) + 1)  BY <1>3
<1>5. StackInv(Append(s, h))  BY <1>3, <1>4, AddsFrame
<1> QED  BY <1>2, <1>5

LEMMA NewFrame ==
  ASSUME NEW n \in Names, NEW t, NEW hops \in Nat, NEW q, IsList(q), NEW chain, NEW qh, NEW k,
         hops = MAX_HOPS + 1 - k
  PROVE  FrameInv(Frame(n, t, hops, q, chain, qh), k)
<1>1. Shape(Frame(n, t, hops, q, chain, qh))  BY DEF Frame, Shape
<1>2. <<>> \in Seq(Names \X Names)  OBVIOUS
<1> QED  BY <1>1, <1>2 DEF FrameInv, IsFrame, Frame

LEMMA NextNSKeeps ==
  ASSUME IInv, NextNS
  PROVE  IInv'
<1>1. PICK f, n : f = Top /\ n = Head(f.ns)[2]  OBVIOUS
<1>2. stack # <<>> /\ f.pc = "auth_ok" /\ f.ns # <<>> /\ UNCHANGED <<ret, cache, asked, up>>
  BY <1>1 DEF NextNS, In
<1>3. FrameInv(f, Len(stack)) /\ Len(stack) \in Nat /\ Len(stack) > 0  BY <1>1, <1>2, TopFrame
<1>4. /\ Shape(f) /\ f.name \in Names /\ f.hops \in Nat /\ f.hops > 0
      /\ f.ns \in Seq(Names \X Names) /\ f.hops = MAX_HOPS + 1 - Len(stack)
  BY <1>2, <1>3 DEF FrameInv, IsFrame
<1>5. n \in Names /\ Tail(f.ns) \in Seq(Names \X Names)  BY <1>1, <1>2, <1>4
<1>6. StackInv(stack')
  <2>1. CASE Cycle(f, n)
    <3>1. PICK g, l : g = [f EXCEPT !.ns = l] /\ l = Tail(f.ns)  OBVIOUS
    <3>2. stack' = Put(stack, g)  BY <1>1, <2>1, <3>1 DEF NextNS, Keep, Put
    <3>3. g = [name |-> f.name, type |-> f.type, hops |-> f.hops, pc |-> f.pc,
               q |-> f.q, chain |-> f.chain, qh |-> f.qh, ns |-> l, serv |-> f.serv,
               saved |-> f.saved, rc |-> f.rc, stale |-> f.stale, nocache |-> f.nocache,
               nopurge |-> f.nopurge, refer |-> f.refer]
      BY <1>4, <3>1 DEF Shape
    <3>4. Shape(g)  BY <3>3 DEF Shape
    <3>5. FrameInv(g, Len(stack))
      BY <1>2, <1>3, <1>4, <1>5, <3>1, <3>3, <3>4 DEF FrameInv, IsFrame
    <3> QED  BY <1>1, <1>2, <3>2, <3>3, <3>5, KeepsServers
  <2>2. CASE ~ Cycle(f, n)
    <3>1. PICK g : g = [f EXCEPT !.pc = "address"]  OBVIOUS
    <3>2. PICK h : h = Frame(n, "A", f.hops - 1, <<>>, FALSE, f.qh \cup {<<f.name, f.type>>})
      OBVIOUS
    <3>3. stack' = Append(Put(stack, g), h)  BY <1>1, <2>2, <3>1, <3>2 DEF NextNS, Push, Put
    <3>4. g = [name |-> f.name, type |-> f.type, hops |-> f.hops, pc |-> "address",
               q |-> f.q, chain |-> f.chain, qh |-> f.qh, ns |-> f.ns, serv |-> f.serv,
               saved |-> f.saved, rc |-> f.rc, stale |-> f.stale, nocache |-> f.nocache,
               nopurge |-> f.nopurge, refer |-> f.refer]
      BY <1>4, <3>1 DEF Shape
    <3>5. Shape(g)  BY <3>4 DEF Shape
    <3>6. FrameInv(g, Len(stack))  BY <1>2, <1>3, <1>4, <3>4, <3>5 DEF FrameInv, IsFrame
    <3>7. FrameInv(h, Len(stack) + 1)
      <4>1. f.hops - 1 \in Nat /\ f.hops - 1 = MAX_HOPS + 1 - (Len(stack) + 1)
        BY <1>3, <1>4, ResolveAssumption
      <4>2. IsList(<<>>)  BY DEF IsList
      <4> QED  BY <1>5, <3>2, <4>1, <4>2, NewFrame
    <3>8. /\ h.serv = {} /\ ~ h.chain /\ DOMAIN h.q = {} /\ h.type = "A" /\ h.name = n
          /\ h.qh = g.qh \cup {<<g.name, g.type>>}
      BY <3>2, <3>4 DEF Frame
    <3>9. ~ Cycle(g, h.name)  BY <2>2, <3>4, <3>8 DEF Cycle
    <3> QED  BY <1>1, <1>2, <3>3, <3>4, <3>6, <3>7, <3>8, <3>9, PushKeeps
  <2> QED  BY <2>1, <2>2
<1> QED  BY <1>2, <1>6 DEF IInv

LEMMA UsedOf ==
  ASSUME NEW a, a \notin Used, NEW k \in 1..Len(stack), Linked(stack, k, Len(stack))
  PROVE  ~ AskedOf(stack, k, a)
BY DEF Used, Linked, AskedOf

LEMMA AddressKeeps ==
  ASSUME IInv, Address
  PROVE  IInv'
<1>1. PICK f : f = Top  OBVIOUS
<1>2. /\ stack # <<>> /\ f.pc = "address" /\ ret' = None /\ UNCHANGED <<cache, asked, up>>
  BY <1>1 DEF Address
<1>3. /\ FrameInv(f, Len(stack)) /\ Len(stack) \in Nat /\ Len(stack) > 0 /\ StackInv(stack)
      /\ f = stack[Len(stack)]
  BY <1>1, <1>2, TopFrame
<1>4. /\ Shape(f) /\ f.hops > 0 /\ f.ns \in Seq(Names \X Names) /\ f.ns # <<>>
  BY <1>2, <1>3 DEF FrameInv, IsFrame
<1>5. PICK l : l = Tail(f.ns) /\ l \in Seq(Names \X Names)
  <2>1. Tail(f.ns) \in Seq(Names \X Names)  BY <1>4
  <2> QED  BY <2>1
<1>6. PICK e : e = [f EXCEPT !.pc = "auth_ok", !.ns = l]  OBVIOUS
<1>7. e = [name |-> f.name, type |-> f.type, hops |-> f.hops, pc |-> "auth_ok",
           q |-> f.q, chain |-> f.chain, qh |-> f.qh, ns |-> l, serv |-> f.serv,
           saved |-> f.saved, rc |-> f.rc, stale |-> f.stale, nocache |-> f.nocache,
           nopurge |-> f.nopurge, refer |-> f.refer]
  BY <1>4, <1>6 DEF Shape
<1>8. PICK g, v : /\ g = [e EXCEPT !.serv = v] /\ stack' = Put(stack, g)
                  /\ \A a \in v : a \in f.serv \/ a \notin Used
  <2>1. CASE ret.rc \in {"OK", "CACHED", "STALE"}
    <3>1. PICK v : v = f.serv \cup (Addresses(ret.ent) \ Used)  OBVIOUS
    <3>2. AddServers(e, Addresses(ret.ent)) = [e EXCEPT !.serv = v]
      BY <1>7, <3>1 DEF AddServers
    <3>3. PICK g : g = [e EXCEPT !.serv = v]  OBVIOUS
    <3>4. stack' = Put(stack, g)
      BY <1>1, <1>5, <1>6, <2>1, <3>2, <3>3 DEF Address, Keep, Put
    <3> QED  BY <3>1, <3>3, <3>4
  <2>2. CASE ret.rc \notin {"OK", "CACHED", "STALE"}
    <3>1. stack' = Put(stack, e)  BY <1>1, <1>5, <1>6, <2>2 DEF Address, Keep, Put
    <3>2. PICK v : v = f.serv  OBVIOUS
    <3>3. e = [e EXCEPT !.serv = v]  BY <1>7, <3>2
    <3> QED  BY <3>1, <3>2, <3>3
  <2> QED  BY <2>1, <2>2
<1>10. g = [name |-> f.name, type |-> f.type, hops |-> f.hops, pc |-> "auth_ok",
            q |-> f.q, chain |-> f.chain, qh |-> f.qh, ns |-> l, serv |-> v,
            saved |-> f.saved, rc |-> f.rc, stale |-> f.stale, nocache |-> f.nocache,
            nopurge |-> f.nopurge, refer |-> f.refer]
  BY <1>7, <1>8
<1>11. FrameInv(g, Len(stack))
  <2>1. Shape(g)  BY <1>10 DEF Shape
  <2> QED  BY <1>2, <1>3, <1>4, <1>5, <1>10, <2>1 DEF FrameInv, IsFrame
<1>12. \A a \in g.serv : \A k \in 1..Len(stack) :
         Linked(stack, k, Len(stack)) => ~ AskedOf(stack, k, a)
  <2> SUFFICES ASSUME NEW a \in g.serv, NEW k \in 1..Len(stack), Linked(stack, k, Len(stack))
               PROVE  ~ AskedOf(stack, k, a)
    OBVIOUS
  <2>1. CASE a \in f.serv
    <3>1. k <= Len(stack) /\ Len(stack) \in 1..Len(stack)  BY <1>3
    <3> QED  BY <1>3, <2>1, <3>1 DEF StackInv, Collected
  <2>2. CASE a \notin Used  BY <2>2, UsedOf
  <2> QED  BY <1>8, <1>10, <2>1, <2>2
<1>13. \A x \in DOMAIN g.q : g.q[x].done => g.q[x].addr \notin g.serv
  <2>1. Len(stack) \in 1..Len(stack) /\ Linked(stack, Len(stack), Len(stack))
    BY <1>3 DEF Linked
  <2>2. g.q = stack[Len(stack)].q  BY <1>3, <1>10
  <2> QED  BY <1>12, <2>1, <2>2 DEF AskedOf
<1>14. StackInv(Put(stack, g))
  <2>1. \A k \in 1..(Len(stack) - 1) : k \in 1..Len(stack)  BY <1>3
  <2>2. \A y \in DOMAIN g.q : \E z \in DOMAIN f.q : g.q[y].addr = f.q[z].addr  BY <1>10
  <2>3. g.name = f.name /\ g.type = f.type /\ g.chain = f.chain /\ g.qh = f.qh  BY <1>10
  <2> QED  BY <1>2, <1>3, <1>11, <1>12, <1>13, <2>1, <2>2, <2>3, KeepsStack
<1>15. RetInv(ret')  BY <1>2 DEF RetInv
<1> QED  BY <1>2, <1>8, <1>14, <1>15 DEF IInv

LEMMA AfterNSKeeps ==
  ASSUME IInv, AfterNS
  PROVE  IInv'
<1>1. PICK f : f = Top  OBVIOUS
<1>2. stack # <<>> /\ f.pc = "auth_ok" /\ f.ns = <<>> /\ UNCHANGED <<ret, cache, asked, up>>
  BY <1>1 DEF AfterNS, In
<1>3. FrameInv(f, Len(stack)) /\ Len(stack) \in Nat /\ Len(stack) > 0  BY <1>1, <1>2, TopFrame
<1>4. /\ Shape(f) /\ f.name \in Names /\ f.hops \in Nat
      /\ f.hops = MAX_HOPS + 1 - Len(stack)
  BY <1>2, <1>3 DEF FrameInv, IsFrame
<1>5. StackInv(stack')
  <2>1. CASE f.serv # {}
    <3>1. PICK g, h : /\ g = [f EXCEPT !.pc = "authority"]
                      /\ h = Frame(f.name, f.type, f.hops - 1, Found(f), TRUE, f.qh)
      OBVIOUS
    <3>2. stack' = Append(Put(stack, g), h)  BY <1>1, <2>1, <3>1 DEF AfterNS, Push, Put
    <3>3. g = [name |-> f.name, type |-> f.type, hops |-> f.hops, pc |-> "authority",
               q |-> f.q, chain |-> f.chain, qh |-> f.qh, ns |-> f.ns, serv |-> f.serv,
               saved |-> f.saved, rc |-> f.rc, stale |-> f.stale, nocache |-> f.nocache,
               nopurge |-> f.nopurge, refer |-> f.refer]
      BY <1>4, <3>1 DEF Shape
    <3>4. Shape(g)  BY <3>3 DEF Shape
    <3>5. FrameInv(g, Len(stack))  BY <1>2, <1>3, <1>4, <3>3, <3>4 DEF FrameInv, IsFrame
    <3>6. IsList(Found(f)) /\ \A y \in DOMAIN Found(f) : Found(f)[y].addr \in f.serv
      <4>1. \A a, np : IsServ(Serv(a, 2, FALSE, np)) /\ Serv(a, 2, FALSE, np).addr = a
        BY DEF IsServ, Serv
      <4>2. Found(f) = [x \in {0} \X f.serv |-> Serv(x[2], 2, FALSE, f.nopurge)]  BY DEF Found
      <4>3. \A x \in {0} \X f.serv : x[2] \in f.serv  OBVIOUS
      <4>4. PICK w : w = Found(f)  OBVIOUS
      <4>5. /\ DOMAIN w = {0} \X f.serv /\ w = [x \in DOMAIN w |-> w[x]]
            /\ \A x \in DOMAIN w : w[x] = Serv(x[2], 2, FALSE, f.nopurge)
        BY <4>2, <4>4
      <4>6. \A x \in DOMAIN w : IsServ(w[x]) /\ w[x].addr \in f.serv
        <5> SUFFICES ASSUME NEW x \in {0} \X f.serv  PROVE IsServ(w[x]) /\ w[x].addr \in f.serv
          BY <4>5
        <5>1. w[x] = Serv(x[2], 2, FALSE, f.nopurge)  BY <4>5
        <5>2. IsServ(w[x]) /\ w[x].addr = x[2]  BY ZenonT(40), <4>1, <5>1
        <5>3. x[2] \in f.serv  BY <4>3
        <5> QED  BY <5>2, <5>3
      <4> QED  BY <4>4, <4>5, <4>6 DEF IsList
    <3>7. FrameInv(h, Len(stack) + 1)
      <4>1. f.hops > 0  BY <1>3, <2>1 DEF FrameInv
      <4>2. f.hops - 1 \in Nat /\ f.hops - 1 = MAX_HOPS + 1 - (Len(stack) + 1)
        BY <1>3, <1>4, <4>1, ResolveAssumption
      <4> QED  BY <1>4, <3>1, <3>6, <4>2, NewFrame
    <3>8. /\ h.serv = {} /\ h.chain /\ h.name = g.name /\ h.type = g.type /\ h.qh = g.qh
          /\ h.q = Found(f)
      BY <3>1, <3>3 DEF Frame
    <3>9. \A y \in DOMAIN h.q : h.q[y].addr \in g.serv  BY <3>3, <3>6, <3>8
    <3> QED  BY <1>1, <1>2, <3>2, <3>3, <3>5, <3>7, <3>8, <3>9, PushKeeps
  <2>2. CASE f.serv = {}
    <3>1. PICK w : w = IF f.saved = None THEN [nocache |-> f.nocache, nopurge |-> f.nopurge]
                       ELSE f.saved
      OBVIOUS
    <3>2. PICK g : g = [f EXCEPT !.pc = "ask", !.saved = w]  OBVIOUS
    <3>3. stack' = Put(stack, g)
      <4>1. g = [f EXCEPT !.pc = "ask", !.saved =
                   IF @ = None THEN [nocache |-> f.nocache, nopurge |-> f.nopurge] ELSE @]
        BY <1>4, <3>1, <3>2
      <4> QED  BY <1>1, <2>2, <4>1 DEF AfterNS, Keep, Put
    <3>4. g = [name |-> f.name, type |-> f.type, hops |-> f.hops, pc |-> "ask",
               q |-> f.q, chain |-> f.chain, qh |-> f.qh, ns |-> f.ns, serv |-> f.serv,
               saved |-> w, rc |-> f.rc, stale |-> f.stale, nocache |-> f.nocache,
               nopurge |-> f.nopurge, refer |-> f.refer]
      BY <1>4, <3>2 DEF Shape
    <3>5. Shape(g)  BY <3>4 DEF Shape
    <3>6. FrameInv(g, Len(stack))
      BY <1>2, <1>3, <1>4, <2>2, <3>4, <3>5 DEF FrameInv, IsFrame
    <3> QED  BY <1>1, <1>2, <3>3, <3>4, <3>6, KeepsServers
  <2> QED  BY <2>1, <2>2
<1> QED  BY <1>2, <1>5 DEF IInv

LEMMA TopName ==
  ASSUME IInv, stack # <<>>
  PROVE  Top.name \in Names /\ Top.rc # "OK" /\ Shape(Top)
BY TopFrame DEF FrameInv, IsFrame

LEMMA AnsweredKeeps ==
  ASSUME IInv, Answered
  PROVE  IInv'
<1>1. stack # <<>> /\ UNCHANGED <<asked, up>>  BY DEF Answered, In
<1>2. PICK e : IsEntry(e) /\ Leave(Top, "OK", e)  BY Entries DEF Answered
<1>3. StackInv(stack') /\ CacheInv(cache') /\ RetInv(ret')  BY <1>1, <1>2, TopName, Leaves
<1> QED  BY <1>1, <1>3 DEF IInv

LEMMA NxdomainKeeps ==
  ASSUME IInv, Nxdomain
  PROVE  IInv'
<1>1. stack # <<>> /\ UNCHANGED <<asked, up>>  BY DEF Nxdomain, In
<1>2. PICK rc, e : (rc = "OK" => IsEntry(e)) /\ Leave(Top, rc, e)
  <2>1. Leave(Top, "OK", Negative) \/ Leave(Top, "NAMEERR", None)  BY DEF Nxdomain
  <2>2. "NAMEERR" # "OK" /\ IsEntry(Negative)  BY Entries
  <2> QED  BY <2>1, <2>2
<1>3. StackInv(stack') /\ CacheInv(cache') /\ RetInv(ret')  BY <1>1, <1>2, TopName, Leaves
<1> QED  BY <1>1, <1>3 DEF IInv

LEMMA ExhaustedKeeps ==
  ASSUME IInv, Exhausted
  PROVE  IInv'
<1>1. stack # <<>> /\ UNCHANGED <<asked, up>>  BY DEF Exhausted, In
<1>2. PICK f, rc, e : f.name \in Names /\ (rc = "OK" => IsEntry(e)) /\ Leave(f, rc, e)
  <2>1. CASE Top.saved = None
    <3>1. Leave(Top, Top.rc, None)  BY <2>1 DEF Exhausted
    <3>2. Top.name \in Names /\ Top.rc # "OK"  BY <1>1, TopName
    <3> QED  BY <3>1, <3>2
  <2>2. CASE Top.saved # None
    <3>1. PICK f, e : /\ f = [Top EXCEPT !.nocache = Top.saved.nocache] /\ IsEntry(e)
                      /\ Leave(f, "OK", e)
      BY <2>2, Entries DEF Exhausted
    <3>2. PICK v : f = [Top EXCEPT !.nocache = v]  BY <3>1
    <3>3. f.name = Top.name
      <4>1. PICK g : g = Top  OBVIOUS
      <4>2. Shape(g) /\ f = [g EXCEPT !.nocache = v]  BY <1>1, <3>2, <4>1, TopName
      <4>3. f.name = g.name  BY <4>2 DEF Shape
      <4> QED  BY <4>1, <4>3
    <3>4. f.name \in Names  BY <1>1, <3>3, TopName
    <3> QED  BY <3>1, <3>4
  <2> QED  BY <2>1, <2>2
<1>3. StackInv(stack') /\ CacheInv(cache') /\ RetInv(ret')  BY <1>1, <1>2, Leaves
<1> QED  BY <1>1, <1>3 DEF IInv

LEMMA AuthorityKeeps ==
  ASSUME IInv, Authority
  PROVE  IInv'
<1>1. stack # <<>> /\ ret # None /\ UNCHANGED <<asked, up>>  BY DEF Authority
<1>2. PICK rc, e : (rc = "OK" => IsEntry(e)) /\ Leave(Top, rc, e)
  <2>1. CASE ret.rc \in {"OK", "CACHED", "NAMEERR"} \/ ~ Top.refer.claims
    <3>1. Leave(Top, ret.rc, ret.ent)  BY <2>1 DEF Authority
    <3>2. ret.rc = "OK" => IsEntry(ret.ent)  BY <1>1 DEF IInv, RetInv
    <3> QED  BY <3>1, <3>2
  <2>2. CASE ~ (ret.rc \in {"OK", "CACHED", "NAMEERR"} \/ ~ Top.refer.claims)
    BY <2>2, Entries DEF Authority
  <2> QED  BY <2>1, <2>2
<1>3. StackInv(stack') /\ CacheInv(cache') /\ RetInv(ret')  BY <1>1, <1>2, TopName, Leaves
<1> QED  BY <1>1, <1>3 DEF IInv

LEMMA QueryKeeps ==
  ASSUME IInv, NEW x \in Queries, Query(x)
  PROVE  IInv'
<1>1. PICK h : h = Frame(x[1], x[2], MAX_HOPS, <<>>, FALSE, {}) /\ stack' = <<h>>
  BY DEF Query
<1>2. FrameInv(h, 1)
  <2>1. x[1] \in Names /\ MAX_HOPS \in Nat  BY ResolveAssumption
  <2>2. IsList(<<>>) /\ MAX_HOPS = MAX_HOPS + 1 - 1  BY <2>1 DEF IsList
  <2> QED  BY <1>1, <2>1, <2>2, NewFrame
<1>3. h.serv = {}  BY <1>1 DEF Frame
<1>4. StackInv(stack')  BY <1>1, <1>2, <1>3, FirstFrame
<1>5. ret' = None /\ asked' = {} /\ UNCHANGED <<cache, up>>  BY DEF Query
<1> QED  BY <1>4, <1>5 DEF IInv, RetInv, NoneLocal

LEMMA FlipKeeps ==
  ASSUME IInv, NEW k \in Sections, Flip(k)
  PROVE  IInv'
<1>1. up' = [up EXCEPT ![k] = ~ up[k]] /\ UNCHANGED <<stack, ret, cache, asked>>  BY DEF Flip
<1>2. up' \in [Sections -> BOOLEAN]  BY <1>1 DEF IInv
<1> QED  BY <1>1, <1>2 DEF IInv

-----------------------------------------------------------------------------
(* The theorems.                                                           *)

LEMMA InitIInv == Init => IInv
<1> SUFFICES ASSUME Init  PROVE IInv  OBVIOUS
<1>1. StackInv(stack)
  <2>1. stack = <<>> /\ Len(stack) = 0  BY DEF Init
  <2>2. \A k \in 1..0 : FALSE  OBVIOUS
  <2> QED  BY <2>1, <2>2 DEF StackInv, IsSeq, Remembered, NotRound, Collected, AskedOnce
<1>2. CacheInv(cache)  BY ResolveAssumption DEF Init, CacheInv
<1>3. RetInv(ret) /\ NoneLocal(asked) /\ up \in [Sections -> BOOLEAN]
  BY DEF Init, RetInv, NoneLocal
<1> QED  BY <1>1, <1>2, <1>3 DEF IInv

LEMMA NextIInv == IInv /\ [Next]_vars => IInv'
<1> SUFFICES ASSUME IInv, [Next]_vars  PROVE IInv'  OBVIOUS
<1>1. CASE p_dns_cached_resolve  BY <1>1, LookupKeeps
<1>2. CASE NextNS  BY <1>2, NextNSKeeps
<1>3. CASE Address  BY <1>3, AddressKeeps
<1>4. CASE AfterNS  BY <1>4, AfterNSKeeps
<1>5. CASE Answered  BY <1>5, AnsweredKeeps
<1>6. CASE Nxdomain  BY <1>6, NxdomainKeeps
<1>7. CASE Exhausted  BY <1>7, ExhaustedKeeps
<1>8. CASE Authority  BY <1>8, AuthorityKeeps
<1>9. CASE stack # <<>> /\ \E k \in DOMAIN Top.q : Ask(k)  BY <1>9, AskKeeps
<1>10. CASE \E x \in Queries : Query(x)  BY <1>10, QueryKeeps
<1>11. CASE \E n \in Names : Age(n)
  <2>1. PICK n \in Names : Age(n)  BY <1>11
  <2>2. CacheInv(cache') /\ UNCHANGED <<stack, ret, up, asked>>  BY <2>1, AgeKeeps DEF IInv, Age
  <2> QED  BY <2>2 DEF IInv
<1>12. CASE \E k \in Sections : Flip(k)  BY <1>12, FlipKeeps
<1>13. CASE UNCHANGED vars  BY <1>13 DEF vars, IInv
<1> QED
  BY <1>1, <1>2, <1>3, <1>4, <1>5, <1>6, <1>7, <1>8, <1>9, <1>10, <1>11, <1>12, <1>13
  DEF Next, Step

\* The invariant holds of every state the resolver can be in.
THEOREM Invariance == Spec => []IInv
BY InitIInv, NextIInv, PTL DEF Spec

LEMMA Recursion == IInv => NoCircle
<1> SUFFICES ASSUME IInv  PROVE NoCircle  OBVIOUS
<1>1. StackInv(stack)  BY DEF IInv
<1>2. DOMAIN stack = 1..Len(stack)  BY <1>1 DEF StackInv, IsSeq
<1>3. TypeOK
  <2>1. \A k \in DOMAIN stack : stack[k].name \in Names
    BY <1>1, <1>2 DEF StackInv, FrameInv, IsFrame
  <2>2. /\ DOMAIN cache = Names
        /\ \A n \in Names : cache[n] # None /\ cache[n].negative => cache[n].sets = NoSets
    BY DEF IInv, CacheInv, IsEntry
  <2> QED  BY <2>1, <2>2 DEF TypeOK, IInv
<1>4. HopsLeft  BY <1>1, <1>2 DEF HopsLeft, StackInv, FrameInv
<1>5. NoCycle  BY <1>1, <1>2 DEF NoCycle, StackInv, NotRound
<1> QED  BY <1>3, <1>4, <1>5 DEF NoCircle

LEMMA AskedServers == IInv => NotAskedTwice
<1> SUFFICES ASSUME IInv, NEW k \in DOMAIN stack, NEW m \in DOMAIN stack, k < m,
                    \A i \in (k + 1)..m : stack[i].chain,
                    NEW x \in DOMAIN stack[k].q, NEW y \in DOMAIN stack[m].q, stack[k].q[x].done
             PROVE  stack[k].q[x].addr # stack[m].q[y].addr
  BY DEF NotAskedTwice
<1>1. AskedOnce(stack) /\ DOMAIN stack = 1..Len(stack)  BY DEF IInv, StackInv, IsSeq
<1>2. ~ AskedOf(stack, k, stack[m].q[y].addr)  BY <1>1 DEF AskedOnce, Linked
<1> QED  BY <1>2 DEF AskedOf

\* The recursion of p_dns_cached_resolve and auth_ok goes down, hop by hop, and never
\* looks for an address it is looking for further out, whatever servers refer to.
THEOREM RecursionEnds == Spec => []NoCircle
BY Invariance, Recursion, PTL

\* However deep that goes, no more than MAX_HOPS + 1 frames are ever on the C stack.
THEOREM DepthBounded == Spec => [](Len(stack) <= MAX_HOPS + 1)
<1>1. IInv => Len(stack) <= MAX_HOPS + 1
  <2> SUFFICES ASSUME IInv  PROVE Len(stack) <= MAX_HOPS + 1  OBVIOUS
  <2>1. Len(stack) \in Nat /\ StackInv(stack)  BY DEF IInv, StackInv, IsSeq
  <2>2. CASE Len(stack) = 0  BY <2>2, ResolveAssumption
  <2>3. CASE Len(stack) > 0
    <3>1. Len(stack) \in 1..Len(stack)  BY <2>1, <2>3
    <3>2. PICK h : h \in Nat /\ h = MAX_HOPS + 1 - Len(stack)
      BY <2>1, <3>1 DEF StackInv, FrameInv
    <3> QED  BY <2>1, <3>2, ResolveAssumption
  <2> QED  BY <2>1, <2>2, <2>3
<1> QED  BY <1>1, Invariance, PTL

\* auth_ok does not take up a server for a name that one of the lists the query came
\* from has asked already.
THEOREM ServersAskedOnce == Spec => []NotAskedTwice
BY Invariance, AskedServers, PTL

\* What the configuration defines is never asked for, and no answer, referral or
\* timed out record replaces it in the cache.
THEOREM LocalStays == Spec => []LocalFirst
<1>1. IInv => LocalFirst  BY DEF IInv, LocalFirst, NoneLocal, CacheInv
<1> QED  BY <1>1, Invariance, PTL

-----------------------------------------------------------------------------
(* A query of the servers (PdnsdQuery).                                    *)

Bit(b) == IF b THEN 1 ELSE 0

Pcs == {"batch", "init", "exec", "received", "returned", "poll", "events", "timeout",
        "cancel", "authority", "ended"}

\* A query to a server is under way: its state is between the waits.
Underway == {"exec", "received", "returned"}

Closing == {"cancel", "authority", "ended"}

Sorts == {Sorted[i][f][r] : i \in Servers, f \in {0, 1, 3}, r \in Messages}

(***************************************************************************)
(* The state of one server.                                                *)

Methods4 == {"UDP_ONLY", "TCP_ONLY", "UDP_TCP", "TCP_UDP"}

StType ==
  [state : States, qm : Methods4, rd : BOOLEAN, edns : BOOLEAN, opt : BOOLEAN, needs : 0..2,
   failed : {0, 1, 3}, aa : BOOLEAN, tc : BOOLEAN, ra : BOOLEAN, unreachable : BOOLEAN,
   moved : BOOLEAN, sock : {"open", "closed"}, msg : {"null", "live", "dead"},
   buf : {"null", "live", "dead", "refreed"}]

LoopType ==
  [pc : Pcs, at : {"init", "events", "timeout"}, i : 0..N, j : 0..(N - 1), dc : 0..N,
   mc : 0..N, ready : SUBSET Servers, udp : BOOLEAN]

\* What it owns, by its state; read tells that a message has just come.
Owns(s, read) ==
  IF s.state \in Waiting \cup {"TCPINITIAL", "UDPINITIAL"}
  THEN /\ s.sock = (IF s.state \in Waiting THEN "open" ELSE "closed")
       /\ s.msg = "live" /\ s.buf \in {"null", "live"}
  ELSE /\ s.sock = "closed"
       /\ IF read THEN s.msg = "live" /\ s.buf = "live"
                  ELSE s.msg \in {"null", "dead"} /\ s.buf \in {"null", "dead", "refreed"}

\* The queries that may still be sent to it: over the transport it is at, without
\* recursion, over the other transport, without EDNS.
Remaining(s) ==
  (IF s.state = "INITIAL" THEN 2
   ELSE IF s.state \in {"TCPINITIAL", "UDPINITIAL", "TCPWRITE"} THEN 1 + Bit(s.rd)
   ELSE Bit(s.rd))
  + (IF s.qm = "UDP_TCP" THEN 2 ELSE IF s.qm = "TCP_UDP" THEN 1 ELSE 0)
  + Bit(s.edns)

\* A message of server i has been read.
HasRead(i) == loop.pc = "received" /\ loop.i = i

TypeInv ==
  /\ st \in [Servers -> StType] /\ loop \in LoopType
  /\ sent \in [Servers -> Nat] /\ tests \in [Servers -> {"none", "up", "down", "test"}]
  /\ alive \in [ent : Nat, ns : Nat]

ServerInv ==
  \A i \in Servers :
    /\ Owns(st[i], HasRead(i))
    /\ (st[i].opt => st[i].edns) /\ sent[i] + Remaining(st[i]) <= 5
    /\ tests[i] = "up" => st[i].needs = 0

(***************************************************************************)
(* Where the loops are.                                                    *)

\* Server i has been called in this or an earlier batch.
Started(i) ==
  /\ loop.pc # "batch"
  /\ IF loop.at = "init"
     THEN i < loop.j \/ i < loop.i \/ (i = loop.i /\ loop.pc \in {"received", "returned"})
     ELSE i < loop.mc

LoopInv ==
  /\ loop.dc <= loop.mc
  /\ loop.pc = "batch" => loop.at = "init" /\ loop.i = 0 /\ loop.j = 0 /\ loop.mc = 0
  /\ loop.pc \notin {"batch", "cancel", "authority", "ended"} =>
       /\ loop.mc = (IF loop.j + ParQueries > N THEN N ELSE loop.j + ParQueries)
       /\ loop.i <= loop.mc
  /\ loop.pc \in {"init", "events", "timeout"} => loop.at = loop.pc
  /\ loop.pc \in {"init", "events"} => loop.dc <= loop.i
  /\ loop.pc = "poll" /\ loop.at = "init" => loop.i = loop.mc
  /\ loop.pc \in Underway =>
       /\ loop.dc <= loop.i /\ loop.i < loop.mc
       /\ loop.at = "init" => loop.j <= loop.i

\* No server is between the waits but the one in hand, and only servers that are not
\* done at the front are waited for.
ProgressInv ==
  /\ \A i \in Servers :
       /\ st[i].state \in {"TCPINITIAL", "UDPINITIAL"} => loop.pc = "exec" /\ loop.i = i
       /\ loop.pc \in Closing \/ (loop.pc = "exec" /\ loop.i = i) \/ (st[i].state = "INITIAL" <=> ~ Started(i))
       /\ st[i].state \in Waiting =>
            /\ loop.dc <= i /\ i < loop.mc /\ loop.pc \notin {"authority", "ended"}
       /\ st[i].state = "CANCELED" => loop.pc \in {"authority", "ended"}
       /\ st[i].needs = 2 =>
            IF loop.pc \in {"authority", "ended"} THEN tests[i] = "test"
            ELSE i < loop.mc /\ (loop.pc # "cancel" /\ loop.at = "init" => i < loop.j)
  /\ loop.pc = "received" => st[loop.i].state = "DONE"
  /\ loop.pc = "returned" /\ rv # "again" => st[loop.i].state = "DONE"

\* Every event of poll is of a server the loop has yet to come to.
EventInv ==
  loop.at = "events" /\ loop.pc \in Underway \cup {"events"} =>
    \A i \in loop.ready : /\ i \in Servers /\ loop.i <= i /\ i < loop.mc
                          /\ loop.pc # "events" => loop.i # i
                          /\ st[i].state \in Waiting

(***************************************************************************)
(* The answers.                                                            *)

Returned == loop.pc = "returned" /\ rv = "OK"

\* An answer of a server with a reject list holds nothing of it.
Clean(x) == Kind[x.s].rejects => \A y \in x.own : ~ y.bad

AnswerInv ==
  /\ saved # Nothing => /\ saved \in Outcome /\ Clean(saved)
                        /\ saved.q \in quals /\ \A q \in quals : q <= saved.q
  /\ saved = Nothing /\ loop.pc \notin Closing => quals = {}
  /\ quals \subseteq Int
  /\ answer # Nothing => answer \in Outcome /\ Clean(answer) /\ loop.pc \in Closing
  /\ loop.pc = "cancel" /\ answer # Nothing => saved = Nothing /\ rv = "OK"
  /\ rv = "OK" /\ loop.pc \notin {"returned", "authority", "ended"} =>
       saved # Nothing \/ answer # Nothing
  /\ rv \in {"CACHED", "STALE"} => loop.pc = "ended"
  /\ loop.pc = "authority" => /\ rv = "OK" /\ answer # Nothing
                              /\ saved # Nothing => answer = saved
  /\ loop.pc = "received" => reply \in Messages
  /\ Returned => /\ reply \in Sorts
                 /\ Kind[loop.i].rejects => \A y \in reply.own : ~ y.bad
  /\ \A x \in added : Kind[x[1]].rejects => ~ x[2].bad

\* Entries and lists of name servers are each held once.
AliveInv ==
  LET kept == saved # Nothing /\ loop.pc \notin {"authority", "ended"}
      used == answer # Nothing
  IN  loop.pc # "ended" =>
        /\ alive.ent = Bit(Returned) + Bit(kept) + Bit(used)
        /\ alive.ns = Bit(Returned /\ reply.ns # {}) + Bit(kept /\ saved.ns)
                      + Bit(used /\ answer.ns)

EndInv ==
  loop.pc = "ended" =>
    alive = [ent |-> IF rv \in {"OK", "CACHED", "STALE"} THEN 1 ELSE 0, ns |-> 0]

QueryInv ==
  /\ TypeInv /\ ServerInv /\ LoopInv /\ ProgressInv /\ EventInv /\ AnswerInv /\ AliveInv /\ EndInv

-----------------------------------------------------------------------------
(* What happens to one server.                                             *)

\* The server in hand.
LEMMA InHand ==
  ASSUME QueryAssumption, QueryInv, loop.pc \in Underway
  PROVE  /\ loop.i \in Servers /\ st[loop.i] \in StType /\ loop.i \in 0..N
         /\ Owns(st[loop.i], HasRead(loop.i)) /\ (st[loop.i].opt => st[loop.i].edns)
         /\ sent[loop.i] \in Nat /\ sent[loop.i] + Remaining(st[loop.i]) <= 5
         /\ (tests[loop.i] = "up" => st[loop.i].needs = 0)
<1>1. loop.i \in 0..N /\ loop.mc \in 0..N /\ loop.i < loop.mc
  BY DEF QueryInv, TypeInv, LoopType, LoopInv
<1>2. loop.i \in Servers
  BY <1>1, QueryAssumption DEF Servers
<1>. QED BY <1>1, <1>2 DEF QueryInv, TypeInv, ServerInv

\* Nothing but the state of server loop.i changes, to t, and where p_exec_query is, to p.
Handles(t, p) ==
  /\ st' = [st EXCEPT ![loop.i] = t]
  /\ loop' = [loop EXCEPT !.pc = p]

\* What p_query_sm and p_exec_query leave as they should.
Fits(t, p) ==
  /\ t \in StType /\ Owns(t, p = "received")
  /\ t.opt => t.edns
  /\ t.needs = 2 => st[loop.i].needs = 2
  /\ t.state # "CANCELED"
  /\ t.state \in {"INITIAL", "TCPINITIAL", "UDPINITIAL"} => p = "exec"
  /\ p = "received" => t.state = "DONE"
  /\ p = "returned" /\ rv' # "again" => t.state = "DONE"

\* sent counts the k queries sent, one or none, and what may follow is bounded.
Counts(t, k) ==
  /\ sent' = IF k = 0 THEN sent ELSE [sent EXCEPT ![loop.i] = @ + 1]
  /\ sent[loop.i] + k + Remaining(t) <= 5

Told(t) ==
  \/ UNCHANGED tests /\ (st[loop.i].needs = 0 => t.needs = 0)
  \/ tests' = [tests EXCEPT ![loop.i] = "down"] /\ t.needs = 0
  \/ tests' = [tests EXCEPT ![loop.i] = "up"] /\ t.needs = 0

LEMMA ServerKept ==
  ASSUME QueryAssumption, QueryInv, loop.pc \in Underway, NEW t, NEW p \in Underway,
         NEW k \in {0, 1}, Handles(t, p), Fits(t, p), Counts(t, k), Told(t)
  PROVE  /\ st' \in [Servers -> StType] /\ loop' \in LoopType
         /\ sent' \in [Servers -> Nat] /\ tests' \in [Servers -> {"none", "up", "down", "test"}]
         /\ ServerInv' /\ LoopInv' /\ ProgressInv' /\ EventInv'
<1>1. /\ loop.i \in Servers /\ t \in StType /\ loop \in LoopType
      /\ loop' = [loop EXCEPT !.pc = p] /\ p \in Pcs
  BY InHand DEF Fits, Handles, Underway, Pcs, QueryInv, TypeInv
<1>2. /\ st \in [Servers -> StType] /\ sent \in [Servers -> Nat]
      /\ tests \in [Servers -> {"none", "up", "down", "test"}]
  BY DEF QueryInv, TypeInv
<1>3. st' \in [Servers -> StType] /\ st'[loop.i] = t /\ \A i \in Servers \ {loop.i} : st'[i] = st[i]
  BY <1>1, <1>2 DEF Handles
<1>4. /\ sent' \in [Servers -> Nat] /\ \A i \in Servers \ {loop.i} : sent'[i] = sent[i]
      /\ sent'[loop.i] = sent[loop.i] + k
  BY <1>1, <1>2 DEF Counts
<1>5. /\ tests' \in [Servers -> {"none", "up", "down", "test"}]
      /\ \A i \in Servers \ {loop.i} : tests'[i] = tests[i]
      /\ tests'[loop.i] = "up" => t.needs = 0
  BY <1>1, <1>2, InHand DEF Told
<1>6. /\ loop' \in LoopType /\ loop'.pc = p
      /\ UNCHANGED <<loop.at, loop.i, loop.j, loop.dc, loop.mc, loop.ready>>
  BY <1>1 DEF LoopType
<1>7. ServerInv'
  <2>1. ASSUME NEW i \in Servers \ {loop.i}
        PROVE  /\ Owns(st'[i], HasRead(i)') /\ (st'[i].opt => st'[i].edns)
               /\ sent'[i] + Remaining(st'[i]) <= 5 /\ (tests'[i] = "up" => st'[i].needs = 0)
    <3>1. ~ HasRead(i) /\ ~ HasRead(i)'
      BY <1>6 DEF HasRead
    <3>2. Owns(st[i], HasRead(i)) /\ (st[i].opt => st[i].edns)
          /\ sent[i] + Remaining(st[i]) <= 5 /\ (tests[i] = "up" => st[i].needs = 0)
      BY DEF QueryInv, ServerInv
    <3>. QED BY <3>1, <3>2, <1>3, <1>4, <1>5 DEF Owns
  <2>2. /\ Owns(st'[loop.i], HasRead(loop.i)') /\ (st'[loop.i].opt => st'[loop.i].edns)
        /\ sent'[loop.i] + Remaining(st'[loop.i]) <= 5
        /\ (tests'[loop.i] = "up" => st'[loop.i].needs = 0)
    <3>1. HasRead(loop.i)' <=> p = "received"
      BY <1>6 DEF HasRead
    <3>. QED BY <3>1, <1>3, <1>4, <1>5 DEF Fits, Counts, Owns
  <2>. QED BY <2>1, <2>2, <1>6 DEF ServerInv
<1>8. LoopInv'
  BY <1>6 DEF QueryInv, LoopInv, Underway
<1>9. loop.pc \notin Closing /\ p \notin Closing /\ p # "batch" /\ loop.pc # "batch"
  BY DEF Underway, Closing
<1>10. ProgressInv'
  <2>1. ASSUME NEW i \in Servers \ {loop.i}
        PROVE  /\ st[i].state \notin {"TCPINITIAL", "UDPINITIAL", "CANCELED"}
               /\ st[i].state = "INITIAL" <=> ~ Started(i)
               /\ st[i].state \in Waiting => loop.dc <= i /\ i < loop.mc
               /\ st[i].needs = 2 => i < loop.mc /\ (loop.at = "init" => i < loop.j)
               /\ Started(i)' <=> Started(i)
    BY <1>6, <1>9 DEF QueryInv, ProgressInv, Started, Closing, Underway
  <2>2. /\ loop.dc <= loop.i /\ loop.i < loop.mc
        /\ st[loop.i].needs = 2 /\ loop.at = "init" => loop.i < loop.j
    BY <1>1, <1>9 DEF QueryInv, ProgressInv, LoopInv, Closing
  <2>3. /\ t.state \in {"INITIAL", "TCPINITIAL", "UDPINITIAL"} => p = "exec"
        /\ t.state # "CANCELED" /\ (t.needs = 2 => st[loop.i].needs = 2)
        /\ p = "received" => t.state = "DONE"
        /\ p = "returned" /\ rv' # "again" => t.state = "DONE"
    BY DEF Fits
  <2>4. ASSUME NEW i \in Servers
        PROVE  /\ st'[i].state \in {"TCPINITIAL", "UDPINITIAL"} => p = "exec" /\ loop.i = i
               /\ (p = "exec" /\ loop.i = i) \/ (st'[i].state = "INITIAL" <=> ~ Started(i)')
               /\ st'[i].state \in Waiting => loop.dc <= i /\ i < loop.mc
               /\ st'[i].state # "CANCELED"
               /\ st'[i].needs = 2 => i < loop.mc /\ (loop.at = "init" => i < loop.j)
    <3>1. CASE i = loop.i
      <4>1. st'[i] = t /\ (p # "exec" => Started(i)')
        BY <1>1, <1>3, <1>6, <1>9, <2>2, <3>1 DEF Started, Underway
      <4>2. t.state \in Waiting => loop.dc <= i /\ i < loop.mc
        BY <2>2, <3>1
      <4>3. t.needs = 2 => i < loop.mc /\ (loop.at = "init" => i < loop.j)
        BY <2>2, <2>3, <3>1
      <4>. QED BY <2>3, <3>1, <4>1, <4>2, <4>3
    <3>2. CASE i # loop.i
      BY <1>3, <2>1, <3>2
    <3>. QED BY <3>1, <3>2
  <2>5. /\ p = "received" => st'[loop.i].state = "DONE"
        /\ p = "returned" /\ rv' # "again" => st'[loop.i].state = "DONE"
    BY <1>3, <2>3
  <2>. QED BY <1>6, <1>9, <2>4, <2>5 DEF ProgressInv, Closing
<1>11. EventInv'
  BY <1>1, <1>3, <1>6 DEF QueryInv, EventInv, Underway
<1>. QED BY <1>3, <1>4, <1>5, <1>6, <1>7, <1>8, <1>10, <1>11

\* The answers so far are not touched.
LEMMA AnswersKept ==
  ASSUME QueryInv, loop.pc \in {"exec", "received"}, NEW p \in Underway,
         loop' = [loop EXCEPT !.pc = p],
         UNCHANGED <<saved, answer, alive, quals, added>>,
         p = "received" => reply' \in Messages,
         IF p = "returned" THEN rv' \notin {"OK", "CACHED", "STALE"} ELSE rv' = rv
  PROVE  AnswerInv' /\ AliveInv' /\ EndInv' /\ alive' \in [ent : Nat, ns : Nat]
<1>1. loop \in LoopType /\ loop'.pc = p /\ loop'.i = loop.i /\ p \in Pcs
  BY DEF QueryInv, TypeInv, LoopType, Underway, Pcs
<1>2. ~ Returned' /\ ~ Returned /\ p \notin Closing /\ loop.pc \notin Closing
  BY <1>1 DEF Returned, Underway, Closing
<1>3. AnswerInv'
  BY <1>1, <1>2 DEF QueryInv, AnswerInv, Clean, Closing, Underway
<1>4. AliveInv'
  BY <1>1, <1>2 DEF QueryInv, AliveInv, Closing, Underway, Bit
<1>5. EndInv'
  BY <1>1, <1>2 DEF EndInv, Closing
<1>. QED BY <1>3, <1>4, <1>5 DEF QueryInv, TypeInv

LEMMA Handled ==
  ASSUME QueryAssumption, QueryInv, loop.pc \in {"exec", "received"}, NEW t, NEW p \in Underway,
         NEW k \in {0, 1}, Handles(t, p), Fits(t, p), Counts(t, k), Told(t),
         UNCHANGED <<saved, answer, alive, quals, added>>,
         p = "received" => reply' \in Messages,
         IF p = "returned" THEN rv' \notin {"OK", "CACHED", "STALE"} ELSE rv' = rv
  PROVE  QueryInv'
<1>1. loop.pc \in Underway
  BY DEF Underway
<1>2. loop' = [loop EXCEPT !.pc = p]
  BY DEF Handles
<1>3. /\ st' \in [Servers -> StType] /\ loop' \in LoopType
      /\ sent' \in [Servers -> Nat] /\ tests' \in [Servers -> {"none", "up", "down", "test"}]
      /\ ServerInv' /\ LoopInv' /\ ProgressInv' /\ EventInv'
  BY <1>1, ServerKept
<1>4. AnswerInv' /\ AliveInv' /\ EndInv' /\ alive' \in [ent : Nat, ns : Nat]
  BY <1>2, AnswersKept
<1>. QED BY <1>3, <1>4 DEF QueryInv, TypeInv

-----------------------------------------------------------------------------
(* p_query_sm.                                                             *)

\* s is the server in hand but for where it is and what it owns.
Alike(s) ==
  LET o == st[loop.i]
  IN  s \in StType /\ s.qm = o.qm /\ s.rd = o.rd /\ s.edns = o.edns /\ s.opt = o.opt
      /\ s.needs = o.needs

LEMMA Exec ==
  ASSUME QueryAssumption, QueryInv, loop.pc = "exec"
  PROVE  /\ loop.pc \in Underway /\ loop.i \in Servers /\ st[loop.i] \in StType
         /\ Owns(st[loop.i], FALSE) /\ (st[loop.i].opt => st[loop.i].edns)
         /\ sent \in [Servers -> Nat] /\ sent[loop.i] \in Nat
         /\ sent[loop.i] + Remaining(st[loop.i]) <= 5
<1>1. ~ HasRead(loop.i) /\ loop.pc \in Underway
  BY DEF HasRead, Underway
<1>. QED BY <1>1, InHand DEF Owns, QueryInv, TypeInv

LEMMA Few ==
  ASSUME NEW s \in StType
  PROVE  Remaining(s) \in Nat
BY DEF Remaining, Bit

\* With k queries sent there are k less to come.
LEMMA Spent ==
  ASSUME QueryAssumption, QueryInv, loop.pc = "exec", NEW t \in StType, NEW k \in {0, 1},
         k + Remaining(t) <= Remaining(st[loop.i]),
         sent' = IF k = 0 THEN sent ELSE [sent EXCEPT ![loop.i] = @ + 1]
  PROVE  Counts(t, k)
<1>1. /\ Remaining(t) \in Nat /\ Remaining(st[loop.i]) \in Nat /\ sent[loop.i] \in Nat
      /\ sent[loop.i] + Remaining(st[loop.i]) <= 5
  BY Exec, Few
<1>2. sent[loop.i] + k + Remaining(t) <= 5
  BY <1>1
<1>. QED BY <1>2 DEF Counts

LEMMA AgainKept ==
  ASSUME QueryAssumption, QueryInv, loop.pc = "exec", NEW t, Again(t), Alike(t),
         t.state \in Waiting, Owns(t, FALSE), NEW k \in {0, 1}, Counts(t, k)
  PROVE  QueryInv'
<1>1. /\ Handles(t, "returned") /\ rv' = "again"
      /\ UNCHANGED <<reply, saved, answer, alive, quals, added, tests>>
  BY DEF Again, Handles, Set, Returns
<1>2. Fits(t, "returned")
  BY <1>1, Exec DEF Fits, Alike, Owns, Waiting
<1>3. Told(t)
  BY <1>1 DEF Told, Alike
<1>4. "returned" \in Underway
  BY DEF Underway
<1>. QED BY <1>1, <1>2, <1>3, <1>4, Handled

LEMMA FallThroughKept ==
  ASSUME QueryAssumption, QueryInv, loop.pc = "exec", NEW t, FallThrough(t), t \in StType,
         t.opt => t.edns, t.needs = st[loop.i].needs,
         t.state \in Waiting \cup {"TCPINITIAL", "UDPINITIAL"}, Owns(t, FALSE),
         NEW k \in {0, 1}, Counts(t, k)
  PROVE  QueryInv'
<1>1. /\ UNCHANGED <<loop, rv, reply, saved, answer, alive, quals, added, tests>>
      /\ loop \in LoopType
  BY DEF FallThrough, QueryInv, TypeInv
<1>2. Handles(t, "exec")
  BY <1>1 DEF FallThrough, Handles, Set, LoopType
<1>3. Fits(t, "exec")
  BY DEF Fits, Owns, Waiting
<1>4. Told(t)
  BY <1>1 DEF Told
<1>5. "exec" \in Underway
  BY DEF Underway
<1>. QED BY <1>1, <1>2, <1>3, <1>4, <1>5, Handled

\* What an error needs: the socket is closed, and the message is there to be freed.
Broken(s) ==
  /\ Alike(s) /\ s.sock = "closed" /\ s.msg \in {"null", "live"}
  /\ s.buf \in {"null", "live", "refreed"}

LEMMA FailedKept ==
  ASSUME QueryAssumption, QueryInv, loop.pc = "exec", NEW s, NEW code, Failed(s, code),
         Broken(s), code \in {"SERVFAIL", "FATALERR"}
  PROVE  QueryInv'
<1>. DEFINE down == s.needs # 0 /\ s.unreachable
            t == [s EXCEPT !.state = "DONE", !.msg = Free(@), !.buf = Free(@),
                           !.needs = IF down THEN 0 ELSE @]
<1>1. /\ Handles(t, "returned") /\ rv' = code
      /\ tests' = (IF down THEN [tests EXCEPT ![loop.i] = "down"] ELSE tests)
      /\ UNCHANGED <<reply, saved, answer, alive, quals, added, sent>>
  BY DEF Failed, Handles, Set, Returns, history
<1>2. PICK u : u = t
  OBVIOUS
<1>2a. /\ s \in StType /\ s.sock = "closed" /\ Free(s.msg) \in {"null", "dead"}
       /\ Free(s.buf) \in {"null", "dead", "refreed"} /\ s.needs \in 0..2
  BY DEF Broken, Alike, StType, Free
<1>3. /\ u \in StType /\ u.state = "DONE" /\ u.sock = "closed" /\ u.msg \in {"null", "dead"} /\ u.buf \in {"null", "dead", "refreed"}
      /\ u.needs = (IF down THEN 0 ELSE s.needs) /\ u.qm = s.qm /\ u.rd = s.rd
      /\ u.edns = s.edns /\ u.opt = s.opt
  <2>1. PICK m \in {"null", "dead"}, b \in {"null", "dead", "refreed"}, n \in 0..2 :
          /\ u = [s EXCEPT !.state = "DONE", !.msg = m, !.buf = b, !.needs = n]
          /\ n = IF down THEN 0 ELSE s.needs
    <3>1. (IF down THEN 0 ELSE s.needs) \in 0..2
      BY <1>2a
    <3>. QED BY <1>2, <1>2a, <3>1
  <2>. QED BY ZenonT(40), <1>2a, <2>1 DEF StType, States
<1>4. Fits(u, "returned")
  BY <1>3, Exec DEF Fits, Owns, Broken, Alike, Waiting
<1>5. Counts(u, 0)
  <2>1. Remaining(u) <= Remaining(st[loop.i])
    BY <1>3, Exec DEF Remaining, Bit, Broken, Alike
  <2>2. 0 + Remaining(u) <= Remaining(st[loop.i])
    BY <1>3, <2>1, Exec, Few
  <2>. QED BY <1>1, <1>3, <2>2, Spent
<1>6. Told(u)
  BY <1>1, <1>3 DEF Told, Broken, Alike
<1>7. "returned" \in Underway
  BY DEF Underway
<1>. QED BY <1>1, <1>2, <1>4, <1>5, <1>6, <1>7, Handled

LEMMA TcpFailedKept ==
  ASSUME QueryAssumption, QueryInv, loop.pc = "exec", NEW s, TcpFailed(s), Broken(s),
         s.msg = "live", s.buf \in {"null", "live"},
         st[loop.i].state \in {"TCPINITIAL", "TCPWRITE", "TCPREAD"}
  PROVE  QueryInv'
<1>1. CASE s.qm = "TCP_UDP"
  <2>1. PICK u : u = switch_to_udp(s)
    OBVIOUS
  <2>2. /\ u \in StType /\ u.state = "UDPINITIAL" /\ u.qm = "UDP_ONLY" /\ u.sock = "closed"
        /\ u.msg = "live" /\ u.buf = s.buf /\ u.needs = s.needs
        /\ u.rd = s.rd /\ u.edns = s.edns /\ u.opt = s.opt
    BY <2>1 DEF switch_to_udp, Broken, Alike, StType, States, Methods4
  <2>3. FallThrough(u) /\ UNCHANGED sent
    BY <1>1, <2>1 DEF TcpFailed
  <2>4. Counts(u, 0)
    <3>1. Remaining(u) <= Remaining(st[loop.i])
      BY <1>1, <2>2, Exec DEF Remaining, Bit, Broken, Alike
    <3>2. 0 + Remaining(u) <= Remaining(st[loop.i])
      BY <2>2, <3>1, Exec, Few
    <3>. QED BY <2>2, <2>3, <3>2, Spent
  <2>5. Owns(u, FALSE) /\ u.needs = st[loop.i].needs /\ (u.opt => u.edns)
    BY <2>2, Exec DEF Owns, Waiting, Broken, Alike
  <2>. QED BY <2>2, <2>3, <2>4, <2>5, FallThroughKept
<1>2. CASE s.qm # "TCP_UDP"
  BY <1>2, FailedKept DEF TcpFailed
<1>. QED BY <1>1, <1>2

\* The socket is closed after it was opened or used, for whatever reason.
LEMMA Hung ==
  ASSUME QueryAssumption, QueryInv, loop.pc = "exec", NEW s, s = st[loop.i],
         s.state \in Waiting \cup {"TCPINITIAL", "UDPINITIAL"}, NEW u \in BOOLEAN,
         NEW x \in {"null", "live", "refreed"}
  PROVE  /\ Broken(s) \/ s.sock = "open"
         /\ s.msg = "live" /\ s.buf \in {"null", "live"} /\ s \in StType
         /\ s.sock = (IF s.state \in Waiting THEN "open" ELSE "closed")
         /\ Broken([s EXCEPT !.sock = "closed"])
         /\ Broken([s EXCEPT !.sock = "closed", !.unreachable = u])
         /\ Broken([s EXCEPT !.sock = "closed", !.buf = x])
         /\ Broken([s EXCEPT !.sock = "closed", !.buf = x, !.unreachable = u])
<1>1. s \in StType /\ s.msg = "live" /\ s.buf \in {"null", "live"}
      /\ s.sock = (IF s.state \in Waiting THEN "open" ELSE "closed")
  BY Exec DEF Owns
<1>2. ASSUME NEW t \in StType, t.sock = "closed", t.buf \in {"null", "live", "refreed"}, t.msg = "live",
             t.qm = s.qm, t.rd = s.rd, t.edns = s.edns, t.opt = s.opt, t.needs = s.needs
      PROVE  Broken(t)
  BY <1>2 DEF Broken, Alike
<1>3. s.sock = "closed" => Broken(s)
  BY <1>1, <1>2
<1>4. PICK a : a = [s EXCEPT !.sock = "closed"]
  OBVIOUS
<1>5. PICK b : b = [s EXCEPT !.sock = "closed", !.unreachable = u]
  OBVIOUS
<1>6. PICK c : c = [s EXCEPT !.sock = "closed", !.buf = x]
  OBVIOUS
<1>7. PICK d : d = [s EXCEPT !.sock = "closed", !.buf = x, !.unreachable = u]
  OBVIOUS
<1>8. Broken(a)
  <2>1. /\ a \in StType /\ a.sock = "closed" /\ a.buf = s.buf /\ a.msg = "live" /\ a.qm = s.qm
        /\ a.rd = s.rd /\ a.edns = s.edns /\ a.opt = s.opt /\ a.needs = s.needs
    BY <1>1, <1>4 DEF StType
  <2>. QED BY <2>1, <1>1, <1>2
<1>9. Broken(b)
  <2>1. /\ b \in StType /\ b.sock = "closed" /\ b.buf = s.buf /\ b.msg = "live" /\ b.qm = s.qm
        /\ b.rd = s.rd /\ b.edns = s.edns /\ b.opt = s.opt /\ b.needs = s.needs
    BY ZenonT(40), <1>1, <1>5 DEF StType
  <2>. QED BY <2>1, <1>1, <1>2
<1>10. Broken(c)
  <2>1. /\ c \in StType /\ c.sock = "closed" /\ c.buf = x /\ c.msg = "live" /\ c.qm = s.qm
        /\ c.rd = s.rd /\ c.edns = s.edns /\ c.opt = s.opt /\ c.needs = s.needs
    BY <1>1, <1>6 DEF StType
  <2>. QED BY <2>1, <1>1, <1>2
<1>11. Broken(d)
  <2>1. /\ d \in StType /\ d.sock = "closed" /\ d.buf = x /\ d.msg = "live" /\ d.qm = s.qm
        /\ d.rd = s.rd /\ d.edns = s.edns /\ d.opt = s.opt /\ d.needs = s.needs
    BY ZenonT(40), <1>1, <1>7 DEF StType
  <2>. QED BY <2>1, <1>1, <1>2
<1>. QED BY <1>1, <1>3, <1>4, <1>5, <1>6, <1>7, <1>8, <1>9, <1>10, <1>11

LEMMA InitialKept ==
  ASSUME QueryAssumption, QueryInv, QS_INITIAL
  PROVE  QueryInv'
<1>. DEFINE s == st[loop.i]
            t == [s EXCEPT !.msg = "live", !.rd = Kind[loop.i].trusted, !.opt = s.edns,
                           !.buf = IF @ = "live" THEN "leak" ELSE "null",
                           !.state = IF IsUdp(s) THEN "UDPINITIAL" ELSE "TCPINITIAL"]
<1>1. loop.pc = "exec" /\ s.state = "INITIAL"
  BY DEF QS_INITIAL, Sm
<1>2. /\ s \in StType /\ s.sock = "closed" /\ s.msg \in {"null", "dead"} /\ s.buf \in {"null", "dead", "refreed"}
      /\ loop.i \in Servers
  BY <1>1, Exec DEF Owns, Waiting
<1>3. CASE FallThrough(t) /\ UNCHANGED sent
  <2>1. Kind[loop.i].trusted \in BOOLEAN
    BY <1>2, QueryAssumption DEF Servers
  <2>2. PICK u : u = t
    OBVIOUS
  <2>3. PICK r \in BOOLEAN, q \in {"UDPINITIAL", "TCPINITIAL"}, z \in StType :
          /\ u = [z EXCEPT !.msg = "live", !.rd = r, !.opt = z.edns, !.buf = "null", !.state = q]
          /\ z = s
    BY <1>2, <2>1, <2>2
  <2>4. /\ u \in StType /\ u.state \in {"TCPINITIAL", "UDPINITIAL"} /\ u.sock = "closed"
        /\ u.msg = "live" /\ u.buf = "null" /\ u.needs = s.needs /\ u.opt = u.edns
        /\ u.qm = s.qm /\ u.edns = s.edns
    <3>1. q \in States /\ z.edns \in BOOLEAN /\ "live" \in {"null", "live", "dead"}
          /\ "null" \in {"null", "live", "dead"}
      BY DEF StType, States
    <3>2. u \in StType
      BY ZenonT(40), <2>3, <3>1 DEF StType
    <3>3. /\ u.state = q /\ u.sock = z.sock /\ u.msg = "live" /\ u.buf = "null"
          /\ u.needs = z.needs /\ u.opt = z.edns /\ u.qm = z.qm /\ u.edns = z.edns
      BY <2>3 DEF StType
    <3>. QED BY <1>2, <2>3, <3>2, <3>3
  <2>5. Owns(u, FALSE)
    BY <2>4 DEF Owns, Waiting
  <2>6. 0 + Remaining(u) <= Remaining(s)
    BY <1>1, <1>2, <2>4 DEF Remaining, Bit
  <2>7. Counts(u, 0)
    BY <1>1, <1>3, <2>4, <2>6, Spent
  <2>. QED BY ZenonT(40), <1>1, <1>3, <2>2, <2>4, <2>5, <2>7, FallThroughKept
<1>4. CASE /\ Set([s EXCEPT !.state = "DONE"]) /\ Returns("FATALERR")
           /\ UNCHANGED <<reply, saved, answer, alive, tests, added, late, stray, history>>
  <2>1. PICK u : u = [s EXCEPT !.state = "DONE"]
    OBVIOUS
  <2>2. /\ u \in StType /\ u.state = "DONE" /\ u.sock = "closed" /\ u.msg = s.msg /\ u.buf = s.buf
        /\ u.needs = s.needs /\ u.qm = s.qm /\ u.rd = s.rd /\ u.edns = s.edns /\ u.opt = s.opt
    BY <1>2, <2>1 DEF StType, States
  <2>3. Handles(u, "returned") /\ rv' = "FATALERR" /\ "returned" \in Underway
    BY <1>4, <2>1 DEF Handles, Set, Returns, Underway
  <2>4. Fits(u, "returned")
    BY <1>1, <1>2, <2>2, Exec DEF Fits, Owns, Waiting
  <2>5. 0 + Remaining(u) <= Remaining(s)
    BY <1>1, <1>2, <2>2 DEF Remaining, Bit
  <2>6. Counts(u, 0)
    BY <1>1, <1>4, <2>2, <2>5, Spent DEF history
  <2>7. Told(u)
    BY <1>4, <2>2 DEF Told
  <2>. QED BY <1>1, <1>4, <2>3, <2>4, <2>6, <2>7, Handled DEF history
<1>. QED BY <1>3, <1>4 DEF QS_INITIAL

\* A query goes on: s becomes u, which is alike, and k queries are sent.
LEMMA GoesOn ==
  ASSUME QueryAssumption, QueryInv, loop.pc = "exec", NEW u, Alike(u), Owns(u, FALSE),
         u.state \in Waiting, Again(u) \/ FallThrough(u),
         st[loop.i].state \in Waiting \cup {"TCPINITIAL", "UDPINITIAL"},
         \/ /\ UNCHANGED sent
            /\ \/ u.state = st[loop.i].state
               \/ u.state = "TCPWRITE" /\ st[loop.i].state = "TCPINITIAL"
         \/ /\ sent' = [sent EXCEPT ![loop.i] = @ + 1]
            /\ \/ u.state = "TCPREAD" /\ st[loop.i].state = "TCPWRITE"
               \/ u.state = "UDPRECEIVE" /\ st[loop.i].state = "UDPINITIAL"
  PROVE  QueryInv'
<1>1. PICK k \in {0, 1} :
        /\ k + Remaining(u) <= Remaining(st[loop.i]) /\ u \in StType
        /\ sent' = IF k = 0 THEN sent ELSE [sent EXCEPT ![loop.i] = @ + 1]
  <2>1. u \in StType
    BY DEF Alike
  <2>2. CASE /\ UNCHANGED sent
             /\ \/ u.state = st[loop.i].state
                \/ u.state = "TCPWRITE" /\ st[loop.i].state = "TCPINITIAL"
    <3>1. 0 + Remaining(u) <= Remaining(st[loop.i])
      BY <2>2, Exec DEF Remaining, Bit, Alike, Waiting
    <3>. QED BY <2>1, <2>2, <3>1
  <2>3. CASE /\ sent' = [sent EXCEPT ![loop.i] = @ + 1]
             /\ \/ u.state = "TCPREAD" /\ st[loop.i].state = "TCPWRITE"
                \/ u.state = "UDPRECEIVE" /\ st[loop.i].state = "UDPINITIAL"
    <3>1. 1 + Remaining(u) <= Remaining(st[loop.i])
      BY <2>3, Exec DEF Remaining, Bit, Alike, Waiting
    <3>. QED BY <2>1, <2>3, <3>1
  <2>. QED BY <2>2, <2>3
<1>2. Counts(u, k)
  BY <1>1, Spent
<1>3. (u.opt => u.edns) /\ u.needs = st[loop.i].needs
  BY Exec DEF Alike
<1>. QED BY <1>1, <1>2, <1>3, AgainKept, FallThroughKept

LEMMA TcpInitialKept ==
  ASSUME QueryAssumption, QueryInv, QS_TCPINITIAL
  PROVE  QueryInv'
<1>. DEFINE s == st[loop.i]
            o == [s EXCEPT !.sock = Open(@)]
            c == [o EXCEPT !.sock = Close(@)]
<1>1. loop.pc = "exec" /\ s.state = "TCPINITIAL"
  BY DEF QS_TCPINITIAL, Sm
<1>2. /\ s \in StType /\ s.sock = "closed" /\ s.msg = "live" /\ s.buf \in {"null", "live"}
      /\ Broken(s) /\ Broken([s EXCEPT !.sock = "closed"])
      /\ Broken([s EXCEPT !.sock = "closed", !.unreachable = TRUE])
  BY <1>1, Hung DEF Waiting
<1>3. /\ o = [s EXCEPT !.sock = "open"] /\ c = [s EXCEPT !.sock = "closed"]
      /\ [c EXCEPT !.unreachable = TRUE] = [s EXCEPT !.sock = "closed", !.unreachable = TRUE]
  BY <1>2 DEF Open, Close, StType
<1>4. PICK u : u = [o EXCEPT !.state = "TCPWRITE"]
  OBVIOUS
<1>5. Alike(u) /\ u.state = "TCPWRITE" /\ Owns(u, FALSE)
  BY <1>2, <1>3, <1>4 DEF Alike, StType, States, Owns, Waiting
<1>6. CASE (Again(u) \/ FallThrough(u)) /\ UNCHANGED sent
  BY <1>1, <1>5, <1>6, GoesOn DEF Waiting
<1>7. PICK x : x = [s EXCEPT !.sock = "closed", !.unreachable = TRUE]
  OBVIOUS
<1>8. x.msg = "live" /\ x.buf \in {"null", "live"}
  BY <1>2, <1>7 DEF StType
<1>9. CASE TcpFailed(x)
  BY <1>1, <1>2, <1>7, <1>8, <1>9, TcpFailedKept
<1>10. CASE Failed(s, "SERVFAIL") \/ Failed(c, "SERVFAIL")
  BY <1>1, <1>2, <1>3, <1>10, FailedKept
<1>. QED BY <1>3, <1>4, <1>6, <1>7, <1>9, <1>10 DEF QS_TCPINITIAL

LEMMA TcpWriteKept ==
  ASSUME QueryAssumption, QueryInv, QS_TCPWRITE
  PROVE  QueryInv'
<1>. DEFINE s == st[loop.i]
            c == [s EXCEPT !.sock = Close(@)]
<1>1. loop.pc = "exec" /\ s.state = "TCPWRITE"
  BY DEF QS_TCPWRITE, Sm
<1>2. /\ s \in StType /\ s.sock = "open" /\ s.msg = "live" /\ s.buf \in {"null", "live"}
      /\ Owns(s, FALSE)
      /\ \A u \in BOOLEAN : Broken([s EXCEPT !.sock = "closed", !.unreachable = u])
  BY <1>1, Hung, Exec DEF Waiting
<1>3. \A u : [c EXCEPT !.unreachable = u] = [s EXCEPT !.sock = "closed", !.unreachable = u]
  BY <1>2 DEF Close, StType
<1>4. ASSUME NEW m \in {s.moved, TRUE}, Again([s EXCEPT !.moved = m]), UNCHANGED sent
      PROVE  QueryInv'
  <2>1. PICK u : u = [s EXCEPT !.moved = m]
    OBVIOUS
  <2>2. Alike(u) /\ u.state = "TCPWRITE" /\ Owns(u, FALSE)
    BY <1>1, <1>2, <2>1 DEF Alike, StType, Owns, Waiting
  <2>. QED BY <1>1, <1>4, <2>1, <2>2, GoesOn DEF Waiting
<1>5. ASSUME TcpFailed([c EXCEPT !.unreachable = TRUE])
      PROVE  QueryInv'
  <2>1. PICK x : x = [s EXCEPT !.sock = "closed", !.unreachable = TRUE]
    OBVIOUS
  <2>2. x.msg = "live" /\ x.buf \in {"null", "live"}
    BY <1>2, <2>1 DEF StType
  <2>. QED BY <1>1, <1>2, <1>3, <1>5, <2>1, <2>2, TcpFailedKept
<1>6. ASSUME NEW u \in BOOLEAN, Failed([c EXCEPT !.unreachable = u], "SERVFAIL")
      PROVE  QueryInv'
  BY <1>1, <1>2, <1>3, <1>6, FailedKept
<1>7. ASSUME FallThrough([s EXCEPT !.state = "TCPREAD", !.moved = FALSE]),
             sent' = [sent EXCEPT ![loop.i] = @ + 1]
      PROVE  QueryInv'
  <2>1. PICK u : u = [s EXCEPT !.state = "TCPREAD", !.moved = FALSE]
    OBVIOUS
  <2>2. Alike(u) /\ u.state = "TCPREAD" /\ Owns(u, FALSE)
    BY <1>2, <2>1 DEF Alike, StType, States, Owns, Waiting
  <2>. QED BY <1>1, <1>7, <2>1, <2>2, GoesOn DEF Waiting
<1>. QED BY <1>4, <1>5, <1>6, <1>7 DEF QS_TCPWRITE

\* A message is there: the socket is closed, the message is read into the buffer.
LEMMA ReceivedKept ==
  ASSUME QueryAssumption, QueryInv, loop.pc = "exec", Received(st[loop.i]),
         st[loop.i].state \in {"TCPREAD", "UDPRECEIVE"},
         loop' = [loop EXCEPT !.pc = "received"],
         UNCHANGED <<rv, saved, answer, alive, tests, added, late, stray, history>>
  PROVE  QueryInv'
<1>1. PICK s \in StType : s = st[loop.i]
  BY Exec
<1>2. s.sock = "open" /\ s.msg = "live" /\ s.buf \in {"null", "live"}
  BY <1>1, Exec DEF Owns, Waiting
<1>3. PICK u : u = [s EXCEPT !.buf = "live", !.sock = "closed", !.state = "DONE"]
  OBVIOUS
<1>4. /\ u \in StType /\ u.state = "DONE" /\ u.sock = "closed" /\ u.msg = "live" /\ u.buf = "live"
      /\ u.needs = s.needs /\ u.qm = s.qm /\ u.rd = s.rd /\ u.edns = s.edns /\ u.opt = s.opt
  BY <1>2, <1>3 DEF StType, States
<1>5. Handles(u, "received") /\ reply' \in Messages /\ "received" \in Underway
  <2>1. [s EXCEPT !.buf = Realloc(@), !.sock = Close(@), !.state = "DONE"] = u
    BY <1>2, <1>3 DEF Realloc, Close, StType
  <2>. QED BY <1>1, <2>1 DEF Received, Handles, Set, Underway
<1>6. Fits(u, "received")
  BY <1>1, <1>4, Exec DEF Fits, Owns, Waiting
<1>7. 0 + Remaining(u) <= Remaining(st[loop.i])
  BY <1>1, <1>4, Exec DEF Remaining, Bit
<1>8. Counts(u, 0)
  BY <1>4, <1>7, Spent DEF history
<1>9. Told(u)
  BY <1>1, <1>4 DEF Told
<1>. QED BY <1>5, <1>6, <1>8, <1>9, Handled DEF history

LEMMA TcpReadKept ==
  ASSUME QueryAssumption, QueryInv, QS_TCPREAD
  PROVE  QueryInv'
<1>. DEFINE s == st[loop.i]
            c == [s EXCEPT !.sock = Close(@)]
<1>1. loop.pc = "exec" /\ s.state = "TCPREAD"
  BY DEF QS_TCPREAD, Sm
<1>2. /\ s \in StType /\ s.sock = "open" /\ s.msg = "live" /\ s.buf \in {"null", "live"}
      /\ Owns(s, FALSE)
      /\ \A b \in {"null", "live", "refreed"} : Broken([s EXCEPT !.sock = "closed", !.buf = b])
      /\ \A u \in BOOLEAN : Broken([s EXCEPT !.sock = "closed", !.unreachable = u])
  BY <1>1, Hung, Exec DEF Waiting
<1>3. /\ \A u : [c EXCEPT !.unreachable = u] = [s EXCEPT !.sock = "closed", !.unreachable = u]
      /\ \A b : [c EXCEPT !.buf = b] = [s EXCEPT !.sock = "closed", !.buf = b]
      /\ Realloc(s.buf) = "live"
  BY <1>2 DEF Close, StType, Realloc
<1>4. ASSUME Again(s), UNCHANGED sent
      PROVE  QueryInv'
  BY <1>1, <1>2, <1>4, GoesOn DEF Alike, Waiting
<1>5. ASSUME Again([s EXCEPT !.moved = TRUE, !.buf = Realloc(@)]), UNCHANGED sent
      PROVE  QueryInv'
  <2>1. PICK u : u = [s EXCEPT !.moved = TRUE, !.buf = "live"]
    OBVIOUS
  <2>2. Alike(u) /\ u.state = "TCPREAD" /\ Owns(u, FALSE)
    BY <1>1, <1>2, <2>1 DEF Alike, StType, Owns, Waiting
  <2>. QED BY <1>1, <1>3, <1>5, <2>1, <2>2, GoesOn DEF Waiting
<1>6. ASSUME NEW u \in BOOLEAN, TcpFailed([c EXCEPT !.unreachable = u])
      PROVE  QueryInv'
  <2>1. PICK x : x = [s EXCEPT !.sock = "closed", !.unreachable = u]
    OBVIOUS
  <2>2. x.msg = "live" /\ x.buf \in {"null", "live"}
    BY <1>2, <2>1 DEF StType
  <2>. QED BY <1>1, <1>2, <1>3, <1>6, <2>1, <2>2, TcpFailedKept
<1>7. ASSUME NEW b \in Unallocated(s.buf), Failed([c EXCEPT !.buf = b], "FATALERR")
      PROVE  QueryInv'
  <2>1. b \in {"null", "live", "refreed"}
    BY DEF Unallocated
  <2>2. Broken([c EXCEPT !.buf = b])
    BY <1>2, <1>3, <2>1
  <2>. QED BY <1>1, <1>7, <2>2, FailedKept
<1>. QED BY <1>1, <1>4, <1>5, <1>6, <1>7, ReceivedKept DEF QS_TCPREAD

LEMMA UdpInitialKept ==
  ASSUME QueryAssumption, QueryInv, QS_UDPINITIAL
  PROVE  QueryInv'
<1>. DEFINE s == st[loop.i]
            o == [s EXCEPT !.sock = Open(@)]
            c == [o EXCEPT !.sock = Close(@)]
<1>1. loop.pc = "exec" /\ s.state = "UDPINITIAL"
  BY DEF QS_UDPINITIAL, Sm
<1>2. /\ s \in StType /\ s.sock = "closed" /\ s.msg = "live" /\ s.buf \in {"null", "live"}
      /\ Broken(s)
      /\ \A u \in BOOLEAN : Broken([s EXCEPT !.sock = "closed", !.unreachable = u])
  BY <1>1, Hung DEF Waiting
<1>3. /\ o = [s EXCEPT !.sock = "open"]
      /\ \A u : [c EXCEPT !.unreachable = u] = [s EXCEPT !.sock = "closed", !.unreachable = u]
  BY <1>2 DEF Open, Close, StType
<1>4. PICK u : u = [o EXCEPT !.state = "UDPRECEIVE"]
  OBVIOUS
<1>5. Alike(u) /\ u.state = "UDPRECEIVE" /\ Owns(u, FALSE)
  BY <1>2, <1>3, <1>4 DEF Alike, StType, States, Owns, Waiting
<1>6. ASSUME Again(u), sent' = [sent EXCEPT ![loop.i] = @ + 1]
      PROVE  QueryInv'
  BY <1>1, <1>5, <1>6, GoesOn DEF Waiting
<1>7. ASSUME NEW v \in BOOLEAN, Failed([c EXCEPT !.unreachable = v], "SERVFAIL")
      PROVE  QueryInv'
  BY <1>1, <1>2, <1>3, <1>7, FailedKept
<1>8. ASSUME Failed(s, "SERVFAIL")
      PROVE  QueryInv'
  BY <1>1, <1>2, <1>8, FailedKept
<1>. QED BY <1>4, <1>6, <1>7, <1>8 DEF QS_UDPINITIAL

LEMMA UdpReceiveKept ==
  ASSUME QueryAssumption, QueryInv, QS_UDPRECEIVE
  PROVE  QueryInv'
<1>. DEFINE s == st[loop.i]
            c == [s EXCEPT !.sock = Close(@)]
<1>1. loop.pc = "exec" /\ s.state = "UDPRECEIVE"
  BY DEF QS_UDPRECEIVE, Sm
<1>2. /\ s \in StType /\ s.sock = "open" /\ s.msg = "live" /\ s.buf \in {"null", "live"}
      /\ Owns(s, FALSE) /\ Broken([s EXCEPT !.sock = "closed", !.buf = "null"])
      /\ \A u \in BOOLEAN :
           Broken([s EXCEPT !.sock = "closed", !.buf = "live", !.unreachable = u])
  BY <1>1, Hung, Exec DEF Waiting
<1>3. /\ Realloc(s.buf) = "live"
      /\ \A u : [c EXCEPT !.buf = Realloc(@), !.unreachable = u]
                  = [s EXCEPT !.sock = "closed", !.buf = "live", !.unreachable = u]
      /\ [c EXCEPT !.buf = "null"] = [s EXCEPT !.sock = "closed", !.buf = "null"]
  BY <1>2 DEF Close, StType, Realloc
<1>4. ASSUME Failed([c EXCEPT !.buf = "null"], "FATALERR")
      PROVE  QueryInv'
  BY <1>1, <1>2, <1>3, <1>4, FailedKept
<1>5. ASSUME NEW u \in BOOLEAN,
             Failed([c EXCEPT !.buf = Realloc(@), !.unreachable = u], "SERVFAIL")
      PROVE  QueryInv'
  BY <1>1, <1>2, <1>3, <1>5, FailedKept
<1>6. ASSUME Again([s EXCEPT !.buf = Realloc(@)]), UNCHANGED sent
      PROVE  QueryInv'
  <2>1. PICK u : u = [s EXCEPT !.buf = "live"]
    OBVIOUS
  <2>2. Alike(u) /\ u.state = "UDPRECEIVE" /\ Owns(u, FALSE)
    BY <1>1, <1>2, <2>1 DEF Alike, StType, Owns, Waiting
  <2>. QED BY <1>1, <1>3, <1>6, <2>1, <2>2, GoesOn DEF Waiting
<1>. QED BY <1>1, <1>4, <1>5, <1>6, ReceivedKept DEF QS_UDPRECEIVE

-----------------------------------------------------------------------------
(* A message was read.                                                     *)

\* What is used of an answer, and what is added to the cache with it, holds nothing that
\* is to be rejected.
LEMMA SortedAnswer ==
  ASSUME NEW i \in Servers, NEW f \in {0, 1, 3}, NEW r \in Messages, NEW x,
         x = Sorted[i][f][r]
  PROVE  /\ x \in Sorts /\ x.code \in {"OK", "NAMEERR", "SERVFAIL"}
         /\ x.failed \in {0, 1, 3} /\ x.aa \in BOOLEAN
         /\ Kind[i].rejects /\ x.code = "OK" => \A y \in x.own : ~ y.bad
         /\ Kind[i].rejects => \A y \in x.add : ~ y.bad
<1>1. PICK m : m = Read(r)
  OBVIOUS
<1>2. x = Sort(i, f, m) /\ x \in Sorts
  BY <1>1 DEF Sorted, Sorts
<1>3. /\ x.code \in {"OK", "NAMEERR", "SERVFAIL"} /\ x.failed = FailedAfter(f, m)
      /\ x.aa \in BOOLEAN
      /\ x.own = IF NameError(i, f, m) THEN {} ELSE Own(m)
      /\ x.code = "OK" => NameError(i, f, m) \/ ~ Refused(i, m)
      /\ x.add \subseteq AddAdditional(i, f, m)
  BY <1>2 DEF Sort
<1>4. x.failed \in {0, 1, 3}
  BY <1>3 DEF FailedAfter
<1>5. ASSUME Kind[i].rejects, x.code = "OK", NEW y \in x.own
      PROVE  ~ y.bad
  <2>1. ~ Rejected(i, m) /\ y \in Sec(m, 1)
    BY <1>3, <1>5 DEF Refused, Own
  <2>. QED BY <1>5, <2>1 DEF Rejected
<1>6. ASSUME Kind[i].rejects, NEW y \in x.add
      PROVE  ~ y.bad
  <2>1. ~ Rejected(i, m) /\ \E k \in 1..3 : y \in Sec(m, k)
    BY <1>3, <1>6 DEF AddAdditional
  <2>. QED BY <1>6, <2>1 DEF Rejected
<1>. QED BY <1>2, <1>3, <1>4, <1>5, <1>6

\* t is the server in hand with its answer, which is not judged yet.
Reading(t) ==
  LET o == st[loop.i]
  IN  /\ t \in StType /\ t.state = "DONE" /\ t.sock = "closed" /\ t.msg = "live"
      /\ t.buf = "live" /\ t.qm = o.qm /\ t.rd = o.rd /\ t.edns = o.edns /\ t.opt = o.opt
      /\ t.needs \in {0, o.needs}

LEMMA InReading ==
  ASSUME QueryAssumption, QueryInv, loop.pc = "received"
  PROVE  /\ loop.pc \in Underway /\ loop.i \in Servers /\ Reading(st[loop.i])
         /\ (st[loop.i].opt => st[loop.i].edns) /\ reply \in Messages
         /\ sent \in [Servers -> Nat] /\ sent[loop.i] + Remaining(st[loop.i]) <= 5
<1>1. HasRead(loop.i) /\ loop.pc \in Underway
  BY DEF HasRead, Underway
<1>2. st[loop.i].state = "DONE" /\ reply \in Messages /\ sent \in [Servers -> Nat]
  BY DEF QueryInv, ProgressInv, AnswerInv, TypeInv
<1>. QED BY <1>1, <1>2, InHand DEF Reading, Owns, Waiting

\* The message is freed, the server is done.
LEMMA ReadFreed ==
  ASSUME QueryAssumption, QueryInv, loop.pc = "received", NEW t, Reading(t), NEW u,
         u \in StType, u.state = "DONE", u.sock = "closed", u.msg = "dead", u.buf = "dead",
         u.needs = t.needs, u.qm = t.qm, u.rd = t.rd, u.edns = t.edns, u.opt = t.opt,
         UNCHANGED sent
  PROVE  Fits(u, "returned") /\ Counts(u, 0) /\ "returned" \in Underway
<1>1. Fits(u, "returned")
  BY InReading DEF Fits, Owns, Reading, Waiting
<1>2. Remaining(u) <= Remaining(st[loop.i]) /\ st[loop.i] \in StType
  BY InReading DEF Remaining, Bit, Reading
<1>3. sent[loop.i] + 0 + Remaining(u) <= 5
  BY <1>2, InReading, Few
<1>. QED BY <1>1, <1>3 DEF Counts, Underway

LEMMA DiscardKept ==
  ASSUME QueryAssumption, QueryInv, loop.pc = "received", NEW t, NEW code, Reading(t),
         Discard(t, code), code \notin {"OK", "CACHED", "STALE"}, Told(t)
  PROVE  QueryInv'
<1>1. PICK u : u = [t EXCEPT !.msg = "dead", !.buf = "dead"]
  OBVIOUS
<1>2. /\ u \in StType /\ u.state = "DONE" /\ u.sock = "closed" /\ u.msg = "dead" /\ u.buf = "dead"
      /\ u.needs = t.needs /\ u.qm = t.qm /\ u.rd = t.rd /\ u.edns = t.edns /\ u.opt = t.opt
  BY <1>1 DEF Reading, StType
<1>3. [t EXCEPT !.msg = Free(@), !.buf = Free(@)] = u
  BY <1>1 DEF Free, Reading, StType
<1>4. Handles(u, "returned") /\ rv' = code
  BY <1>3 DEF Discard, Set, Returns, Handles
<1>5. UNCHANGED <<saved, answer, alive, quals, added, sent>>
  BY DEF Discard, history
<1>6. Fits(u, "returned") /\ Counts(u, 0) /\ "returned" \in Underway
  BY <1>2, <1>5, ReadFreed
<1>7. Told(u)
  BY <1>2 DEF Told
<1>. QED BY <1>4, <1>5, <1>6, <1>7, Handled

\* The answer is there: one entry more, and what it came with.
LEMMA JudgedKept ==
  ASSUME QueryAssumption, QueryInv, loop.pc = "received", NEW t, Reading(t), Judged(t), Told(t)
  PROVE  QueryInv'
<1>1. PICK x : /\ x = Sorted[loop.i][t.failed][reply]
               /\ Set([t EXCEPT !.msg = Free(@), !.buf = Free(@), !.failed = x.failed,
                                !.aa = x.aa, !.tc = reply.tc, !.ra = t.rd /\ reply.ra])
               /\ \/ /\ reply' = x /\ Returns(x.code)
                     /\ added' = added \cup ({loop.i} \X x.add)
                     /\ alive' = IF x.code # "OK" THEN alive
                                 ELSE [ent |-> alive.ent + 1,
                                       ns  |-> alive.ns + (IF x.ns = {} THEN 0 ELSE 1)]
                  \/ /\ x.code = "OK" /\ reply' = Nothing /\ Returns("FATALERR")
                     /\ UNCHANGED <<added, alive>>
               /\ UNCHANGED <<saved, answer, late, stray, history>>
  BY DEF Judged
<1>2. /\ x \in Sorts /\ x.code \in {"OK", "NAMEERR", "SERVFAIL"}
      /\ x.failed \in {0, 1, 3} /\ x.aa \in BOOLEAN
      /\ Kind[loop.i].rejects /\ x.code = "OK" => \A y \in x.own : ~ y.bad
      /\ Kind[loop.i].rejects => \A y \in x.add : ~ y.bad
  <2>1. loop.i \in Servers /\ t.failed \in {0, 1, 3} /\ reply \in Messages
    BY InReading DEF Reading, StType
  <2>2. x = Sorted[loop.i][t.failed][reply]
    BY <1>1
  <2>. QED BY <2>1, <2>2, SortedAnswer
<1>3. reply.tc \in BOOLEAN
  BY InReading, QueryAssumption
<1>4. PICK tc \in BOOLEAN, ra \in BOOLEAN :
        Set([t EXCEPT !.msg = "dead", !.buf = "dead", !.failed = x.failed, !.aa = x.aa,
                      !.tc = tc, !.ra = ra])
  <2>1. (t.rd /\ reply.ra) \in BOOLEAN
    OBVIOUS
  <2>2. Free(t.msg) = "dead" /\ Free(t.buf) = "dead"
    BY DEF Reading, Free
  <2>. QED BY <1>1, <1>3, <2>1, <2>2
<1>4a. PICK u : u = [t EXCEPT !.msg = "dead", !.buf = "dead", !.failed = x.failed, !.aa = x.aa,
                              !.tc = tc, !.ra = ra]
  OBVIOUS
<1>5. /\ u \in StType /\ u.state = "DONE" /\ u.sock = "closed" /\ u.msg = "dead" /\ u.buf = "dead"
      /\ u.needs = t.needs /\ u.qm = t.qm /\ u.rd = t.rd /\ u.edns = t.edns /\ u.opt = t.opt
  BY ZenonT(40), <1>2, <1>4a DEF Reading, StType
<1>6. Handles(u, "returned") /\ rv' \in {x.code, "FATALERR"}
  BY <1>1, <1>4, <1>4a DEF Handles, Set, Returns
<1>7. UNCHANGED <<saved, answer, quals, sent>>
  BY <1>1 DEF history
<1>8. Fits(u, "returned") /\ Counts(u, 0) /\ "returned" \in Underway /\ Told(u)
  BY <1>5, <1>7, ReadFreed DEF Told
<1>9. /\ st' \in [Servers -> StType] /\ loop' \in LoopType
      /\ sent' \in [Servers -> Nat] /\ tests' \in [Servers -> {"none", "up", "down", "test"}]
      /\ ServerInv' /\ LoopInv' /\ ProgressInv' /\ EventInv'
  BY <1>6, <1>8, ServerKept, InReading
<1>10. /\ loop' = [loop EXCEPT !.pc = "returned"] /\ loop \in LoopType /\ loop'.pc = "returned"
       /\ loop'.i = loop.i
  BY <1>6 DEF Handles, QueryInv, TypeInv, LoopType
<1>11. /\ rv' = "OK" => reply' = x /\ x.code = "OK"
       /\ alive' = [ent |-> alive.ent + Bit(rv' = "OK"),
                    ns |-> alive.ns + Bit(rv' = "OK" /\ x.ns # {})]
       /\ added' \subseteq added \cup ({loop.i} \X x.add)
  <2>1. alive = [ent |-> alive.ent + 0, ns |-> alive.ns + 0]
    BY DEF QueryInv, TypeInv
  <2>. QED BY <1>1, <1>2, <2>1 DEF Returns, Bit
<1>12. \A y \in added' : Kind[y[1]].rejects => ~ y[2].bad
  BY <1>2, <1>11 DEF QueryInv, AnswerInv
<1>13. AnswerInv'
  BY <1>2, <1>6, <1>7, <1>10, <1>11, <1>12 DEF QueryInv, AnswerInv, Clean, Closing, Returned
<1>14. AliveInv' /\ alive' \in [ent : Nat, ns : Nat]
  BY <1>7, <1>10, <1>11 DEF QueryInv, TypeInv, AliveInv, Returned, Bit
<1>15. EndInv'
  BY <1>10 DEF EndInv
<1>. QED BY <1>9, <1>13, <1>14, <1>15 DEF QueryInv, TypeInv

\* The query is sent again with less: without recursion, or without EDNS.
LEMMA RetryKept ==
  ASSUME QueryAssumption, QueryInv, loop.pc = "received", NEW t, Retry(t), Told(t),
         t \in StType, t.sock = "closed", t.msg = "live", t.buf = "live",
         t.needs = 0, t.qm = st[loop.i].qm, t.opt => t.edns,
         \/ st[loop.i].rd /\ ~ t.rd /\ t.edns = st[loop.i].edns
         \/ st[loop.i].edns /\ ~ t.edns /\ t.rd = st[loop.i].rd
  PROVE  QueryInv'
<1>1. PICK q \in {"UDPINITIAL", "TCPINITIAL"} : Set([t EXCEPT !.state = q])
  BY DEF Retry
<1>2. PICK u : u = [t EXCEPT !.state = q]
  OBVIOUS
<1>3. /\ u \in StType /\ u.state = q /\ u.sock = "closed" /\ u.msg = "live" /\ u.buf = "live"
      /\ u.needs = 0 /\ u.qm = t.qm /\ u.rd = t.rd /\ u.edns = t.edns /\ u.opt = t.opt
  BY <1>2 DEF StType, States
<1>4. Handles(u, "exec") /\ "exec" \in Underway
  BY <1>1, <1>2 DEF Retry, Set, Handles, Underway
<1>5. UNCHANGED <<rv, saved, answer, alive, quals, added, sent>>
  BY DEF Retry, history
<1>6. Fits(u, "exec")
  BY <1>3 DEF Fits, Owns, Waiting
<1>7. Counts(u, 0)
  <2>1. st[loop.i] \in StType /\ st[loop.i].state = "DONE"
    BY InReading DEF Reading
  <2>2. Remaining(u) <= Remaining(st[loop.i])
    BY <1>3, <2>1 DEF Remaining, Bit, StType
  <2>3. sent[loop.i] + 0 + Remaining(u) <= 5
    BY <1>3, <2>1, <2>2, InReading, Few
  <2>. QED BY <1>5, <2>3 DEF Counts
<1>8. Told(u)
  BY <1>3 DEF Told
<1>. QED BY <1>4, <1>5, <1>6, <1>7, <1>8, Handled

LEMMA JudgeKept ==
  ASSUME QueryAssumption, QueryInv, Judge
  PROVE  QueryInv'
<1>1. loop.pc = "received"
  BY DEF Judge
<1>2. PICK s \in StType : s = st[loop.i]
  BY <1>1, InReading DEF Reading
<1>3. PICK t : t = [s EXCEPT !.needs = 0]
  OBVIOUS
<1>4. /\ Reading(s) /\ (s.opt => s.edns) /\ reply \in Messages /\ loop.i \in Servers
      /\ tests \in [Servers -> {"none", "up", "down", "test"}]
      /\ tests[loop.i] = "up" => s.needs = 0
  BY <1>1, <1>2, InReading, InHand DEF QueryInv, TypeInv
<1>5. /\ t \in StType /\ t.needs = 0 /\ t.state = s.state /\ t.sock = s.sock /\ t.msg = s.msg
      /\ t.buf = s.buf /\ t.qm = s.qm /\ t.rd = s.rd /\ t.edns = s.edns /\ t.opt = s.opt
  BY <1>3 DEF StType
<1>6. Reading(t)
  BY <1>2, <1>4, <1>5 DEF Reading
<1>7. CASE ~ reply.sane /\ Discard(s, "SERVFAIL") /\ UNCHANGED tests
  <2>1. Told(s)
    BY <1>2, <1>7 DEF Told
  <2>. QED BY <1>1, <1>4, <1>7, <2>1, DiscardKept
<1>8. CASE ~ (~ reply.sane /\ Discard(s, "SERVFAIL") /\ UNCHANGED tests)
  <2>1. tests' = IF s.needs # 0 THEN [tests EXCEPT ![loop.i] = "up"] ELSE tests
    BY <1>2, <1>8 DEF Judge
  <2>2. ASSUME NEW v, v.needs = 0
        PROVE  Told(v)
    BY <1>2, <2>1, <2>2 DEF Told
  <2>3. ASSUME NEW v, Reading(v), v.needs = 0, UseReply(v)
        PROVE  QueryInv'
    <3>1. Told(v)
      BY <2>2, <2>3
    <3>. QED BY <1>1, <2>3, <3>1, JudgedKept, DiscardKept DEF UseReply
  <2>4. CASE UseReply(t)
    BY <1>5, <1>6, <2>3, <2>4
  <2>5. CASE s.rd /\ Retry([t EXCEPT !.rd = FALSE])
    <3>1. PICK v : v = [t EXCEPT !.rd = FALSE]
      OBVIOUS
    <3>2. /\ v \in StType /\ v.needs = 0 /\ v.sock = "closed" /\ v.msg = "live" /\ v.buf = "live"
          /\ v.qm = s.qm /\ ~ v.rd /\ v.edns = s.edns /\ v.opt = s.opt
      BY ZenonT(40), <1>5, <1>6, <3>1 DEF StType, Reading
    <3>3. Told(v)
      BY <2>2, <3>2
    <3>4. (v.opt => v.edns) /\ (s.rd /\ ~ v.rd /\ v.edns = s.edns)
      BY <1>4, <2>5, <3>2
    <3>5. Retry(v)
      BY <2>5, <3>1
    <3>. QED BY <1>1, <1>2, <3>2, <3>3, <3>4, <3>5, RetryKept
  <2>6. CASE s.opt /\ Retry([t EXCEPT !.opt = FALSE, !.edns = FALSE])
    <3>1. PICK v : v = [t EXCEPT !.opt = FALSE, !.edns = FALSE]
      OBVIOUS
    <3>1a. PICK a \in BOOLEAN, b \in BOOLEAN :
             v = [t EXCEPT !.opt = a, !.edns = b] /\ ~ a /\ ~ b
      BY <3>1
    <3>1b. /\ v \in StType /\ v.needs = t.needs /\ v.sock = t.sock /\ v.msg = t.msg
           /\ v.buf = t.buf /\ v.qm = t.qm /\ v.rd = t.rd /\ ~ v.edns /\ ~ v.opt
      BY ZenonT(40), <1>5, <3>1a DEF StType
    <3>2. /\ v.needs = 0 /\ v.sock = "closed" /\ v.msg = "live" /\ v.buf = "live"
          /\ v.qm = s.qm /\ v.rd = s.rd
      BY <1>5, <1>6, <3>1b DEF Reading
    <3>3. Told(v)
      BY <2>2, <3>2
    <3>4. (v.opt => v.edns) /\ (s.edns /\ ~ v.edns /\ v.rd = s.rd)
      BY <1>4, <2>6, <3>1b, <3>2
    <3>5. Retry(v)
      BY <2>6, <3>1
    <3>. QED BY <1>1, <1>2, <3>1b, <3>2, <3>3, <3>4, <3>5, RetryKept
  <2>7. CASE UseReply([t EXCEPT !.failed = 3])
    <3>1. PICK v : v = [t EXCEPT !.failed = 3]
      OBVIOUS
    <3>2. /\ v \in StType /\ v.needs = 0 /\ v.state = t.state /\ v.sock = t.sock /\ v.msg = t.msg
          /\ v.buf = t.buf /\ v.qm = t.qm /\ v.rd = t.rd /\ v.edns = t.edns /\ v.opt = t.opt
      BY <1>5, <3>1 DEF StType
    <3>3. Reading(v)
      BY <1>5, <1>6, <3>2 DEF Reading
    <3>. QED BY <2>3, <2>7, <3>1, <3>2, <3>3
  <2>8. CASE reply.rcode \notin {"OK", "NAMEERR"} /\ Discard(t, reply.rcode)
    <3>1. reply.rcode \notin {"OK", "CACHED", "STALE"}
      BY <1>4, <2>8, QueryAssumption
    <3>2. Told(t)
      BY <1>5, <2>2
    <3>. QED BY <1>1, <1>6, <2>8, <3>1, <3>2, DiscardKept
  <2>9. \/ UseReply(t)
        \/ s.rd /\ Retry([t EXCEPT !.rd = FALSE])
        \/ s.opt /\ Retry([t EXCEPT !.opt = FALSE, !.edns = FALSE])
        \/ UseReply([t EXCEPT !.failed = 3])
        \/ reply.rcode \notin {"OK", "NAMEERR"} /\ Discard(t, reply.rcode)
    <3>1. IF reply.rcode \in {"OK", "NAMEERR"} THEN UseReply(t)
          ELSE IF reply.rcode \in Refusals /\ s.rd /\ ~ reply.ra
               THEN Retry([t EXCEPT !.rd = FALSE])
          ELSE IF reply.rcode \in {"NOTSUPP", "REFUSED", "FORMAT"} /\ s.opt
               THEN Retry([t EXCEPT !.opt = FALSE, !.edns = FALSE])
          ELSE IF reply.rcode \in Refusals /\ reply.sec[1] # <<>> /\ Kind[loop.i].auth_serv = 2
               THEN UseReply([t EXCEPT !.failed = 3])
          ELSE Discard(t, reply.rcode)
      BY <1>2, <1>3, <1>8 DEF Judge
    <3>. QED BY <3>1
  <2>. QED BY <2>4, <2>5, <2>6, <2>7, <2>8, <2>9
<1>. QED BY <1>7, <1>8

-----------------------------------------------------------------------------
(* p_exec_query returned.                                                  *)

\* The queries are given up: what was started is cancelled.
LEMMA Cancelled ==
  ASSUME QueryAssumption, QueryInv, loop.pc = "returned", st[loop.i].state = "DONE",
         loop' = ToCancel, UNCHANGED <<st, sent, tests>>
  PROVE  /\ loop' \in LoopType /\ loop'.pc = "cancel"
         /\ ServerInv' /\ LoopInv' /\ ProgressInv' /\ EventInv' /\ EndInv'
<1>1. /\ loop \in LoopType /\ loop.pc \in Underway /\ loop.i \in Servers /\ loop.i \in 0..N
  BY InHand DEF Underway, QueryInv, TypeInv
<1>2. /\ loop' \in LoopType /\ loop'.pc = "cancel" /\ loop'.dc = loop.dc
      /\ loop'.mc = (IF loop.at = "init" THEN loop.i ELSE loop.mc)
  BY <1>1 DEF ToCancel, LoopType, Pcs
<1>3. ServerInv'
  BY <1>2 DEF QueryInv, ServerInv, HasRead
<1>4. /\ loop.dc <= loop.i /\ loop.i < loop.mc /\ (loop.at = "init" => loop.j <= loop.i)
      /\ loop.pc \notin Closing
  BY <1>1 DEF QueryInv, LoopInv, Underway, Closing
<1>5. LoopInv'
  <2>1. loop'.dc <= loop'.mc
    BY <1>1, <1>2, <1>4 DEF QueryInv, LoopInv
  <2>. QED BY <1>2, <2>1 DEF LoopInv, Underway
<1>6. ASSUME NEW k \in Servers
      PROVE  /\ st[k].state \notin {"TCPINITIAL", "UDPINITIAL", "CANCELED"}
             /\ st[k].state \in Waiting => loop'.dc <= k /\ k < loop'.mc
             /\ st[k].needs = 2 => k < loop'.mc
  <2>1. /\ st[k].state \notin {"TCPINITIAL", "UDPINITIAL", "CANCELED"}
        /\ st[k].state = "INITIAL" <=> ~ Started(k)
        /\ st[k].state \in Waiting => loop.dc <= k /\ k < loop.mc
        /\ st[k].needs = 2 => k < loop.mc /\ (loop.at = "init" => k < loop.j)
    BY <1>4 DEF QueryInv, ProgressInv, Closing
  <2>2. loop.at = "init" /\ st[k].state \in Waiting => k < loop.i
    <3>1. loop.at = "init" /\ Started(k) => k < loop.j \/ k < loop.i \/ k = loop.i
      BY DEF Started
    <3>2. st[k].state \in Waiting => Started(k) /\ k # loop.i
      BY <2>1 DEF Waiting
    <3>. QED BY <1>1, <1>4, <3>1, <3>2 DEF LoopType, Servers
  <2>3. k \in Int /\ loop.i \in Int /\ loop.j \in Int /\ loop.mc \in Int
    BY <1>1 DEF LoopType, Servers
  <2>. QED BY <1>2, <1>4, <2>1, <2>2, <2>3
<1>7. ProgressInv'
  BY <1>2, <1>6 DEF ProgressInv, Closing
<1>8. EventInv' /\ EndInv'
  BY <1>2 DEF EventInv, EndInv, Underway
<1>. QED BY <1>2, <1>3, <1>5, <1>7, <1>8

\* The loops over servers go on to the next one.
LEMMA Turned ==
  ASSUME QueryAssumption, QueryInv, loop.pc \in {"returned", "init", "events"},
         loop.i < loop.mc, loop.pc = "init" => loop.i < loop.j,
         loop.pc = "events" => loop.i \notin loop.ready,
         loop' = Turn(st[loop.i]), UNCHANGED <<st, sent, tests>>
  PROVE  /\ loop' \in LoopType /\ loop'.pc = loop.at
         /\ ServerInv' /\ LoopInv' /\ ProgressInv' /\ EventInv' /\ EndInv'
<1>1. /\ loop \in LoopType /\ loop.pc \notin Closing /\ loop.dc <= loop.i
      /\ loop.pc \in {"init", "events"} => loop.at = loop.pc
  BY DEF QueryInv, TypeInv, LoopInv, Underway, Closing
<1>2. PICK d \in 0..N, u \in BOOLEAN :
        /\ loop' = [loop EXCEPT !.pc = loop.at, !.i = loop.i + 1, !.udp = u, !.dc = d]
        /\ d = loop.dc \/ (d = loop.dc + 1 /\ loop.dc = loop.i /\ st[loop.i].state = "DONE")
        /\ d <= loop.i + 1
  <2>1. /\ loop.dc \in 0..N /\ loop.i \in 0..N /\ loop.i + 1 \in 0..N
        /\ (loop.udp \/ loop.at = "timeout") \in BOOLEAN
    BY <1>1, QueryAssumption DEF LoopType
  <2>2. PICK d : d = IF loop.at # "timeout" /\ st[loop.i].state = "DONE" /\ loop.i = loop.dc
                     THEN loop.dc + 1 ELSE loop.dc
    OBVIOUS
  <2>3. /\ d \in 0..N /\ d <= loop.i + 1
        /\ d = loop.dc \/ (d = loop.dc + 1 /\ loop.dc = loop.i /\ st[loop.i].state = "DONE")
    BY <1>1, <2>1, <2>2
  <2>. QED BY <2>1, <2>2, <2>3 DEF Turn
<1>3. /\ loop' \in LoopType /\ loop'.pc = loop.at /\ loop'.i = loop.i + 1 /\ loop'.dc = d
      /\ UNCHANGED <<loop.at, loop.j, loop.mc, loop.ready>>
  <2>1. loop.at \in Pcs /\ loop.i + 1 \in 0..N
    BY <1>1, QueryAssumption DEF LoopType, Pcs
  <2>. QED BY <1>1, <1>2, <2>1 DEF LoopType
<1>4. loop.at \in {"init", "events", "timeout"}
  BY <1>1 DEF LoopType
<1>5. ServerInv'
  BY <1>3, <1>4 DEF QueryInv, ServerInv, HasRead
<1>6. LoopInv'
  <2>1. /\ loop.dc \in Int /\ loop.i \in Int /\ loop.mc \in Int /\ loop.j \in Int
    BY <1>1 DEF LoopType
  <2>2. loop.mc = IF loop.j + ParQueries > N THEN N ELSE loop.j + ParQueries
    BY <1>1 DEF QueryInv, LoopInv, Closing
  <2>. QED BY <1>2, <1>3, <1>4, <2>1, <2>2 DEF LoopInv, Underway
<1>7. ASSUME NEW k \in Servers
      PROVE  /\ st[k].state \notin {"TCPINITIAL", "UDPINITIAL", "CANCELED"}
             /\ st[k].state = "INITIAL" <=> ~ Started(k)'
             /\ st[k].state \in Waiting => d <= k /\ k < loop.mc
             /\ st[k].needs = 2 => k < loop.mc /\ (loop.at = "init" => k < loop.j)
  <2>1. /\ st[k].state \notin {"TCPINITIAL", "UDPINITIAL", "CANCELED"}
        /\ st[k].state = "INITIAL" <=> ~ Started(k)
        /\ st[k].state \in Waiting => loop.dc <= k /\ k < loop.mc
        /\ st[k].needs = 2 => k < loop.mc /\ (loop.at = "init" => k < loop.j)
    BY <1>1 DEF QueryInv, ProgressInv, Closing
  <2>2. k \in Int /\ loop.i \in Int /\ loop.j \in Int /\ loop.mc \in Int /\ loop.dc \in Int
    BY <1>1 DEF LoopType, Servers
  <2>3. Started(k)' <=> Started(k)
    <3>1. CASE loop.at # "init"
      BY <1>3, <1>4, <3>1 DEF Started
    <3>2. CASE loop.at = "init"
      <4>1. Started(k)' <=> k < loop.j \/ k < loop.i + 1
        BY <1>3, <3>2 DEF Started
      <4>2. Started(k) <=> k < loop.j \/ k < loop.i \/ (k = loop.i /\ loop.pc = "returned")
        BY <3>2 DEF Started
      <4>3. loop.pc # "returned" => loop.i < loop.j
        BY <1>1, <3>2
      <4>. QED BY <2>2, <4>1, <4>2, <4>3
    <3>. QED BY <3>1, <3>2
  <2>4. st[k].state \in Waiting /\ d # loop.dc => k # loop.dc
    BY <1>2 DEF Waiting
  <2>. QED BY <1>2, <2>1, <2>2, <2>3, <2>4
<1>8. ProgressInv'
  BY <1>3, <1>4, <1>7 DEF ProgressInv, Closing
<1>9. EventInv'
  <2>1. SUFFICES ASSUME loop.at = "events", NEW k \in loop.ready
                 PROVE  /\ k \in Servers /\ loop.i + 1 <= k /\ k < loop.mc
                        /\ st[k].state \in Waiting
    BY <1>3, <1>4 DEF EventInv
  <2>2. /\ k \in Servers /\ loop.i <= k /\ k < loop.mc /\ st[k].state \in Waiting
        /\ loop.pc # "events" => loop.i # k
    BY <1>1, <2>1 DEF QueryInv, EventInv, Underway
  <2>3. loop.i # k
    BY <2>1, <2>2
  <2>. QED BY <1>1, <2>2, <2>3 DEF LoopType, Servers
<1>10. EndInv'
  BY <1>3, <1>4 DEF EndInv
<1>. QED BY <1>3, <1>5, <1>6, <1>8, <1>9, <1>10

\* No answer is handled, and what was put aside stays.
LEMMA AnswersStay ==
  ASSUME QueryInv, loop.pc \notin Closing, ~ Returned,
         loop'.pc \notin {"received", "returned", "authority", "ended"},
         UNCHANGED <<saved, answer, alive, quals, added>>,
         rv' = rv \/ rv' = "SERVFAIL"
  PROVE  AnswerInv' /\ AliveInv' /\ alive' \in [ent : Nat, ns : Nat]
<1>1. answer = Nothing /\ ~ Returned'
  BY DEF QueryInv, AnswerInv, Returned
<1>2. AnswerInv'
  BY <1>1 DEF QueryInv, AnswerInv, Clean, Closing, Returned
<1>3. AliveInv' /\ alive' \in [ent : Nat, ns : Nat]
  BY <1>1 DEF QueryInv, TypeInv, AliveInv, Returned, Closing, Bit
<1>. QED BY <1>2, <1>3

\* Nothing is to be used: what was put aside is freed.
LEMMA AnswersFreed ==
  ASSUME QueryInv, loop.pc \notin Closing, ~ Returned, loop'.pc = "cancel",
         saved' = Nothing, alive' = FreeSaved(alive), UNCHANGED <<answer, quals, added>>,
         rv' \notin {"OK", "CACHED", "STALE"}
  PROVE  AnswerInv' /\ AliveInv' /\ alive' \in [ent : Nat, ns : Nat]
<1>1. answer = Nothing /\ ~ Returned'
  BY DEF QueryInv, AnswerInv, Returned
<1>2. AnswerInv'
  BY <1>1 DEF QueryInv, AnswerInv, Clean, Closing, Returned
<1>3. alive' = [ent |-> 0, ns |-> 0]
  BY <1>1 DEF QueryInv, AliveInv, FreeSaved, Closing, Bit
<1>4. AliveInv'
  BY <1>1, <1>3 DEF AliveInv, Returned, Bit
<1>. QED BY <1>2, <1>3, <1>4

LEMMA ErrorReturnedKept ==
  ASSUME QueryAssumption, QueryInv, ErrorReturned
  PROVE  QueryInv'
<1>1. /\ loop.pc = "returned" /\ rv # "OK" /\ loop.pc \notin Closing /\ ~ Returned
      /\ loop.i < loop.mc /\ loop.at \in {"init", "events", "timeout"} /\ rv \notin {"CACHED", "STALE"}
      /\ rv # "again" => st[loop.i].state = "DONE"
  BY DEF ErrorReturned, Closing, Returned, Underway, QueryInv, TypeInv, LoopType, LoopInv,
         AnswerInv, ProgressInv
<1>2. UNCHANGED <<st, rv, answer, tests, added, sent, quals>>
  BY DEF ErrorReturned, history
<1>3. CASE rv \in {"NAMEERR", "FATALERR"}
  <2>1. loop' = ToCancel /\ alive' = FreeSaved(alive) /\ saved' = Nothing
    BY <1>3 DEF ErrorReturned
  <2>2. /\ loop' \in LoopType /\ loop'.pc = "cancel"
        /\ ServerInv' /\ LoopInv' /\ ProgressInv' /\ EventInv' /\ EndInv'
    BY <1>1, <1>2, <1>3, <2>1, Cancelled
  <2>3. AnswerInv' /\ AliveInv' /\ alive' \in [ent : Nat, ns : Nat]
    BY <1>1, <1>2, <1>3, <2>1, <2>2, AnswersFreed
  <2>. QED BY <1>2, <2>2, <2>3 DEF QueryInv, TypeInv
<1>4. CASE rv \notin {"NAMEERR", "FATALERR"}
  <2>1. loop' = Turn(st[loop.i]) /\ UNCHANGED <<alive, saved>>
    BY <1>4 DEF ErrorReturned
  <2>2. /\ loop' \in LoopType /\ loop'.pc = loop.at
        /\ ServerInv' /\ LoopInv' /\ ProgressInv' /\ EventInv' /\ EndInv'
    BY <1>1, <1>2, <2>1, Turned
  <2>3. AnswerInv' /\ AliveInv' /\ alive' \in [ent : Nat, ns : Nat]
    BY <1>1, <1>2, <2>1, <2>2, AnswersStay
  <2>. QED BY <1>2, <2>2, <2>3 DEF QueryInv, TypeInv
<1>. QED BY <1>3, <1>4

-----------------------------------------------------------------------------
(* An answer.                                                              *)

\* The state when an answer is there.
LEMMA AtAnswer ==
  ASSUME QueryAssumption, QueryInv, loop.pc = "returned", rv = "OK"
  PROVE  /\ loop.pc \in Underway /\ loop.pc \notin Closing /\ Returned
         /\ st[loop.i].state = "DONE" /\ loop.i \in Servers /\ st[loop.i] \in StType
         /\ loop.i < loop.mc /\ loop.at \in {"init", "events", "timeout"}
         /\ answer = Nothing /\ reply \in Sorts
         /\ Kind[loop.i].rejects => \A y \in reply.own : ~ y.bad
         /\ alive = [ent |-> 1 + Bit(saved # Nothing),
                     ns |-> Bit(reply.ns # {}) + Bit(saved # Nothing /\ saved.ns)]
<1>1. loop.pc \in Underway /\ loop.pc \notin Closing /\ Returned
  BY DEF Underway, Closing, Returned
<1>2. /\ st[loop.i].state = "DONE" /\ loop.i < loop.mc /\ loop.at \in {"init", "events", "timeout"}
      /\ answer = Nothing /\ reply \in Sorts
      /\ Kind[loop.i].rejects => \A y \in reply.own : ~ y.bad
  BY <1>1 DEF QueryInv, TypeInv, LoopType, LoopInv, ProgressInv, AnswerInv
<1>3. alive = [ent |-> 1 + Bit(saved # Nothing),
               ns |-> Bit(reply.ns # {}) + Bit(saved # Nothing /\ saved.ns)]
  <2>1. /\ alive \in [ent : Nat, ns : Nat] /\ alive.ent = 1 + Bit(saved # Nothing)
        /\ alive.ns = Bit(reply.ns # {}) + Bit(saved # Nothing /\ saved.ns)
    BY <1>1, <1>2 DEF QueryInv, TypeInv, AliveInv, Closing, Bit
  <2>. QED BY <2>1
<1>. QED BY <1>1, <1>2, <1>3, InHand

LEMMA QualityRange ==
  ASSUME NEW s \in StType, NEW authok \in {0, 1}
  PROVE  Quality(s, authok) \in 0..15
BY DEF Quality, StType

\* What auth_ok finds.
LEMMA AuthOkRange ==
  ASSUME NEW i, NEW x, NEW a \in auth_ok(i, x)
  PROVE  a.serv \in BOOLEAN
<1>1. PICK o \in {1, 0, -1}, v \in BOOLEAN : a = [ok |-> o, serv |-> v]
  BY DEF auth_ok
<1>. QED BY <1>1

\* The answer is used.
LEMMA UsedKept ==
  ASSUME QueryAssumption, QueryInv, loop.pc = "returned", rv = "OK", NEW a, a.serv \in BOOLEAN,
         answer' = [s |-> loop.i, q |-> Quality(st[loop.i], 1), serv |-> a.serv,
                    ns |-> reply.ns # {}, own |-> reply.own],
         alive' = FreeSaved(alive), saved' = Nothing, loop' = ToCancel,
         UNCHANGED <<st, rv, quals, tests, added, sent>>
  PROVE  QueryInv'
<1>1. /\ loop' \in LoopType /\ loop'.pc = "cancel"
      /\ ServerInv' /\ LoopInv' /\ ProgressInv' /\ EventInv' /\ EndInv'
  BY AtAnswer, Cancelled
<1>2. /\ answer' \in Outcome /\ answer'.s = loop.i /\ answer'.own = reply.own
      /\ answer'.ns = (reply.ns # {})
  <2>1. reply.own \in {Sorted[i][f][r].own : i \in Servers, f \in {0, 1, 3}, r \in Messages}
    BY AtAnswer DEF Sorts
  <2>2. Quality(st[loop.i], 1) \in 0..15 /\ loop.i \in Servers /\ (reply.ns # {}) \in BOOLEAN
    BY AtAnswer, QualityRange
  <2>. QED BY <2>1, <2>2 DEF Outcome
<1>3. answer' # Nothing
  BY <1>2, NothingAssumption
<1>4. alive' = [ent |-> 1, ns |-> Bit(reply.ns # {})]
  BY AtAnswer DEF FreeSaved, Bit
<1>5. Clean(answer)'
  BY <1>2, AtAnswer DEF Clean
<1>6. AnswerInv'
  BY <1>1, <1>2, <1>3, <1>5 DEF QueryInv, AnswerInv, Closing, Returned
<1>7. alive'.ent = 1 /\ alive'.ns = Bit(answer'.ns) /\ alive' \in [ent : Nat, ns : Nat]
  <2>1. Bit(reply.ns # {}) \in Nat /\ Bit(answer'.ns) = Bit(reply.ns # {})
    BY <1>2 DEF Bit
  <2>. QED BY <1>4, <2>1
<1>8. AliveInv'
  BY <1>1, <1>3, <1>7 DEF AliveInv, Returned, Bit
<1>. QED BY <1>1, <1>6, <1>7, <1>8 DEF QueryInv, TypeInv

\* There is no memory for the servers to ask.
LEMMA GivenUpKept ==
  ASSUME QueryAssumption, QueryInv, loop.pc = "returned", rv = "OK", rv' = "FATALERR",
         alive' = FreeSaved([ent |-> alive.ent - 1,
                             ns |-> alive.ns - (IF reply.ns = {} THEN 0 ELSE 1)]),
         saved' = Nothing, loop' = ToCancel,
         UNCHANGED <<st, answer, quals, tests, added, sent>>
  PROVE  QueryInv'
<1>1. /\ loop' \in LoopType /\ loop'.pc = "cancel"
      /\ ServerInv' /\ LoopInv' /\ ProgressInv' /\ EventInv' /\ EndInv'
  BY AtAnswer, Cancelled
<1>2. alive' = [ent |-> 0, ns |-> 0]
  BY AtAnswer DEF FreeSaved, Bit
<1>3. AnswerInv'
  BY <1>1, AtAnswer DEF QueryInv, AnswerInv, Closing, Returned
<1>4. AliveInv' /\ alive' \in [ent : Nat, ns : Nat]
  BY <1>1, <1>2, AtAnswer DEF AliveInv, Returned, Bit
<1>. QED BY <1>1, <1>3, <1>4 DEF QueryInv, TypeInv

\* The answer is put aside.
LEMMA AsideKept ==
  ASSUME QueryAssumption, QueryInv, loop.pc = "returned", rv = "OK", NEW a,
         a.ok \in {0, 1}, a.serv \in BOOLEAN, save_query_result(a),
         loop'.pc \notin Closing \cup {"received", "returned"},
         UNCHANGED <<rv, answer, added>>
  PROVE  AnswerInv' /\ AliveInv' /\ alive' \in [ent : Nat, ns : Nat]
<1>. DEFINE q == Quality(st[loop.i], a.ok)
            ns == reply.ns # {}
            had == saved # Nothing
<1>1. PICK new : new = [s |-> loop.i, q |-> q, serv |-> a.serv, ns |-> ns /\ a.serv, own |-> reply.own]
  OBVIOUS
<1>2. /\ new \in Outcome /\ new.s = loop.i /\ new.own = reply.own /\ new.q = q
      /\ new.ns = (ns /\ a.serv)
  <2>1. reply.own \in {Sorted[i][f][r].own : i \in Servers, f \in {0, 1, 3}, r \in Messages}
    BY AtAnswer DEF Sorts
  <2>2. q \in 0..15 /\ loop.i \in Servers /\ (ns /\ a.serv) \in BOOLEAN
    BY AtAnswer, QualityRange
  <2>. QED BY <1>1, <2>1, <2>2 DEF Outcome
<1>3. new # Nothing /\ Clean(new) /\ q \in 0..15
  BY <1>2, NothingAssumption, AtAnswer, QualityRange DEF Clean
<1>4. /\ saved' = (IF Better(q) THEN new ELSE saved) /\ quals' = quals \cup {q}
      /\ alive' = [ent |-> alive.ent - (IF had THEN 1 ELSE 0),
                   ns  |-> alive.ns - (IF Better(q)
                                       THEN (IF had /\ saved.ns THEN 1 ELSE 0)
                                            + (IF ns /\ ~ a.serv THEN 1 ELSE 0)
                                       ELSE IF ns THEN 1 ELSE 0)]
  BY <1>1 DEF save_query_result
<1>5. /\ had => saved \in Outcome /\ Clean(saved) /\ saved.q \in quals /\ saved.q \in Int
                /\ \A x \in quals : x <= saved.q
      /\ ~ had => quals = {}
      /\ quals \subseteq Int
  BY AtAnswer DEF QueryInv, AnswerInv, Outcome
<1>6. /\ saved' # Nothing /\ saved' \in Outcome /\ Clean(saved)' /\ saved'.q \in quals'
      /\ \A x \in quals' : x <= saved'.q
  <2>1. CASE Better(q)
    <3>1. saved' = new
      BY <1>4, <2>1
    <3>2. Clean(saved)'
      BY <1>3, <3>1 DEF Clean
    <3>3. ASSUME NEW x \in quals
          PROVE  x <= q
      BY <1>3, <1>5, <2>1 DEF Better
    <3>. QED BY <1>2, <1>3, <1>4, <3>1, <3>2, <3>3
  <2>2. CASE ~ Better(q)
    <3>1. saved' = saved /\ had /\ q <= saved.q
      BY <1>3, <1>4, <1>5, <2>2 DEF Better
    <3>2. Clean(saved)'
      BY <1>5, <3>1 DEF Clean
    <3>. QED BY <1>4, <1>5, <3>1, <3>2
  <2>. QED BY <2>1, <2>2
<1>7. quals' \subseteq Int
  <2>1. quals' = quals \cup {q}
    BY <1>4
  <2>2. q \in Int
    BY <1>3
  <2>3. quals \subseteq Int
    BY <1>5
  <2>. QED BY <2>1, <2>2, <2>3
<1>8. ~ Returned' /\ answer' = Nothing
  BY AtAnswer DEF Returned
<1>9. AnswerInv'
  BY <1>6, <1>7, <1>8 DEF QueryInv, AnswerInv, Closing
<1>10. alive' = [ent |-> 1, ns |-> Bit(saved'.ns)]
  <2>1. CASE Better(q)
    <3>1. saved' = new
      BY <1>4, <2>1
    <3>2. alive'.ns = alive.ns - ((IF had /\ saved.ns THEN 1 ELSE 0)
                                  + (IF ns /\ ~ a.serv THEN 1 ELSE 0))
          /\ alive'.ent = alive.ent - (IF had THEN 1 ELSE 0)
      BY <1>4, <2>1
    <3>3. /\ alive.ent = 1 + (IF had THEN 1 ELSE 0)
          /\ alive.ns = (IF ns THEN 1 ELSE 0) + (IF had /\ saved.ns THEN 1 ELSE 0)
      BY AtAnswer DEF Bit
    <3>4. alive'.ent = 1 /\ alive'.ns = IF ns /\ a.serv THEN 1 ELSE 0
      BY <3>2, <3>3
    <3>5. Bit(saved'.ns) = IF ns /\ a.serv THEN 1 ELSE 0
      BY <1>2, <3>1 DEF Bit
    <3>6. alive' = [ent |-> alive'.ent, ns |-> alive'.ns]
      BY <1>4
    <3>. QED BY <3>4, <3>5, <3>6
  <2>2. CASE ~ Better(q)
    <3>1. saved' = saved /\ had
      BY <1>4, <2>2 DEF Better
    <3>. QED BY <1>4, <2>2, <3>1, AtAnswer DEF Bit
  <2>. QED BY <2>1, <2>2
<1>11. AliveInv' /\ alive' \in [ent : Nat, ns : Nat]
  BY <1>6, <1>8, <1>10 DEF AliveInv, Bit, Closing
<1>. QED BY <1>9, <1>11

\* It was truncated: the server is asked again over TCP.
LEMMA AskedAgain ==
  ASSUME QueryAssumption, QueryInv, loop.pc = "returned", rv = "OK",
         st[loop.i].qm = "UDP_TCP", st' = [st EXCEPT ![loop.i] = switch_to_tcp(st[loop.i])],
         loop' = [loop EXCEPT !.pc = "exec"], UNCHANGED <<tests, sent>>
  PROVE  /\ st' \in [Servers -> StType] /\ loop' \in LoopType /\ loop'.pc = "exec"
         /\ ServerInv' /\ LoopInv' /\ ProgressInv' /\ EventInv' /\ EndInv'
<1>1. PICK s \in StType : s = st[loop.i]
  BY AtAnswer
<1>2. PICK u : u = switch_to_tcp(s)
  OBVIOUS
<1>3. /\ u \in StType /\ u.state = "INITIAL" /\ u.sock = s.sock /\ u.msg = s.msg /\ u.buf = s.buf
      /\ u.needs = s.needs /\ u.qm = "TCP_ONLY" /\ u.rd = s.rd /\ u.edns = s.edns /\ u.opt = s.opt
  BY <1>2 DEF switch_to_tcp, StType, States, Methods4
<1>4. /\ s.sock = "closed" /\ s.msg \in {"null", "dead"} /\ s.buf \in {"null", "dead", "refreed"} /\ (s.opt => s.edns)
      /\ sent[loop.i] \in Nat /\ sent[loop.i] + Remaining(s) <= 5
  <2>1. ~ HasRead(loop.i) /\ s.state = "DONE"
    BY <1>1, AtAnswer DEF HasRead
  <2>. QED BY <1>1, <2>1, AtAnswer, InHand DEF Owns, Waiting
<1>5. Handles(u, "exec") /\ "exec" \in Underway
  BY <1>1, <1>2 DEF Handles, Underway
<1>6. Fits(u, "exec")
  BY <1>1, <1>3, <1>4 DEF Fits, Owns, Waiting
<1>7. Counts(u, 0)
  <2>1. Remaining(u) <= Remaining(s)
    BY <1>1, <1>3, AtAnswer DEF Remaining, Bit
  <2>2. sent[loop.i] + 0 + Remaining(u) <= 5
    BY <1>3, <1>4, <2>1, Few
  <2>. QED BY <2>2 DEF Counts
<1>8. Told(u)
  BY <1>1, <1>3 DEF Told
<1>9. /\ st' \in [Servers -> StType] /\ loop' \in LoopType
      /\ ServerInv' /\ LoopInv' /\ ProgressInv' /\ EventInv'
  BY <1>5, <1>6, <1>7, <1>8, ServerKept, AtAnswer
<1>10. loop'.pc = "exec"
  BY DEF QueryInv, TypeInv, LoopType
<1>. QED BY <1>9, <1>10 DEF EndInv

LEMMA AnswerReturnedKept ==
  ASSUME QueryAssumption, QueryInv, AnswerReturned
  PROVE  QueryInv'
<1>. DEFINE s == st[loop.i]
            again == loop.at # "timeout" /\ s.qm = "UDP_TCP" /\ s.tc
<1>1. loop.pc = "returned" /\ rv = "OK" /\ UNCHANGED <<tests, added, sent>>
  BY DEF AnswerReturned
<1>2. PICK a \in auth_ok(loop.i, reply) :
        \/ /\ answer' = [s |-> loop.i, q |-> Quality(s, 1), serv |-> a.serv,
                         ns |-> reply.ns # {}, own |-> reply.own]
           /\ alive' = FreeSaved(alive) /\ saved' = Nothing
           /\ loop' = ToCancel
           /\ UNCHANGED <<st, rv, quals>>
        \/ /\ rv' = "FATALERR"
           /\ alive' = FreeSaved([ent |-> alive.ent - 1,
                                  ns |-> alive.ns - (IF reply.ns = {} THEN 0 ELSE 1)])
           /\ saved' = Nothing /\ loop' = ToCancel
           /\ UNCHANGED <<st, answer, quals>>
        \/ /\ a.ok \in {0, 1}
           /\ save_query_result(a)
           /\ st' = IF again THEN [st EXCEPT ![loop.i] = switch_to_tcp(s)] ELSE st
           /\ loop' = IF again THEN [loop EXCEPT !.pc = "exec"] ELSE Turn(s)
           /\ UNCHANGED <<rv, answer>>
  BY DEF AnswerReturned
<1>3. a.serv \in BOOLEAN
  BY AuthOkRange
<1>4. CASE /\ answer' = [s |-> loop.i, q |-> Quality(s, 1), serv |-> a.serv,
                         ns |-> reply.ns # {}, own |-> reply.own]
           /\ alive' = FreeSaved(alive) /\ saved' = Nothing
           /\ loop' = ToCancel
           /\ UNCHANGED <<st, rv, quals>>
  BY <1>1, <1>3, <1>4, UsedKept
<1>5. CASE /\ rv' = "FATALERR"
           /\ alive' = FreeSaved([ent |-> alive.ent - 1,
                                  ns |-> alive.ns - (IF reply.ns = {} THEN 0 ELSE 1)])
           /\ saved' = Nothing /\ loop' = ToCancel
           /\ UNCHANGED <<st, answer, quals>>
  BY <1>1, <1>5, GivenUpKept
<1>6. CASE /\ a.ok \in {0, 1}
           /\ save_query_result(a)
           /\ st' = IF again THEN [st EXCEPT ![loop.i] = switch_to_tcp(s)] ELSE st
           /\ loop' = IF again THEN [loop EXCEPT !.pc = "exec"] ELSE Turn(s)
           /\ UNCHANGED <<rv, answer>>
  <2>1. /\ st' \in [Servers -> StType] /\ loop' \in LoopType
        /\ loop'.pc \in {"exec", "init", "events", "timeout"}
        /\ ServerInv' /\ LoopInv' /\ ProgressInv' /\ EventInv' /\ EndInv'
    <3>1. CASE again
      BY <1>1, <1>6, <3>1, AskedAgain
    <3>2. CASE ~ again
      BY <1>1, <1>6, <3>2, AtAnswer, Turned DEF QueryInv, TypeInv
    <3>. QED BY <3>1, <3>2
  <2>2. AnswerInv' /\ AliveInv' /\ alive' \in [ent : Nat, ns : Nat]
    BY <1>1, <1>3, <1>6, <2>1, AsideKept DEF Closing
  <2>. QED BY <1>1, <2>1, <2>2 DEF QueryInv, TypeInv
<1>. QED BY <1>2, <1>4, <1>5, <1>6

-----------------------------------------------------------------------------
(* The loops of p_recursive_query.                                         *)

\* Between the calls of p_exec_query, only loop changes, and poll sets rv.
Stays ==
  /\ UNCHANGED <<st, reply, saved, answer, alive, tests, added, sent, quals>>
  /\ rv' = rv \/ rv' = "SERVFAIL"

LEMMA LoopSteps ==
  ASSUME QueryInv, Stays, loop.pc \in {"batch", "init", "poll", "events", "timeout"},
         loop' \in LoopType, loop'.pc \notin {"received", "returned", "authority", "ended"},
         LoopInv', ProgressInv', EventInv'
  PROVE  QueryInv'
<1>1. loop.pc \notin Closing /\ ~ Returned
  BY DEF Closing, Returned
<1>2. AnswerInv' /\ AliveInv' /\ alive' \in [ent : Nat, ns : Nat]
  BY <1>1, AnswersStay DEF Stays
<1>3. ServerInv'
  BY DEF Stays, QueryInv, ServerInv, HasRead
<1>4. EndInv'
  BY DEF EndInv
<1>. QED BY <1>2, <1>3, <1>4 DEF Stays, QueryInv, TypeInv

\* Between the calls, when every server of the batch has been called.
LEMMA AllStarted ==
  ASSUME QueryAssumption, QueryInv,
         loop.pc \in {"poll", "timeout"} \/ (loop.pc \in {"init", "events"} /\ loop.i = loop.mc)
  PROVE  /\ loop \in LoopType /\ loop.dc <= loop.mc
         /\ loop.mc = (IF loop.j + ParQueries > N THEN N ELSE loop.j + ParQueries)
         /\ \A k \in Servers :
              /\ st[k].state \notin {"TCPINITIAL", "UDPINITIAL", "CANCELED"}
              /\ st[k].state = "INITIAL" <=> ~ (k < loop.mc)
              /\ st[k].state \in Waiting => loop.dc <= k /\ k < loop.mc
              /\ st[k].needs = 2 => k < loop.mc
<1>1. /\ loop \in LoopType /\ loop.dc <= loop.mc /\ loop.pc \notin Closing /\ loop.pc # "batch"
      /\ loop.mc = (IF loop.j + ParQueries > N THEN N ELSE loop.j + ParQueries)
      /\ loop.pc \in {"init", "events", "timeout"} => loop.at = loop.pc
      /\ loop.pc = "poll" /\ loop.at = "init" => loop.i = loop.mc
  BY DEF QueryInv, TypeInv, LoopInv, Closing
<1>2. ASSUME NEW k \in Servers
      PROVE  Started(k) <=> k < loop.mc
  <2>1. /\ k \in Int /\ loop.i \in Int /\ loop.j \in Int /\ loop.mc \in Int
        /\ loop.j <= loop.mc
    BY <1>1, QueryAssumption DEF LoopType, Servers
  <2>2. CASE loop.at = "init"
    <3>1. loop.i = loop.mc
      BY <1>1, <2>2
    <3>. QED BY <1>1, <2>1, <2>2, <3>1 DEF Started
  <2>3. CASE loop.at # "init"
    BY <1>1, <2>3 DEF Started
  <2>. QED BY <2>2, <2>3
<1>3. ASSUME NEW k \in Servers
      PROVE  /\ st[k].state \notin {"TCPINITIAL", "UDPINITIAL", "CANCELED"}
             /\ st[k].state = "INITIAL" <=> ~ Started(k)
             /\ st[k].state \in Waiting => loop.dc <= k /\ k < loop.mc
             /\ st[k].needs = 2 => k < loop.mc
  BY <1>1 DEF QueryInv, ProgressInv, Closing
<1>. QED BY <1>1, <1>2, <1>3

\* The next batch.
LEMMA Batched ==
  ASSUME QueryAssumption, QueryInv, Stays,
         loop.pc \in {"poll", "timeout"} \/ (loop.pc \in {"init", "events"} /\ loop.i = loop.mc),
         NEW d \in 0..N, d <= loop.mc,
         \A k \in Servers : st[k].state \in Waiting => d <= k,
         loop' = NextBatch([loop EXCEPT !.dc = d])
  PROVE  QueryInv'
<1>1. /\ loop \in LoopType /\ loop.dc <= loop.mc
      /\ loop.mc = (IF loop.j + ParQueries > N THEN N ELSE loop.j + ParQueries)
      /\ \A k \in Servers :
           /\ st[k].state \notin {"TCPINITIAL", "UDPINITIAL", "CANCELED"}
           /\ st[k].state = "INITIAL" <=> ~ (k < loop.mc)
           /\ st[k].state \in Waiting => loop.dc <= k /\ k < loop.mc
           /\ st[k].needs = 2 => k < loop.mc
  BY AllStarted
<1>2. loop.pc \in {"batch", "init", "poll", "events", "timeout"}
  OBVIOUS
<1>3. PICK l \in LoopType : l = [loop EXCEPT !.dc = d]
  BY <1>1 DEF LoopType
<1>4. /\ l.pc = loop.pc /\ l.at = loop.at /\ l.i = loop.i /\ l.j = loop.j /\ l.dc = d
      /\ l.mc = loop.mc /\ l.ready = loop.ready
  BY <1>1, <1>3 DEF LoopType
<1>5. CASE loop.j + ParQueries >= N
  <2>1. loop' = [l EXCEPT !.pc = "cancel"]
    BY <1>3, <1>4, <1>5 DEF NextBatch
  <2>2. /\ loop' \in LoopType /\ loop'.pc = "cancel" /\ loop'.dc = d /\ loop'.mc = loop.mc
    BY <1>4, <2>1 DEF LoopType, Pcs
  <2>3. LoopInv' /\ EventInv'
    BY <2>2 DEF LoopInv, EventInv, Underway
  <2>4. ProgressInv'
    BY <1>1, <2>2 DEF Stays, ProgressInv, Closing
  <2>. QED BY <1>2, <2>2, <2>3, <2>4, LoopSteps
<1>6. CASE loop.j + ParQueries < N
  <2>1. PICK j \in 0..(N - 1), m \in 0..N :
          /\ j = loop.j + ParQueries /\ m = (IF j + ParQueries > N THEN N ELSE j + ParQueries)
          /\ loop' = [l EXCEPT !.pc = "init", !.at = "init", !.j = j, !.i = l.dc, !.mc = m]
    <3>1. PICK j : j = loop.j + ParQueries
      OBVIOUS
    <3>2. PICK m : m = IF j + ParQueries > N THEN N ELSE j + ParQueries
      OBVIOUS
    <3>3. j \in 0..(N - 1) /\ m \in 0..N
      BY <1>1, <1>6, <3>1, <3>2, QueryAssumption DEF LoopType
    <3>4. loop' = [l EXCEPT !.pc = "init", !.at = "init", !.j = j, !.i = l.dc, !.mc = m]
      BY <1>3, <1>4, <1>6, <3>1, <3>2, <3>3 DEF NextBatch
    <3>. QED BY <3>1, <3>2, <3>3, <3>4
  <2>2. /\ loop' \in LoopType /\ loop'.pc = "init" /\ loop'.at = "init" /\ loop'.j = j
        /\ loop'.i = d /\ loop'.dc = d /\ loop'.mc = m
    BY <1>4, <2>1 DEF LoopType, Pcs
  <2>3. j = loop.mc /\ j <= m
    BY <1>1, <1>6, <2>1, QueryAssumption DEF LoopType
  <2>4. LoopInv'
    BY <2>1, <2>2, <2>3 DEF LoopInv, Underway
  <2>5. EventInv'
    BY <2>2 DEF EventInv, Underway
  <2>6. ASSUME NEW k \in Servers
        PROVE  /\ Started(k)' <=> k < loop.mc
               /\ st[k].needs = 2 => k < m /\ k < j
               /\ st[k].state \in Waiting => d <= k /\ k < m
    <3>1. /\ k \in Int /\ d \in Int /\ m \in Int /\ j \in Int
      BY DEF Servers
    <3>2. Started(k)' <=> k < j \/ k < d
      BY <2>2 DEF Started
    <3>. QED BY <1>1, <2>3, <3>1, <3>2
  <2>7. ProgressInv'
    BY <1>1, <2>2, <2>3, <2>6 DEF Stays, ProgressInv, Closing
  <2>. QED BY <1>2, <2>2, <2>4, <2>5, <2>7, LoopSteps
<1>. QED BY <1>1, <1>5, <1>6, QueryAssumption DEF LoopType

LEMMA StartKept ==
  ASSUME QueryAssumption, QueryInv, Start
  PROVE  QueryInv'
<1>1. /\ loop \in LoopType /\ loop.pc = "batch" /\ loop.at = "init" /\ loop.i = 0 /\ loop.j = 0
      /\ loop.mc = 0 /\ loop.dc = 0
  BY DEF Start, QueryInv, TypeInv, LoopInv, LoopType
<1>2. PICK m \in 0..N : /\ m = (IF ParQueries > N THEN N ELSE ParQueries)
                        /\ loop' = [loop EXCEPT !.pc = "init", !.mc = m]
  <2>1. PICK m : m = IF ParQueries > N THEN N ELSE ParQueries
    OBVIOUS
  <2>2. m \in 0..N
    BY <2>1, QueryAssumption
  <2>. QED BY <2>1, <2>2 DEF Start
<1>3. /\ loop' \in LoopType /\ loop'.pc = "init" /\ loop'.at = "init" /\ loop'.i = 0
      /\ loop'.j = 0 /\ loop'.dc = 0 /\ loop'.mc = m
  BY <1>1, <1>2 DEF LoopType, Pcs
<1>4. Stays
  BY DEF Start, Stays, history
<1>5. LoopInv' /\ EventInv'
  BY <1>2, <1>3, QueryAssumption DEF LoopInv, EventInv, Underway
<1>6. ASSUME NEW k \in Servers
      PROVE  st[k].state = "INITIAL" /\ st[k].needs # 2 /\ ~ Started(k)'
  <2>1. st[k].state = "INITIAL" /\ st[k].needs # 2
    BY <1>1 DEF QueryInv, ProgressInv, Closing, Started, Servers
  <2>2. ~ Started(k)'
    BY <1>3 DEF Started, Servers
  <2>. QED BY <2>1, <2>2
<1>7. ProgressInv'
  BY <1>3, <1>4, <1>6 DEF Stays, ProgressInv, Closing, Waiting
<1>. QED BY <1>1, <1>3, <1>4, <1>5, <1>7, LoopSteps

\* A server is called: p_exec_query has it in hand.
LEMMA CallKept ==
  ASSUME QueryAssumption, QueryInv, Stays, loop.pc \in {"init", "events"}, loop.i < loop.mc,
         loop.pc = "init" => loop.j <= loop.i, NEW R \in SUBSET Servers, R \subseteq loop.ready,
         loop.pc = "events" => loop.i \notin R,
         loop' = [loop EXCEPT !.pc = "exec", !.ready = R]
  PROVE  QueryInv'
<1>1. /\ loop \in LoopType /\ loop.pc \notin Closing /\ loop.dc <= loop.i /\ loop.at = loop.pc
  BY DEF QueryInv, TypeInv, LoopInv, Closing
<1>2. /\ loop' \in LoopType /\ loop'.pc = "exec" /\ loop'.ready = R
      /\ UNCHANGED <<loop.at, loop.i, loop.j, loop.mc, loop.dc>>
  BY <1>1 DEF LoopType, Pcs
<1>3. LoopInv'
  BY <1>1, <1>2 DEF QueryInv, LoopInv, Underway
<1>4. EventInv'
  <2>1. SUFFICES ASSUME loop.at = "events", NEW k \in R
                 PROVE  /\ k \in Servers /\ loop.i <= k /\ k < loop.mc /\ loop.i # k
                        /\ st[k].state \in Waiting
    BY <1>2 DEF Stays, EventInv
  <2>. QED BY <1>1, <2>1 DEF QueryInv, EventInv
<1>5. ASSUME NEW k \in Servers
      PROVE  Started(k)' <=> Started(k)
  BY <1>1, <1>2 DEF Started
<1>6. ProgressInv'
  BY <1>1, <1>2, <1>5 DEF Stays, QueryInv, ProgressInv, Closing
<1>. QED BY <1>2, <1>3, <1>4, <1>6, LoopSteps

\* The loop goes on to the next server.
LEMMA NextKept ==
  ASSUME QueryAssumption, QueryInv, Stays, loop.pc \in {"init", "events"}, loop.i < loop.mc,
         loop.pc = "init" => loop.i < loop.j, loop.pc = "events" => loop.i \notin loop.ready,
         loop' = Turn(st[loop.i])
  PROVE  QueryInv'
<1>1. /\ loop' \in LoopType /\ loop'.pc = loop.at /\ loop.at = loop.pc
      /\ LoopInv' /\ ProgressInv' /\ EventInv'
  BY Turned DEF Stays, QueryInv, LoopInv
<1>. QED BY <1>1, LoopSteps

\* All servers of the batch were called: poll.
LEMMA ToPollKept ==
  ASSUME QueryAssumption, QueryInv, Stays, loop.pc \in {"init", "events", "timeout"},
         loop.i = loop.mc, loop' = [loop EXCEPT !.pc = "poll"]
  PROVE  QueryInv'
<1>1. /\ loop \in LoopType /\ loop.dc <= loop.mc /\ loop.pc \notin Closing /\ loop.at = loop.pc
  BY DEF QueryInv, TypeInv, LoopInv, Closing
<1>2. /\ loop' \in LoopType /\ loop'.pc = "poll"
      /\ UNCHANGED <<loop.at, loop.i, loop.j, loop.mc, loop.dc, loop.ready>>
  BY <1>1 DEF LoopType, Pcs
<1>3. LoopInv' /\ EventInv'
  BY <1>1, <1>2 DEF QueryInv, LoopInv, EventInv, Underway
<1>4. ASSUME NEW k \in Servers
      PROVE  Started(k)' <=> Started(k)
  BY <1>1, <1>2 DEF Started
<1>5. ProgressInv'
  BY <1>1, <1>2, <1>4 DEF Stays, QueryInv, ProgressInv, Closing
<1>. QED BY <1>2, <1>3, <1>5, LoopSteps

\* All servers of the batch were called, none is waited for.
LEMMA ToNextBatchKept ==
  ASSUME QueryAssumption, QueryInv, Stays,
         loop.pc = "timeout" \/ (loop.pc \in {"init", "events"} /\ loop.i = loop.mc),
         loop' = NextBatch(loop)
  PROVE  QueryInv'
<1>1. /\ loop \in LoopType /\ loop.dc <= loop.mc
      /\ \A k \in Servers : st[k].state \in Waiting => loop.dc <= k
  BY AllStarted
<1>2. loop.dc \in 0..N /\ loop = [loop EXCEPT !.dc = loop.dc]
  BY <1>1 DEF LoopType
<1>. QED BY <1>1, <1>2, Batched

LEMMA StartQueriesKept ==
  ASSUME QueryAssumption, QueryInv, StartQueries
  PROVE  QueryInv'
<1>1. /\ loop \in LoopType /\ loop.pc = "init" /\ loop.i <= loop.mc /\ Stays
      /\ loop.j \in Int /\ loop.i \in Int /\ loop.mc \in Int
  BY DEF StartQueries, QueryInv, TypeInv, LoopInv, LoopType, Stays, history
<1>2. CASE loop.i = loop.mc
  BY <1>1, <1>2, ToPollKept, ToNextBatchKept DEF StartQueries
<1>3. CASE loop.i # loop.mc /\ loop.i >= loop.j
  <2>1. PICK R \in SUBSET Servers : R = loop.ready
    BY <1>1 DEF LoopType
  <2>2. loop' = [loop EXCEPT !.pc = "exec", !.ready = R]
    BY <1>1, <1>3, <2>1 DEF StartQueries, LoopType
  <2>3. loop.i < loop.mc /\ loop.j <= loop.i /\ R \subseteq loop.ready
    BY <1>1, <1>3, <2>1
  <2>. QED BY <1>1, <2>2, <2>3, CallKept
<1>4. CASE loop.i # loop.mc /\ ~ (loop.i >= loop.j)
  BY <1>1, <1>4, NextKept DEF StartQueries
<1>. QED BY <1>2, <1>3, <1>4

LEMMA EventsKept ==
  ASSUME QueryAssumption, QueryInv, Events
  PROVE  QueryInv'
<1>1. /\ loop \in LoopType /\ loop.pc = "events" /\ loop.at = "events" /\ loop.i <= loop.mc
      /\ loop.i \in Int /\ loop.mc \in Int /\ UNCHANGED <<st, reply, answer, tests, added, sent, quals>>
  BY DEF Events, QueryInv, TypeInv, LoopInv, LoopType, history
<1>2. \A k \in loop.ready : /\ k \in Servers /\ loop.i <= k /\ k < loop.mc
                            /\ st[k].state \in Waiting
  BY <1>1 DEF QueryInv, EventInv, Underway
<1>3. CASE loop.i < loop.mc
  <2>1. Stays
    BY <1>1, <1>3 DEF Events, Stays
  <2>2. CASE loop.i \in loop.ready
    <3>1. loop' = [loop EXCEPT !.pc = "exec", !.ready = loop.ready \ {loop.i}]
      BY <1>2, <1>3, <2>2 DEF Events
    <3>2. loop.ready \ {loop.i} \in SUBSET Servers
      BY <1>1 DEF LoopType
    <3>. QED BY <1>1, <1>3, <2>1, <3>1, <3>2, CallKept
  <2>3. CASE loop.i \notin loop.ready
    <3>1. loop' = Turn(st[loop.i])
      BY <1>3, <2>3 DEF Events
    <3>. QED BY <1>1, <1>3, <2>1, <2>3, <3>1, NextKept
  <2>. QED BY <2>2, <2>3
<1>4. CASE ~ (loop.i < loop.mc)
  <2>1. loop.i = loop.mc /\ loop.ready = {}
    <3>1. loop.i = loop.mc
      BY <1>1, <1>4
    <3>2. ASSUME NEW k \in loop.ready
          PROVE  FALSE
      BY <1>1, <1>2, <3>1 DEF Servers
    <3>. QED BY <3>1, <3>2
  <2>2. Stays
    BY <1>1, <1>4, <2>1 DEF Events, Stays
  <2>3. loop' = [loop EXCEPT !.pc = "poll"] \/ loop' = NextBatch(loop)
    BY <1>4, <2>1 DEF Events
  <2>. QED BY <1>1, <2>1, <2>2, <2>3, ToPollKept, ToNextBatchKept
<1>. QED BY <1>3, <1>4

LEMMA PollKept ==
  ASSUME QueryAssumption, QueryInv, Poll
  PROVE  QueryInv'
<1>1. /\ loop.pc = "poll" /\ loop \in LoopType /\ loop.dc <= loop.mc
      /\ loop.mc = (IF loop.j + ParQueries > N THEN N ELSE loop.j + ParQueries)
      /\ \A k \in Servers :
           /\ st[k].state \notin {"TCPINITIAL", "UDPINITIAL", "CANCELED"}
           /\ st[k].state = "INITIAL" <=> ~ (k < loop.mc)
           /\ st[k].state \in Waiting => loop.dc <= k /\ k < loop.mc
           /\ st[k].needs = 2 => k < loop.mc
  BY AllStarted DEF Poll
<1>2. /\ UNCHANGED <<st, reply, answer, tests, added, sent, quals>> /\ rv' = "SERVFAIL"
  BY DEF Poll, history
<1>3. /\ loop.dc \in 0..N /\ loop.mc \in 0..N /\ loop.j \in 0..(N - 1) /\ loop.j <= loop.mc
  BY <1>1, QueryAssumption DEF LoopType
<1>4. CASE /\ Pending = {} /\ loop' = NextBatch([loop EXCEPT !.dc = loop.mc])
           /\ UNCHANGED <<alive, saved>>
  <2>1. ASSUME NEW k \in Servers, st[k].state \in Waiting
        PROVE  FALSE
    <3>1. k \in loop.dc..(loop.mc - 1) /\ st[k].state # "DONE"
      BY <1>1, <1>3, <2>1 DEF Servers, Waiting
    <3>. QED BY <1>4, <3>1 DEF Pending
  <2>2. Stays
    BY <1>2, <1>4 DEF Stays
  <2>. QED BY <1>1, <1>3, <1>4, <2>1, <2>2, Batched
<1>5. CASE /\ loop' = [loop EXCEPT !.pc = "cancel"]
           /\ alive' = FreeSaved(alive) /\ saved' = Nothing
  <2>1. /\ loop' \in LoopType /\ loop'.pc = "cancel" /\ loop'.dc = loop.dc /\ loop'.mc = loop.mc
    BY <1>1, <1>5 DEF LoopType, Pcs
  <2>2. LoopInv' /\ EventInv' /\ EndInv'
    BY <1>1, <2>1 DEF LoopInv, EventInv, EndInv, Underway
  <2>3. ProgressInv'
    BY <1>1, <1>2, <2>1 DEF ProgressInv, Closing
  <2>4. ServerInv'
    BY <1>1, <1>2, <2>1 DEF QueryInv, ServerInv, HasRead
  <2>5. AnswerInv' /\ AliveInv' /\ alive' \in [ent : Nat, ns : Nat]
    BY <1>1, <1>2, <1>5, <2>1, AnswersFreed DEF Closing, Returned
  <2>. QED BY <1>2, <2>1, <2>2, <2>3, <2>4, <2>5 DEF QueryInv, TypeInv
<1>6. CASE /\ UNCHANGED <<alive, saved>>
           /\ loop' = [loop EXCEPT !.pc = "timeout", !.at = "timeout", !.i = loop.j, !.udp = FALSE]
  <2>1. /\ loop' \in LoopType /\ loop'.pc = "timeout" /\ loop'.at = "timeout"
        /\ loop'.i = loop.j /\ UNCHANGED <<loop.j, loop.mc, loop.dc>>
    <3>1. loop.j \in 0..N
      BY <1>3
    <3>. QED BY <1>1, <1>6, <3>1 DEF LoopType, Pcs
  <2>2. LoopInv' /\ EventInv'
    BY <1>1, <1>3, <2>1 DEF LoopInv, EventInv, Underway
  <2>3. \A k \in Servers : Started(k)' <=> k < loop.mc
    BY <2>1 DEF Started
  <2>4. ProgressInv'
    BY <1>1, <1>2, <2>1, <2>3 DEF ProgressInv, Closing
  <2>5. Stays
    BY <1>2, <1>6 DEF Stays
  <2>. QED BY <1>1, <2>1, <2>2, <2>4, <2>5, LoopSteps
<1>7. ASSUME UNCHANGED <<alive, saved>>, NEW e \in SUBSET Pending,
             loop' = [loop EXCEPT !.pc = "events", !.at = "events", !.i = loop.dc, !.ready = e]
      PROVE  QueryInv'
  <2>1. ASSUME NEW k \in e
        PROVE  k \in Servers /\ loop.dc <= k /\ k < loop.mc /\ st[k].state \in Waiting
    <3>1. k \in loop.dc..(loop.mc - 1) /\ st[k].state # "DONE"
      BY <2>1, <1>7 DEF Pending
    <3>2. k \in Servers /\ loop.dc <= k /\ k < loop.mc
      BY <1>3, <3>1, QueryAssumption DEF Servers
    <3>3. st[k].state \in States
      BY <3>2 DEF QueryInv, TypeInv, StType
    <3>. QED BY <1>1, <3>1, <3>2, <3>3 DEF States
  <2>2. /\ loop' \in LoopType /\ loop'.pc = "events" /\ loop'.at = "events"
        /\ loop'.i = loop.dc /\ loop'.ready = e /\ UNCHANGED <<loop.j, loop.mc, loop.dc>>
    <3>1. e \in SUBSET Servers
      BY <2>1
    <3>. QED BY <1>1, <1>3, <1>7, <3>1 DEF LoopType, Pcs
  <2>3. LoopInv'
    BY <1>1, <1>3, <2>2 DEF LoopInv, Underway
  <2>4. EventInv'
    BY <1>2, <2>1, <2>2 DEF EventInv
  <2>5. \A k \in Servers : Started(k)' <=> k < loop.mc
    BY <2>2 DEF Started
  <2>6. ProgressInv'
    BY <1>1, <1>2, <2>2, <2>5 DEF ProgressInv, Closing
  <2>7. Stays
    BY <1>2, <1>7 DEF Stays
  <2>. QED BY <1>1, <2>2, <2>3, <2>4, <2>6, <2>7, LoopSteps
<1>. QED BY <1>4, <1>5, <1>6, <1>7 DEF Poll

\* After a timeout server loop.i becomes u; it is called again, or the next one is looked at.
LEMMA SilentKept ==
  ASSUME QueryAssumption, QueryInv, loop.pc = "timeout", loop.i < loop.mc,
         UNCHANGED <<rv, reply, saved, answer, alive, tests, added, sent, quals>>,
         NEW u \in StType, st' = [st EXCEPT ![loop.i] = u], Owns(u, FALSE), u.opt => u.edns,
         Remaining(u) <= Remaining(st[loop.i]), st[loop.i].needs = 0 => u.needs = 0,
         \/ u.state = st[loop.i].state /\ loop' = [loop EXCEPT !.i = @ + 1]
         \/ /\ u.state = "UDPINITIAL" /\ st[loop.i].state \in Waiting
            /\ loop' = [loop EXCEPT !.pc = "exec"]
  PROVE  QueryInv'
<1>1. /\ loop \in LoopType /\ loop.dc <= loop.mc
      /\ loop.mc = (IF loop.j + ParQueries > N THEN N ELSE loop.j + ParQueries)
      /\ \A k \in Servers :
           /\ st[k].state \notin {"TCPINITIAL", "UDPINITIAL", "CANCELED"}
           /\ st[k].state = "INITIAL" <=> ~ (k < loop.mc)
           /\ st[k].state \in Waiting => loop.dc <= k /\ k < loop.mc
           /\ st[k].needs = 2 => k < loop.mc
  BY AllStarted
<1>2. loop.i \in Servers /\ loop.at = "timeout" /\ loop.i \in 0..N /\ loop.i + 1 \in 0..N
  BY <1>1, QueryAssumption DEF QueryInv, LoopInv, LoopType, Servers
<1>3. /\ st' \in [Servers -> StType] /\ st'[loop.i] = u
      /\ \A k \in Servers \ {loop.i} : st'[k] = st[k]
  BY <1>2 DEF QueryInv, TypeInv
<1>4. /\ loop' \in LoopType /\ UNCHANGED <<loop.at, loop.j, loop.mc, loop.dc, loop.ready>>
      /\ \/ u.state = st[loop.i].state /\ loop'.pc = "timeout" /\ loop'.i = loop.i + 1
         \/ /\ u.state = "UDPINITIAL" /\ st[loop.i].state \in Waiting
            /\ loop'.pc = "exec" /\ loop'.i = loop.i
  BY <1>1, <1>2 DEF LoopType, Pcs
<1>5. ServerInv'
  <2>1. ASSUME NEW k \in Servers
        PROVE  /\ ~ HasRead(k) /\ ~ HasRead(k)' /\ Owns(st[k], FALSE) /\ (st[k].opt => st[k].edns)
               /\ sent[k] + Remaining(st[k]) <= 5 /\ (tests[k] = "up" => st[k].needs = 0)
    <3>1. ~ HasRead(k) /\ ~ HasRead(k)'
      BY <1>4 DEF HasRead
    <3>. QED BY <3>1 DEF QueryInv, ServerInv, Owns
  <2>2. sent[loop.i] + Remaining(u) <= 5
    <3>1. Remaining(u) \in Nat /\ Remaining(st[loop.i]) \in Nat /\ sent[loop.i] \in Nat
      BY <1>2, Few DEF QueryInv, TypeInv
    <3>2. sent[loop.i] + Remaining(st[loop.i]) <= 5
      BY <1>2, <2>1
    <3>3. Remaining(u) <= Remaining(st[loop.i])
      OBVIOUS
    <3>. QED BY <3>1, <3>2, <3>3
  <2>3. ASSUME NEW k \in Servers
        PROVE  /\ Owns(st'[k], HasRead(k)') /\ (st'[k].opt => st'[k].edns)
               /\ sent'[k] + Remaining(st'[k]) <= 5 /\ (tests'[k] = "up" => st'[k].needs = 0)
    <3>1. CASE k = loop.i
      BY <1>3, <2>1, <2>2, <3>1 DEF Owns
    <3>2. CASE k # loop.i
      BY <1>3, <2>1, <3>2 DEF Owns
    <3>. QED BY <3>1, <3>2
  <2>. QED BY <2>3 DEF ServerInv
<1>6. LoopInv'
  BY <1>1, <1>2, <1>4 DEF LoopInv, LoopType, Underway
<1>7. EventInv'
  BY <1>2, <1>4 DEF EventInv
<1>8. ASSUME NEW k \in Servers
      PROVE  /\ st'[k].state \in {"TCPINITIAL", "UDPINITIAL"} => loop'.pc = "exec" /\ loop'.i = k
             /\ st'[k].state = "INITIAL" <=> ~ (k < loop.mc)
             /\ st'[k].state \in Waiting => loop.dc <= k /\ k < loop.mc
             /\ st'[k].state # "CANCELED"
             /\ st'[k].needs = 2 => k < loop.mc
             /\ Started(k)' <=> k < loop.mc
  <2>1. Started(k)' <=> k < loop.mc
    BY <1>2, <1>4 DEF Started
  <2>2. CASE k = loop.i
    BY <1>1, <1>3, <1>4, <2>1, <2>2 DEF Waiting
  <2>3. CASE k # loop.i
    BY <1>1, <1>3, <2>1, <2>3
  <2>. QED BY <2>2, <2>3
<1>9. ProgressInv'
  BY <1>2, <1>4, <1>8 DEF ProgressInv, Closing
<1>10. AnswerInv' /\ AliveInv' /\ alive' \in [ent : Nat, ns : Nat]
  BY <1>4, AnswersStay DEF Closing, Returned
<1>11. EndInv'
  BY <1>4 DEF EndInv
<1>. QED BY <1>3, <1>4, <1>5, <1>6, <1>7, <1>9, <1>10, <1>11 DEF QueryInv, TypeInv

LEMMA TimedOutKept ==
  ASSUME QueryAssumption, QueryInv, TimedOut
  PROVE  QueryInv'
<1>1. /\ loop.pc = "timeout" /\ loop.i < loop.mc /\ loop \in LoopType /\ st \in [Servers -> StType]
      /\ UNCHANGED <<rv, reply, saved, answer, alive, tests, added, sent, quals>>
  BY DEF TimedOut, QueryInv, TypeInv, history
<1>2. loop.i \in Servers
  BY <1>1, QueryAssumption DEF LoopType, Servers
<1>3. PICK s \in StType : s = st[loop.i]
  BY <1>1, <1>2
<1>4. PICK n \in 0..2 : n = IF s.state # "DONE" /\ s.needs # 0 THEN 2 ELSE s.needs
  <2>1. s.needs \in 0..2
    BY DEF StType
  <2>. QED BY <2>1
<1>5. PICK t : t = [s EXCEPT !.needs = n]
  OBVIOUS
<1>6. /\ t \in StType /\ t.state = s.state /\ t.sock = s.sock /\ t.msg = s.msg /\ t.buf = s.buf
      /\ t.qm = s.qm /\ t.rd = s.rd /\ t.edns = s.edns /\ t.opt = s.opt /\ t.needs = n
      /\ t.moved = s.moved
  BY <1>5 DEF StType
<1>7. Owns(s, FALSE) /\ (s.opt => s.edns)
  <2>1. ~ HasRead(loop.i)
    BY <1>1 DEF HasRead
  <2>. QED BY <1>2, <1>3, <2>1 DEF QueryInv, ServerInv, Owns
<1>8. CASE ~ Tentative(s)
  <2>1. st' = [st EXCEPT ![loop.i] = t] /\ loop' = [loop EXCEPT !.i = @ + 1]
    BY <1>3, <1>4, <1>5, <1>8 DEF TimedOut, Set
  <2>2. Owns(t, FALSE) /\ (t.opt => t.edns) /\ (s.needs = 0 => t.needs = 0)
    BY <1>4, <1>6, <1>7 DEF Owns
  <2>3. Remaining(t) <= Remaining(s)
    BY <1>6 DEF Remaining, Bit
  <2>. QED BY <1>1, <1>3, <1>6, <2>1, <2>2, <2>3, SilentKept
<1>9. CASE Tentative(s)
  <2>1. /\ s.qm = "TCP_UDP" /\ s.state \in {"TCPWRITE", "TCPREAD"} /\ s.sock = "open"
        /\ s.msg = "live" /\ s.buf \in {"null", "live"}
    BY <1>7, <1>9 DEF Tentative, Owns, Waiting
  <2>2. PICK u : u = [t EXCEPT !.sock = "closed", !.qm = "UDP_ONLY", !.state = "UDPINITIAL"]
    OBVIOUS
  <2>3. /\ u \in StType /\ u.state = "UDPINITIAL" /\ u.sock = "closed" /\ u.msg = "live"
        /\ u.buf = s.buf /\ u.qm = "UDP_ONLY" /\ u.rd = s.rd /\ u.edns = s.edns
        /\ u.opt = s.opt /\ u.needs = n
    <3>1. u \in StType
      BY ZenonT(40), <1>6, <2>2 DEF StType, States, Methods4
    <3>2. /\ u.state = "UDPINITIAL" /\ u.sock = "closed" /\ u.msg = t.msg /\ u.buf = t.buf
          /\ u.qm = "UDP_ONLY" /\ u.rd = t.rd /\ u.edns = t.edns /\ u.opt = t.opt
          /\ u.needs = t.needs
      BY <1>6, <2>2 DEF StType
    <3>. QED BY <1>6, <2>1, <3>1, <3>2
  <2>4. switch_to_udp([t EXCEPT !.sock = Close(@)]) = u
    BY <1>6, <2>1, <2>2 DEF switch_to_udp, Close, StType
  <2>5. st' = [st EXCEPT ![loop.i] = u] /\ loop' = [loop EXCEPT !.pc = "exec"]
    <3>1. /\ st' = [st EXCEPT ![loop.i] = switch_to_udp([t EXCEPT !.sock = Close(@)])]
          /\ loop' = [loop EXCEPT !.pc = "exec"]
      BY <1>3, <1>4, <1>5, <1>9 DEF TimedOut, Set
    <3>. QED BY <2>4, <3>1
  <2>6. Owns(u, FALSE) /\ (u.opt => u.edns) /\ (s.needs = 0 => u.needs = 0)
    BY <1>4, <1>7, <2>1, <2>3 DEF Owns, Waiting
  <2>7. Remaining(u) <= Remaining(s)
    BY <2>1, <2>3 DEF Remaining, Bit
  <2>8. s.state \in Waiting
    BY <2>1 DEF Waiting
  <2>. QED BY <1>1, <1>3, <2>3, <2>5, <2>6, <2>7, <2>8, SilentKept
<1>. QED BY <1>8, <1>9

LEMMA AfterTimeoutKept ==
  ASSUME QueryAssumption, QueryInv, AfterTimeout
  PROVE  QueryInv'
<1>1. /\ loop.pc = "timeout" /\ loop.i = loop.mc /\ Stays
      /\ loop' = [loop EXCEPT !.pc = "poll"] \/ loop' = NextBatch(loop)
  BY DEF AfterTimeout, Stays, history
<1>. QED BY <1>1, ToPollKept, ToNextBatchKept

-----------------------------------------------------------------------------
(* The end.                                                                *)

LEMMA CancelKept ==
  ASSUME QueryAssumption, QueryInv, CancelQueries
  PROVE  QueryInv'
<1>1. /\ loop.pc = "cancel" /\ loop \in LoopType /\ st \in [Servers -> StType]
      /\ tests \in [Servers -> {"none", "up", "down", "test"}]
      /\ UNCHANGED <<reply, saved, alive, added, sent, quals>>
      /\ loop.dc \in 0..N /\ loop.mc \in 0..N
  BY DEF CancelQueries, QueryInv, TypeInv, LoopType, history
<1>2. /\ loop' \in LoopType /\ loop'.pc = (IF rv' = "OK" THEN "authority" ELSE "ended")
      /\ loop'.dc = loop.dc /\ loop'.mc = loop.mc
  BY <1>1 DEF CancelQueries, LoopType, Pcs
<1>3. ASSUME NEW k \in Servers
      PROVE  /\ Owns(st[k], FALSE) /\ (st[k].opt => st[k].edns)
             /\ sent[k] \in Nat /\ sent[k] + Remaining(st[k]) <= 5
             /\ (tests[k] = "up" => st[k].needs = 0)
             /\ st[k] \in StType /\ st[k].state \in Waiting \cup {"INITIAL", "DONE"}
             /\ st[k].state \in Waiting => k \in loop.dc..(loop.mc - 1)
             /\ st[k].needs = 2 => k < loop.mc
  <2>1. ~ HasRead(k)
    BY <1>1 DEF HasRead
  <2>2. st[k] \in StType /\ sent[k] \in Nat
    BY <1>1 DEF QueryInv, TypeInv
  <2>3. st[k].state \in States /\ st[k].state \notin {"TCPINITIAL", "UDPINITIAL", "CANCELED"}
    BY <1>1, <2>2 DEF QueryInv, ProgressInv, StType
  <2>4. /\ st[k].state \in Waiting => loop.dc <= k /\ k < loop.mc
        /\ st[k].needs = 2 => k < loop.mc
    BY <1>1 DEF QueryInv, ProgressInv
  <2>5. Owns(st[k], FALSE) /\ (st[k].opt => st[k].edns)
        /\ sent[k] + Remaining(st[k]) <= 5 /\ (tests[k] = "up" => st[k].needs = 0)
    BY <2>1 DEF QueryInv, ServerInv, Owns
  <2>6. st[k].state \in Waiting => k \in loop.dc..(loop.mc - 1)
    BY <1>1, <2>4 DEF Servers
  <2>. QED BY <2>2, <2>3, <2>4, <2>5, <2>6 DEF States
<1>4. ASSUME NEW k \in Servers
      PROVE  /\ st'[k] \in StType /\ Owns(st'[k], FALSE) /\ (st'[k].opt => st'[k].edns)
             /\ Remaining(st'[k]) <= Remaining(st[k]) /\ st'[k].needs = st[k].needs
             /\ st'[k].state \in {"INITIAL", "DONE", "CANCELED"}
  <2>1. PICK s \in StType : s = st[k]
    BY <1>3
  <2>2. CASE s.state \in Waiting
    <3>1. s.sock = "open" /\ s.msg = "live" /\ s.buf \in {"null", "live"}
      BY <1>3, <2>1, <2>2 DEF Owns
    <3>2. PICK b \in {"null", "dead"} : b = Free(s.buf)
      BY <3>1 DEF Free
    <3>3. PICK u : u = [s EXCEPT !.sock = "closed", !.buf = b, !.msg = "dead", !.state = "CANCELED"]
      OBVIOUS
    <3>4. p_cancel_query(s) = u
      BY <2>2, <3>1, <3>2, <3>3 DEF p_cancel_query, Close, Free, Waiting
    <3>5. /\ u \in StType /\ u.state = "CANCELED" /\ u.sock = "closed" /\ u.buf = b /\ u.msg = "dead"
          /\ u.needs = s.needs /\ u.qm = s.qm /\ u.rd = s.rd /\ u.edns = s.edns /\ u.opt = s.opt
      BY <3>3 DEF StType, States
    <3>6. st'[k] = u
      BY <1>3, <2>1, <2>2, <3>4 DEF CancelQueries
    <3>7. Owns(u, FALSE)
      BY <3>5 DEF Owns, Waiting
    <3>8. Remaining(u) <= Remaining(s)
      BY <2>2, <3>5 DEF Remaining, Bit, Waiting
    <3>. QED BY <1>3, <2>1, <3>5, <3>6, <3>7, <3>8
  <2>3. CASE s.state \in {"INITIAL", "DONE"}
    <3>1. p_cancel_query(s) = s
      <4>1. p_cancel_query(s) = [s EXCEPT !.sock = s.sock, !.buf = s.buf, !.msg = s.msg,
                                          !.state = s.state]
        BY <2>3 DEF p_cancel_query, Waiting
      <4>. QED BY <4>1 DEF StType
    <3>2. st'[k] = s
      BY <2>1, <3>1 DEF CancelQueries
    <3>3. Remaining(s) <= Remaining(s)
      BY Few
    <3>. QED BY <1>3, <2>1, <2>3, <3>2, <3>3
  <2>. QED BY <1>3, <2>1, <2>2, <2>3
<1>5. st' \in [Servers -> StType]
  BY <1>4 DEF CancelQueries
<1>6. /\ tests' \in [Servers -> {"none", "up", "down", "test"}]
      /\ \A k \in Servers : /\ st[k].needs = 2 => tests'[k] = "test"
                            /\ tests'[k] = "up" => tests[k] = "up"
  <2>1. ASSUME NEW k \in Servers
        PROVE  tests'[k] = (IF k < loop.mc /\ st[k].needs > 1 THEN "test" ELSE tests[k])
    BY DEF CancelQueries
  <2>2. tests' = [k \in Servers |-> tests'[k]]
    BY DEF CancelQueries
  <2>3. ASSUME NEW k \in Servers
        PROVE  /\ tests'[k] \in {"none", "up", "down", "test"}
               /\ st[k].needs = 2 => tests'[k] = "test"
               /\ tests'[k] = "up" => tests[k] = "up"
    <3>1. tests[k] \in {"none", "up", "down", "test"} /\ (st[k].needs = 2 => k < loop.mc)
      BY <1>1, <1>3
    <3>. QED BY <2>1, <3>1
  <2>. QED BY <2>2, <2>3
<1>7. ServerInv'
  <2>1. ASSUME NEW k \in Servers
        PROVE  /\ ~ HasRead(k)' /\ sent'[k] + Remaining(st'[k]) <= 5
               /\ (tests'[k] = "up" => st'[k].needs = 0)
    <3>1. ~ HasRead(k)'
      BY <1>2 DEF HasRead
    <3>2. /\ Remaining(st'[k]) \in Nat /\ Remaining(st[k]) \in Nat
      BY <1>3, <1>4, Few
    <3>3. sent'[k] = sent[k]
      BY <1>1
    <3>4. sent'[k] + Remaining(st'[k]) <= 5
      <4>1. /\ Remaining(st'[k]) <= Remaining(st[k]) /\ sent[k] + Remaining(st[k]) <= 5
            /\ sent[k] \in Nat
        BY <1>3, <1>4
      <4>. QED BY <3>2, <3>3, <4>1
    <3>. QED BY ZenonT(40), <1>3, <1>4, <1>6, <3>1, <3>4
  <2>. QED BY <1>4, <2>1 DEF ServerInv, Owns
<1>8. LoopInv'
  BY <1>1, <1>2 DEF QueryInv, LoopInv, Underway
<1>9. ProgressInv'
  <2>1. ASSUME NEW k \in Servers
        PROVE  /\ st'[k].state \notin Waiting \cup {"TCPINITIAL", "UDPINITIAL"}
               /\ st'[k].needs = 2 => tests'[k] = "test"
    BY <1>4, <1>6 DEF Waiting
  <2>2. loop'.pc \in {"authority", "ended"} /\ loop'.pc \notin {"received", "returned"}
    BY <1>2
  <2>. QED BY <2>1, <2>2 DEF ProgressInv, Closing
<1>10. EventInv'
  BY <1>2 DEF EventInv, Underway
<1>11. /\ ~ Returned /\ ~ Returned'
       /\ answer' = (IF saved # Nothing THEN saved ELSE answer)
       /\ rv' = (IF saved # Nothing THEN "OK" ELSE IF rv = "FATALERR" THEN "SERVFAIL" ELSE rv)
  BY <1>1, <1>2 DEF Returned, CancelQueries
<1>12. AnswerInv'
  <2>1. Clean(saved)' <=> Clean(saved)
    BY <1>1 DEF Clean
  <2>2. Clean(answer)' <=> IF saved # Nothing THEN Clean(saved) ELSE Clean(answer)
    BY <1>11 DEF Clean
  <2>. QED BY <1>1, <1>2, <1>11, <2>1, <2>2 DEF QueryInv, AnswerInv, Closing
<1>13. AliveInv' /\ EndInv' /\ alive' \in [ent : Nat, ns : Nat]
  <2>1. /\ alive \in [ent : Nat, ns : Nat]
        /\ alive.ent = Bit(saved # Nothing) + Bit(answer # Nothing)
        /\ alive.ns = Bit(saved # Nothing /\ saved.ns) + Bit(answer # Nothing /\ answer.ns)
    BY <1>1, <1>11 DEF QueryInv, TypeInv, AliveInv, Bit
  <2>2. /\ answer # Nothing => saved = Nothing /\ rv = "OK"
        /\ rv \notin {"CACHED", "STALE"}
        /\ rv = "OK" => saved # Nothing \/ answer # Nothing
    BY <1>1 DEF QueryInv, AnswerInv
  <2>3. CASE rv' = "OK"
    <3>1. loop'.pc = "authority" /\ answer' # Nothing
      BY <1>2, <1>11, <2>2, <2>3
    <3>2. alive.ent = 1 /\ alive.ns = Bit(answer'.ns)
      BY <1>11, <2>1, <2>2, <3>1 DEF Bit
    <3>3. AliveInv'
      BY <1>1, <1>11, <3>1, <3>2 DEF AliveInv, Bit
    <3>4. EndInv'
      BY <3>1 DEF EndInv
    <3>. QED BY <1>1, <2>1, <3>3, <3>4
  <2>4. CASE rv' # "OK"
    <3>1. loop'.pc = "ended" /\ saved = Nothing /\ answer = Nothing /\ rv' \notin {"CACHED", "STALE"}
      BY <1>2, <1>11, <2>2, <2>4
    <3>2. alive = [ent |-> 0, ns |-> 0]
      BY <2>1, <3>1 DEF Bit
    <3>3. EndInv'
      BY <1>1, <2>4, <3>1, <3>2 DEF EndInv
    <3>4. AliveInv'
      BY <3>1 DEF AliveInv
    <3>. QED BY <1>1, <2>1, <3>3, <3>4
  <2>. QED BY <2>3, <2>4
<1>14. sent' \in [Servers -> Nat]
  BY <1>1 DEF QueryInv, TypeInv
<1>. QED BY <1>2, <1>5, <1>6, <1>7, <1>8, <1>9, <1>10, <1>12, <1>13, <1>14 DEF QueryInv, TypeInv

LEMMA AskFoundKept ==
  ASSUME QueryAssumption, QueryInv, AskFound
  PROVE  QueryInv'
<1>1. /\ loop.pc = "authority" /\ loop \in LoopType /\ loop' = [loop EXCEPT !.pc = "ended"]
      /\ UNCHANGED <<st, reply, saved, tests, added, sent, quals>>
  BY DEF AskFound, QueryInv, TypeInv, history
<1>2. /\ loop' \in LoopType /\ loop'.pc = "ended" /\ loop'.dc = loop.dc /\ loop'.mc = loop.mc
  BY <1>1 DEF LoopType, Pcs
<1>3. ServerInv'
  BY <1>1, <1>2 DEF QueryInv, ServerInv, HasRead
<1>4. LoopInv' /\ EventInv' /\ AliveInv'
  BY <1>1, <1>2 DEF QueryInv, LoopInv, EventInv, AliveInv, Underway
<1>5. ProgressInv'
  BY <1>1, <1>2 DEF QueryInv, ProgressInv, Closing
<1>6. /\ rv = "OK" /\ answer # Nothing /\ alive = [ent |-> 1, ns |-> Bit(answer.ns)]
  <2>1. /\ rv = "OK" /\ answer # Nothing /\ alive \in [ent : Nat, ns : Nat]
        /\ alive.ent = 1 /\ alive.ns = Bit(answer.ns)
    BY <1>1 DEF QueryInv, TypeInv, AnswerInv, AliveInv, Returned, Bit
  <2>. QED BY <2>1
<1>7. /\ alive' = [ent |-> IF rv' \in {"OK", "CACHED", "STALE"} THEN 1 ELSE 0, ns |-> 0]
      /\ answer' \in {answer, Nothing}
  <2>1. CASE ~ answer.serv
    <3>1. /\ UNCHANGED <<rv, answer>>
          /\ alive' = [alive EXCEPT !.ns = @ - (IF answer.ns THEN 1 ELSE 0)]
      BY <2>1 DEF AskFound
    <3>. QED BY <1>6, <3>1 DEF Bit
  <2>2. CASE answer.serv
    <3>1. PICK code \in {"OK", "CACHED", "STALE", "NAMEERR", "SERVFAIL"} :
            LET keep   == st[answer.s].aa \/ st[answer.s].ra
                theirs == code \in {"OK", "CACHED"} \/ (code = "STALE" /\ ~ keep)
                mine   == keep /\ ~ theirs /\ code # "NAMEERR"
            IN  /\ rv' = IF mine THEN "OK" ELSE code
                /\ answer' = IF mine THEN answer ELSE Nothing
                /\ alive' = [ent |-> alive.ent - 1 + (IF theirs \/ mine THEN 1 ELSE 0),
                             ns |-> alive.ns - (IF answer.ns THEN 1 ELSE 0)]
      BY <2>2 DEF AskFound
    <3>. QED BY <1>6, <3>1 DEF Bit
  <2>. QED BY <2>1, <2>2
<1>8. EndInv' /\ alive' \in [ent : Nat, ns : Nat]
  BY <1>7 DEF EndInv
<1>9. AnswerInv'
  BY <1>1, <1>2, <1>7 DEF QueryInv, AnswerInv, Clean, Closing, Returned
<1>. QED BY <1>1, <1>2, <1>3, <1>4, <1>5, <1>8, <1>9 DEF QueryInv, TypeInv

-----------------------------------------------------------------------------
(* The theorems.                                                           *)

LEMMA QueryInitInv ==
  ASSUME QueryAssumption, QueryInit
  PROVE  QueryInv
<1>1. PICK m \in Methods : st = [i \in Servers |-> add_qserv(i, m)]
  BY DEF QueryInit
<1>2. ASSUME NEW i \in Servers
      PROVE  /\ st[i] \in StType /\ st[i].state = "INITIAL" /\ Owns(st[i], FALSE)
             /\ (st[i].opt => st[i].edns) /\ Remaining(st[i]) <= 5 /\ st[i].needs \in {0, 1}
  <2>1. PICK e \in BOOLEAN, n \in {0, 1}, q \in Methods4 :
          st[i] = [state |-> "INITIAL", qm |-> q, rd |-> FALSE, edns |-> e, opt |-> FALSE,
                   needs |-> n, failed |-> 0, aa |-> FALSE, tc |-> FALSE, ra |-> FALSE,
                   unreachable |-> FALSE, moved |-> FALSE,
                   sock |-> "closed", msg |-> "null", buf |-> "null"]
    <3>1. Kind[i].edns \in BOOLEAN /\ m \in Methods4
      BY QueryAssumption DEF Servers, Methods4
    <3>. QED BY <1>1, <3>1 DEF add_qserv
  <2>2. st[i] \in StType
    BY <2>1 DEF StType, States
  <2>3. /\ st[i].state = "INITIAL" /\ st[i].opt = FALSE /\ st[i].needs \in {0, 1}
        /\ st[i].sock = "closed" /\ st[i].msg = "null" /\ st[i].buf = "null"
    BY <2>1
  <2>4. Owns(st[i], FALSE)
    BY <2>3 DEF Owns, Waiting
  <2>5. Remaining(st[i]) <= 5
    BY <2>2, <2>3 DEF Remaining, Bit
  <2>. QED BY <2>2, <2>3, <2>4, <2>5
<1>3. /\ loop = [pc |-> "batch", at |-> "init", i |-> 0, j |-> 0, dc |-> 0, mc |-> 0,
                 ready |-> {}, udp |-> FALSE]
      /\ rv = "SERVFAIL" /\ reply = Nothing /\ saved = Nothing /\ answer = Nothing
      /\ alive = [ent |-> 0, ns |-> 0] /\ tests = [i \in Servers |-> "none"] /\ added = {}
      /\ sent = [i \in Servers |-> 0] /\ quals = {}
  BY DEF QueryInit
<1>4. TypeInv
  <2>1. st \in [Servers -> StType]
    BY <1>1, <1>2
  <2>2. loop \in LoopType
    BY <1>3, QueryAssumption DEF LoopType, Pcs
  <2>. QED BY <1>3, <2>1, <2>2 DEF TypeInv
<1>5. ServerInv
  <2>1. ASSUME NEW i \in Servers
        PROVE  ~ HasRead(i) /\ sent[i] + Remaining(st[i]) <= 5 /\ tests[i] # "up"
    <3>1. Remaining(st[i]) \in Nat /\ sent[i] = 0 /\ Remaining(st[i]) <= 5
      BY <1>2, <1>3, Few
    <3>. QED BY <1>3, <3>1 DEF HasRead
  <2>. QED BY <1>2, <2>1 DEF ServerInv, Owns
<1>6. LoopInv /\ EventInv
  BY <1>3 DEF LoopInv, EventInv, Underway
<1>7. ProgressInv
  <2>1. ASSUME NEW i \in Servers
        PROVE  ~ Started(i) /\ st[i].state = "INITIAL" /\ st[i].needs # 2
    <3>1. ~ Started(i)
      BY <1>3 DEF Started
    <3>2. st[i].state = "INITIAL" /\ st[i].needs \in {0, 1}
      BY <1>2
    <3>. QED BY <3>1, <3>2
  <2>. QED BY <1>3, <2>1 DEF ProgressInv, Closing, Waiting
<1>8. AnswerInv /\ AliveInv /\ EndInv
  BY <1>3 DEF AnswerInv, AliveInv, EndInv, Returned, Closing, Bit
<1>. QED BY <1>4, <1>5, <1>6, <1>7, <1>8 DEF QueryInv

LEMMA QueryInductive ==
  ASSUME QueryAssumption, QueryInv, [QueryNext]_queryvars
  PROVE  QueryInv'
<1>1. CASE UNCHANGED queryvars
  BY <1>1 DEF queryvars, history, QueryInv, TypeInv, ServerInv, HasRead, LoopInv, ProgressInv,
              Started, EventInv, AnswerInv, Clean, Returned, AliveInv, EndInv
<1>2. CASE Sm_
  BY <1>2, InitialKept, TcpInitialKept, TcpWriteKept, TcpReadKept, UdpInitialKept,
     UdpReceiveKept DEF Sm_
<1>3. CASE Judge \/ AnswerReturned \/ ErrorReturned
  BY <1>3, JudgeKept, AnswerReturnedKept, ErrorReturnedKept
<1>4. CASE Start \/ StartQueries \/ Poll \/ Events \/ TimedOut \/ AfterTimeout
  BY <1>4, StartKept, StartQueriesKept, PollKept, EventsKept, TimedOutKept, AfterTimeoutKept
<1>5. CASE CancelQueries \/ AskFound
  BY <1>5, CancelKept, AskFoundKept
<1>. QED BY <1>1, <1>2, <1>3, <1>4, <1>5 DEF QueryNext

LEMMA QueryInvariance ==
  ASSUME QueryAssumption
  PROVE  QuerySpec => []QueryInv
<1>1. QueryInit => QueryInv
  BY QueryInitInv
<1>2. QueryInv /\ [QueryNext]_queryvars => QueryInv'
  BY QueryInductive
<1>. QED BY <1>1, <1>2, PTL DEF QuerySpec

\* Sockets, messages and entries have one owner in every state of p_query_sm, poll is given
\* sockets that can be waited for, and however p_recursive_query ends, nothing is left over.
THEOREM QueryOwnsItsResources == QuerySpec => []ResourcesOwned
<1>1. QueryInv => QueryTypeOK
  <2>1. SUFFICES ASSUME QueryInv PROVE QueryTypeOK
    OBVIOUS
  <2>2. ASSUME NEW i \in Servers
        PROVE  st[i].state \in States /\ st[i].needs \in 0..2 /\ st[i].failed \in {0, 1, 3}
    BY <2>1 DEF QueryInv, TypeInv, StType
  <2>3. /\ loop.dc \in 0..N /\ loop.mc \in 0..N /\ loop.i \in 0..N
        /\ alive.ent \in Nat /\ alive.ns \in Nat
    BY <2>1 DEF QueryInv, TypeInv, LoopType
  <2>. QED BY <2>2, <2>3 DEF QueryTypeOK
<1>2. QueryInv => Owned
  <2>1. SUFFICES ASSUME QueryInv, NEW i \in Servers
                 PROVE  /\ st[i].sock \in {"open", "closed"}
                        /\ {st[i].msg, st[i].buf} \cap {"twice", "leak"} = {}
                        /\ st[i].msg # "refreed"
                        /\ st[i].buf = "refreed" => st[i].state \notin Waiting
                        /\ st[i].state \in Waiting => st[i].sock = "open" /\ st[i].msg = "live"
                        /\ /\ st[i].state \in {"INITIAL", "DONE", "CANCELED"}
                           /\ ~ (loop.pc \in {"exec", "received"} /\ loop.i = i)
                           => st[i].sock = "closed" /\ st[i].msg # "live" /\ st[i].buf # "live"
    BY DEF Owned
  <2>2. st[i] \in StType /\ Owns(st[i], HasRead(i))
    BY <2>1 DEF QueryInv, TypeInv, ServerInv
  <2>3. HasRead(i) => loop.pc \in {"exec", "received"} /\ loop.i = i
    BY DEF HasRead
  <2>4. st[i].sock \in {"open", "closed"} /\ st[i].msg \in {"null", "live", "dead"}
        /\ st[i].buf \in {"null", "live", "dead", "refreed"}
    BY <2>2 DEF StType
  <2>. QED BY <2>2, <2>3, <2>4 DEF Owns, Waiting
<1>3. QueryAssumption /\ QueryInv => Pollable
  <2>1. SUFFICES ASSUME QueryAssumption, QueryInv, loop.pc = "poll", NEW k \in Pending
                 PROVE  st[k].state \in Waiting
    BY DEF Pollable
  <2>2. k \in loop.dc..(loop.mc - 1) /\ st[k].state # "DONE"
    BY <2>1 DEF Pending
  <2>3. loop.dc \in 0..N /\ loop.mc \in 0..N
    BY <2>1 DEF QueryInv, TypeInv, LoopType
  <2>4. k \in Servers /\ k < loop.mc
    BY <2>2, <2>3, QueryAssumption DEF Servers
  <2>5. st[k].state \notin {"TCPINITIAL", "UDPINITIAL", "CANCELED", "INITIAL"}
    BY <2>1, <2>4, AllStarted
  <2>6. st[k].state \in States
    BY <2>1, <2>4 DEF QueryInv, TypeInv, StType
  <2>. QED BY <2>2, <2>5, <2>6 DEF States
<1>4. QueryInv => NothingLeft
  <2>1. SUFFICES ASSUME QueryInv, loop.pc = "ended"
                 PROVE  /\ \A i \in Servers : /\ st[i].sock = "closed" /\ st[i].msg # "live"
                                              /\ st[i].buf # "live"
                        /\ alive.ent = IF rv \in {"OK", "CACHED", "STALE"} THEN 1 ELSE 0
                        /\ alive.ns = 0
    BY DEF NothingLeft
  <2>2. ASSUME NEW i \in Servers
        PROVE  st[i].sock = "closed" /\ st[i].msg # "live" /\ st[i].buf # "live"
    <3>1. st[i].state \notin Waiting \cup {"TCPINITIAL", "UDPINITIAL"} /\ ~ HasRead(i)
      BY <2>1 DEF QueryInv, ProgressInv, HasRead
    <3>2. Owns(st[i], HasRead(i))
      BY <2>1 DEF QueryInv, ServerInv
    <3>. QED BY <3>1, <3>2 DEF Owns
  <2>3. alive = [ent |-> IF rv \in {"OK", "CACHED", "STALE"} THEN 1 ELSE 0, ns |-> 0]
    BY <2>1 DEF QueryInv, EndInv
  <2>. QED BY <2>2, <2>3
<1>5. QueryInv => ResourcesOwned
  BY <1>1, <1>2, <1>3, <1>4, QueryAssumption DEF ResourcesOwned
<1>. QED BY <1>5, QueryInvariance, QueryAssumption, PTL

\* What p_recursive_query settles for is the best of the answers it put aside, and neither it
\* nor what was added to the cache on the way holds an address of the reject list.
THEOREM QuerySettlesForTheBest == QuerySpec => []RightAnswer
<1>1. QueryInv => BestUsed
  <2>1. SUFFICES ASSUME QueryInv, loop.pc = "authority", saved # Nothing
                 PROVE  answer.q = Max(quals)
    BY DEF BestUsed
  <2>2. /\ answer = saved /\ saved.q \in quals /\ \A q \in quals : q <= saved.q
        /\ quals \subseteq Int
    BY <2>1 DEF QueryInv, AnswerInv
  <2>3. ASSUME NEW x \in quals, \A y \in quals : x >= y
        PROVE  x = saved.q
    <3>1. x \in Int /\ saved.q \in Int /\ x >= saved.q /\ x <= saved.q
      BY <2>2, <2>3
    <3>. QED BY <3>1
  <2>4. Max(quals) \in quals /\ \A y \in quals : Max(quals) >= y
    BY <2>2 DEF Max
  <2>. QED BY <2>2, <2>3, <2>4
<1>2. QueryInv => RejectedUnused
  <2>1. SUFFICES ASSUME QueryInv, NEW i \in Servers, Kind[i].rejects
                 PROVE  /\ \A x \in added : x[1] = i => ~ x[2].bad
                        /\ loop.pc = "ended" /\ answer # Nothing /\ answer.s = i
                             => \A x \in answer.own : ~ x.bad
    BY DEF RejectedUnused
  <2>. QED BY <2>1 DEF QueryInv, AnswerInv, Clean
<1>3. QueryInv => RightAnswer
  BY <1>1, <1>2 DEF RightAnswer
<1>. QED BY <1>3, QueryInvariance, QueryAssumption, PTL

\* However often a query is repeated, over whichever transport, without recursion and
\* without EDNS, a server is sent five messages at most; sched_server_test is told of the
\* silent ones, and of none that answered.
THEOREM QuerySparesServers == QuerySpec => []ServersSpared
<1>1. QueryInv => Tested
  BY DEF QueryInv, ServerInv, ProgressInv, Tested
<1>2. QueryInv => SendsBounded
  <2>1. SUFFICES ASSUME QueryInv, NEW i \in Servers
                 PROVE  sent[i] <= 5
    BY DEF SendsBounded
  <2>2. sent[i] \in Nat /\ st[i] \in StType /\ sent[i] + Remaining(st[i]) <= 5
    BY <2>1 DEF QueryInv, TypeInv, ServerInv
  <2>3. Remaining(st[i]) \in Nat
    BY <2>2, Few
  <2>. QED BY <2>2, <2>3
<1>3. QueryInv => ServersSpared
  BY <1>1, <1>2 DEF ServersSpared
<1>. QED BY <1>3, QueryInvariance, QueryAssumption, PTL

\* No turn of p_query_sm ends the query.
LEMMA SmStays ==
  ASSUME QueryInv, Sm_
  PROVE  loop'.pc # "cancel"
<1>1. loop \in LoopType /\ loop.pc = "exec"
  BY DEF QueryInv, TypeInv, Sm_, Sm, QS_INITIAL, QS_TCPINITIAL, QS_TCPWRITE, QS_TCPREAD,
         QS_UDPINITIAL, QS_UDPRECEIVE
<1>2. UNCHANGED loop \/ \E p \in {"received", "returned"} : loop' = [loop EXCEPT !.pc = p]
  <2>1. ASSUME NEW s, Again(s) \/ FallThrough(s) \/ Failed(s, "SERVFAIL") \/ Failed(s, "FATALERR")
        PROVE  UNCHANGED loop \/ loop' = [loop EXCEPT !.pc = "returned"]
    BY <2>1 DEF Again, FallThrough, Failed, Returns
  <2>2. ASSUME NEW s, TcpFailed(s)
        PROVE  UNCHANGED loop \/ loop' = [loop EXCEPT !.pc = "returned"]
    BY <2>1, <2>2 DEF TcpFailed
  <2>3. CASE QS_INITIAL
    BY <2>1, <2>3 DEF QS_INITIAL, Returns
  <2>4. CASE QS_TCPINITIAL
    BY <2>1, <2>2, <2>4 DEF QS_TCPINITIAL
  <2>5. CASE QS_TCPWRITE
    BY <2>1, <2>2, <2>5 DEF QS_TCPWRITE
  <2>6. CASE QS_TCPREAD
    BY <2>1, <2>2, <2>6 DEF QS_TCPREAD
  <2>7. CASE QS_UDPINITIAL
    BY <2>1, <2>7 DEF QS_UDPINITIAL
  <2>8. CASE QS_UDPRECEIVE
    BY <2>1, <2>8 DEF QS_UDPRECEIVE
  <2>. QED BY <2>3, <2>4, <2>5, <2>6, <2>7, <2>8 DEF Sm_
<1>. QED BY <1>1, <1>2 DEF LoopType

\* After the last batch every server has been called.
LEMMA LastBatch ==
  ASSUME QueryAssumption, QueryInv, loop' = NextBatch(loop), loop'.pc = "cancel",
         loop.pc = "timeout" \/ (loop.pc \in {"init", "events"} /\ loop.i = loop.mc)
  PROVE  \A i \in Servers : st[i].state # "INITIAL"
<1>1. /\ loop \in LoopType
      /\ loop.mc = (IF loop.j + ParQueries > N THEN N ELSE loop.j + ParQueries)
      /\ \A k \in Servers : st[k].state = "INITIAL" <=> ~ (k < loop.mc)
  BY AllStarted
<1>2. loop.j + ParQueries >= N
  <2>1. SUFFICES ASSUME ~ (loop.j + ParQueries >= N)
                 PROVE  loop'.pc = "init"
    OBVIOUS
  <2>2. PICK j, m : loop' = [loop EXCEPT !.pc = "init", !.at = "init", !.j = j, !.i = loop.dc,
                                         !.mc = m]
    BY <2>1 DEF NextBatch
  <2>. QED BY <1>1, <2>2 DEF LoopType
<1>3. loop.mc = N
  BY <1>1, <1>2, QueryAssumption DEF LoopType
<1>. QED BY <1>1, <1>3, QueryAssumption DEF Servers

\* Nobody gives up early: a query that found nothing to use, without an error of its own,
\* has called p_exec_query for every server.
THEOREM QueryAsksAll == QuerySpec => AllAsked
<1>1. ASSUME QueryInv, QueryNext, loop.pc # "cancel", loop'.pc = "cancel", saved' = Nothing,
             answer' = Nothing, rv' \notin {"NAMEERR", "FATALERR"}, ~ Poll
      PROVE  \A i \in Servers : st[i].state # "INITIAL"
  <2>1. ~ Sm_
    BY <1>1, SmStays
  <2>2. loop \in LoopType
    BY <1>1 DEF QueryInv, TypeInv
  <2>3. ~ Judge
    <3>1. SUFFICES ASSUME Judge PROVE loop'.pc \in {"returned", "exec"}
      BY <1>1
    <3>2. ASSUME NEW s, NEW code, Discard(s, code) PROVE loop' = [loop EXCEPT !.pc = "returned"]
      BY <3>2 DEF Discard, Returns
    <3>3. ASSUME NEW s, Retry(s) PROVE loop' = [loop EXCEPT !.pc = "exec"]
      BY <3>3 DEF Retry
    <3>4. ASSUME NEW s, UseReply(s) PROVE loop' = [loop EXCEPT !.pc = "returned"]
      BY <3>2, <3>4 DEF UseReply, Judged, Returns
    <3>5. loop' = [loop EXCEPT !.pc = "returned"] \/ loop' = [loop EXCEPT !.pc = "exec"]
      BY <3>1, <3>2, <3>3, <3>4 DEF Judge
    <3>. QED BY <2>2, <3>5 DEF LoopType
  <2>4. ~ AnswerReturned
    <3>1. QueryInv'
      BY <1>1, QueryInductive, QueryAssumption
    <3>2. rv' # "OK"
      BY <1>1, <3>1 DEF QueryInv, AnswerInv
    <3>. QED BY <1>1, <3>2 DEF AnswerReturned
  <2>5. ~ ErrorReturned
    <3>1. SUFFICES ASSUME ErrorReturned PROVE FALSE
      OBVIOUS
    <3>1a. loop' = Turn(st[loop.i])
      BY <1>1, <3>1 DEF ErrorReturned
    <3>2. PICK d, u, i : loop' = [loop EXCEPT !.pc = loop.at, !.i = i, !.udp = u, !.dc = d]
      BY <3>1a DEF Turn
    <3>3. loop'.pc = loop.at /\ loop.at # "cancel"
      BY <2>2, <3>2 DEF LoopType
    <3>. QED BY <1>1, <3>3
  <2>6. ~ Start
    BY <1>1, <2>2 DEF Start, LoopType
  <2>7. CASE StartQueries
    <3>1. loop.pc = "init"
      BY <2>7 DEF StartQueries
    <3>2. CASE loop.i = loop.mc /\ loop' = NextBatch(loop)
      BY <1>1, <3>1, <3>2, LastBatch, QueryAssumption
    <3>3. CASE \/ loop' = [loop EXCEPT !.pc = "poll"] \/ loop' = [loop EXCEPT !.pc = "exec"]
      BY <1>1, <2>2, <3>3 DEF LoopType
    <3>4. CASE loop' = Turn(st[loop.i])
      <4>1. PICK d, u, i : loop' = [loop EXCEPT !.pc = loop.at, !.i = i, !.udp = u, !.dc = d]
        BY <3>4 DEF Turn
      <4>2. loop'.pc = loop.at /\ loop.at # "cancel"
        BY <2>2, <4>1 DEF LoopType
      <4>. QED BY <1>1, <4>2
    <3>. QED BY <2>7, <3>2, <3>3, <3>4 DEF StartQueries
  <2>8. CASE Events
    <3>1. /\ loop.pc = "events" /\ loop.i <= loop.mc /\ loop.i \in Int /\ loop.mc \in Int
          /\ loop.at = "events"
      BY <1>1, <2>2, <2>8 DEF Events, QueryInv, LoopInv, LoopType
    <3>2. CASE ~ (loop.i < loop.mc)
      <4>1. loop.i = loop.mc
        BY <3>1, <3>2
      <4>2. ASSUME NEW k \in loop.ready
            PROVE  FALSE
        BY <1>1, <3>1, <4>1, <4>2 DEF QueryInv, EventInv, Servers
      <4>3. loop' = [loop EXCEPT !.pc = "poll"] \/ loop' = NextBatch(loop)
        BY <2>8, <3>2, <4>2 DEF Events
      <4>4. loop' # [loop EXCEPT !.pc = "poll"]
        BY <1>1, <2>2 DEF LoopType
      <4>. QED BY <1>1, <3>1, <4>1, <4>3, <4>4, LastBatch, QueryAssumption
    <3>3. CASE loop.i < loop.mc
      <4>1. \/ loop' = [loop EXCEPT !.pc = "exec", !.ready = @ \ {loop.i}]
            \/ loop' = Turn(st[loop.i])
        BY <2>8, <3>3 DEF Events
      <4>2. CASE loop' = [loop EXCEPT !.pc = "exec", !.ready = @ \ {loop.i}]
        BY <1>1, <2>2, <4>2 DEF LoopType
      <4>3. CASE loop' = Turn(st[loop.i])
        <5>1. PICK d, u, i : loop' = [loop EXCEPT !.pc = loop.at, !.i = i, !.udp = u, !.dc = d]
          BY <4>3 DEF Turn
        <5>2. loop'.pc = loop.at
          BY <2>2, <5>1 DEF LoopType
        <5>. QED BY <1>1, <3>1, <5>2
      <4>. QED BY <4>1, <4>2, <4>3
    <3>. QED BY <3>2, <3>3
  <2>9. ~ TimedOut
    <3>1. SUFFICES ASSUME TimedOut PROVE loop'.pc # "cancel"
      BY <1>1
    <3>2. loop' = [loop EXCEPT !.pc = "exec"] \/ loop' = [loop EXCEPT !.i = @ + 1]
      BY <3>1 DEF TimedOut
    <3>. QED BY <1>1, <2>2, <3>2 DEF LoopType
  <2>10. CASE AfterTimeout
    <3>1. /\ loop.pc = "timeout"
          /\ loop' = [loop EXCEPT !.pc = "poll"] \/ loop' = NextBatch(loop)
      BY <2>10 DEF AfterTimeout
    <3>2. loop' # [loop EXCEPT !.pc = "poll"]
      BY <1>1, <2>2 DEF LoopType
    <3>. QED BY <1>1, <3>1, <3>2, LastBatch, QueryAssumption
  <2>11. ~ CancelQueries /\ ~ AskFound
    <3>1. ~ CancelQueries
      BY <1>1 DEF CancelQueries
    <3>2. AskFound => loop' = [loop EXCEPT !.pc = "ended"]
      BY DEF AskFound
    <3>. QED BY <1>1, <2>2, <3>1, <3>2 DEF LoopType
  <2>. QED BY <1>1, <2>1, <2>3, <2>4, <2>5, <2>6, <2>7, <2>8, <2>9, <2>10, <2>11 DEF QueryNext
<1>2. QueryInv /\ [QueryNext]_queryvars =>
        [loop.pc # "cancel" /\ loop'.pc = "cancel" /\ saved' = Nothing /\ answer' = Nothing
           /\ rv' \notin {"NAMEERR", "FATALERR"} /\ ~ Poll
         => \A i \in Servers : st[i].state # "INITIAL"]_queryvars
  BY <1>1
<1>. QED BY <1>2, QueryInvariance, QueryAssumption, PTL DEF QuerySpec, AllAsked
=============================================================================
