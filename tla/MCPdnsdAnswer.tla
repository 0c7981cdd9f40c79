--------------------------- MODULE MCPdnsdAnswer ---------------------------
(* One client's messages and a small world: a is an alias of b, or a host, *)
(* or not there; b is an alias of a now and then; z is the domain above.   *)
EXTENDS PdnsdAnswer

Ask(n, t) == [name |-> n, type |-> t, class |-> "IN"]

Plain == [len |-> "full", qr |-> FALSE, opcode |-> "QUERY", z |-> FALSE, rcode |-> RC_OK,
          counts |-> FALSE, body |-> "ok", qs |-> <<Ask("a", "A")>>, tc |-> FALSE,
          ar |-> "none", opt |-> None, rd |-> TRUE]

Opt(sz, v) == [udpsize |-> sz, version |-> v, rcode |-> 0]

Rejected ==
  {[Plain EXCEPT !.len = "tiny"], [Plain EXCEPT !.len = "short"], [Plain EXCEPT !.qr = TRUE],
   [Plain EXCEPT !.opcode = "other"], [Plain EXCEPT !.z = TRUE], [Plain EXCEPT !.rcode = RC_SERVFAIL],
   [Plain EXCEPT !.counts = TRUE], [Plain EXCEPT !.body = "memory"], [Plain EXCEPT !.body = "bad"],
   [Plain EXCEPT !.body = "cut", !.qs = <<>>, !.tc = TRUE],
   [Plain EXCEPT !.ar = "cut", !.opt = Opt(8, 0)], [Plain EXCEPT !.qs = <<>>],
   [Plain EXCEPT !.qs = <<Ask("a", "AXFR")>>],
   [Plain EXCEPT !.ar = "ok", !.opt = Opt(5, 1)],
   [Plain EXCEPT !.ar = "ok", !.opt = [Opt(5, 0) EXCEPT !.rcode = 1]]}

Answered ==
  {Plain, [Plain EXCEPT !.rd = FALSE],
   [Plain EXCEPT !.ar = "ok", !.opt = Opt(5, 0)],
   [Plain EXCEPT !.ar = "ok", !.opt = Opt(9, 0), !.qs = <<Ask("a", "A"), Ask("a", "ALL")>>],
   [Plain EXCEPT !.body = "cut", !.tc = TRUE, !.qs = <<Ask("a", "MAILB")>>],
   [Plain EXCEPT !.qs = <<Ask("z", "SOA"), Ask("b", "A")>>]}

\* The second request is the one with an answer to compose; the third competes for a place.
MCMessages ==
  <<Rejected, Answered, {[Plain EXCEPT !.body = "bad"]}>>

Entry(local, a, cname, ns, soa) ==
  [local |-> local, above |-> [NS |-> "z", SOA |-> "z"],
   sets |-> [A |-> a, CNAME |-> cname, NS |-> ns, SOA |-> soa, MB |-> <<>>]]

Found(e)     == [rc |-> RC_OK, ent |-> e, soa |-> None]
Failed(c, d) == [rc |-> c, ent |-> None, soa |-> d]

Host  == Entry(FALSE, <<"1">>, <<>>, <<>>, <<>>)
Zone  == Entry(FALSE, <<>>, <<>>, <<"n">>, <<"s">>)
Whole == [Entry(TRUE, <<"1", "2">>, <<>>, <<"a">>, <<>>) EXCEPT !.sets.MB = <<"a">>]

MCResolve ==
  [a |-> {Found(Host), Found(Whole), Found(Entry(TRUE, <<>>, <<"b">>, <<>>, <<>>)),
          Failed(-1, None), Failed(RC_NAMEERR, "z")},
   n |-> {Failed(RC_SERVFAIL, None)}, z |-> {Found(Zone)},
   b |-> {Found(Host), Found(Entry(TRUE, <<>>, <<"a">>, <<>>, <<>>)), Failed(RC_NAMEERR, "z")}]

MCCached ==
  [a |-> {Whole}, b |-> {None}, n |-> {None, Host}, z |-> {None, Zone}]

MCLocalOwner == [a |-> "z", b |-> None, n |-> None, z |-> None]

MCNames  == {"a", "b", "n", "z"}
MCValues == MCNames \cup {"1", "2", "s"}
============================================================================
