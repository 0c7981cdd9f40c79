---------------------------- MODULE MCPdnsdCache ----------------------------
(* TLC instance of PdnsdCache: a name, a name below it and the wildcard     *)
(* there; aliases, plain records, NS records and a type of rrext.           *)
EXTENDS PdnsdCache

MCNames == <<"b", "a.b", "*.b">>
MCUp    == [n \in {"b", "a.b", "*.b"} |-> IF n = "b" THEN <<>> ELSE <<"b">>]
MCStar  == [n \in {"b", "a.b", "*.b"} |-> IF n = "b" THEN "*.b" ELSE None]
MCTypes == <<"A", "NS", "CNAME", "DS">>
MCExt   == {"DS"}
MCData  == {"r"}

NoRef == [NS |-> None, SOA |-> None]
Set(ttl, flags) == [ttl |-> ttl, flags |-> flags, rrs |-> {"r"}]
Cent(n, flags, sets) == [name |-> n, flags |-> flags, ttl |-> 1, ref |-> NoRef, sets |-> sets]

MCSelections == {None, <<[rule |-> "exclude", domain |-> "*.b"],
                         [rule |-> "include", domain |-> "b"]>>}

LocalA  == Cent("b", {}, "A" :> Set(1, {"LOCAL"}))
Wild    == Cent("*.b", {"LOCAL"}, "A" :> Set(1, {"LOCAL"}))
MCLocal == <<LocalA, Wild>>
MCRecords   == {LocalA, Wild, Cent("a.b", {"LOCAL"}, "A" :> Set(1, {"LOCAL"}))}
MCNegations == {Cent("a.b", {"LOCAL", "NEGATIVE"}, <<>>),
                Cent("b", {}, "A" :> [Set(1, {"LOCAL", "NEGATIVE"}) EXCEPT !.rrs = {}])}
MCAnswers ==
  {Cent("b", {}, "NS" :> Set(1, {"ROOTSERV"})),
   Cent("b", {}, <<>>),
   Cent("*.b", {}, "A" :> Set(1, {}) @@ "CNAME" :> Set(1, {})),
   Cent("a.b", {}, "A" :> Set(2, {"ADDITIONAL"})),
   Cent("a.b", {}, "A" :> [Set(1, {"NEGATIVE"}) EXCEPT !.rrs = {}]),
   Cent("a.b", {"AUTH"}, "CNAME" :> Set(1, {"NOPURGE"})),
   Cent("a.b", {"NEGATIVE"}, <<>>),
   [Cent("a.b", {}, "DS" :> Set(0, {"NOCACHE"})) EXCEPT !.ref["NS"] = "b"]}
=============================================================================
