---------------------------- MODULE MCPdnsdQuery ----------------------------
(* TLC instance of PdnsdQuery: a configured server with EDNS, a reject list *)
(* and up tests, and one found on the way to "a.b" for the domain "b".      *)
EXTENDS PdnsdQuery

MCWithin == [n \in {"", "b", "a.b", "x"} |-> {"", n} \cup (IF n = "a.b" THEN {"b"} ELSE {})]

Configured == [auth_serv |-> 1, trusted |-> TRUE, edns |-> TRUE, tests |-> TRUE,
               nsdomain |-> Nothing, rejects |-> TRUE]
Found == [auth_serv |-> 2, trusted |-> FALSE, edns |-> FALSE, tests |-> FALSE,
          nsdomain |-> "b", rejects |-> TRUE]
MCKind == [i \in Servers |-> IF i = 0 THEN Configured ELSE Found]

Rec(n, t) == [name |-> n, type |-> t, bad |-> FALSE, wire |-> "ok"]
Opt(code) == [name |-> "", type |-> "OPT", bad |-> FALSE, wire |-> "ok", rcode |-> code]
R(rcode, sec) == [sane |-> TRUE, question |-> TRUE, rcode |-> rcode, aa |-> FALSE, tc |-> FALSE,
                  ra |-> TRUE, sec |-> sec]
A  == Rec("a.b", "A")
NS == Rec("a.b", "NS")
X  == Rec("x", "A")

MCMessages ==
  {R("OK", <<<<A>>, <<NS>>, <<>>>>),
   [R("OK", <<<<A>>, <<NS, [X EXCEPT !.wire = "cut"]>>, <<>>>>) EXCEPT !.tc = TRUE],
   R("OK", <<<<A>>, <<NS>>, <<X, Opt("SERVFAIL")>>>>),
   R("OK", <<<<A>>, <<NS>>, <<[X EXCEPT !.bad = TRUE]>>>>),
   [R("OK", <<<<>>, <<NS>>, <<[X EXCEPT !.wire = "skip"], X>>>>) EXCEPT !.aa = TRUE],
   R("OK", <<<<A, [A EXCEPT !.wire = "junk"]>>, <<NS>>, <<>>>>),
   R("NAMEERR", <<<<>>, <<Rec("b", "SOA")>>, <<>>>>),
   [R("REFUSED", <<<<A>>, <<>>, <<>>>>) EXCEPT !.ra = FALSE],
   R("FORMAT", <<<<>>, <<>>, <<>>>>),
   [R("OK", <<<<>>, <<>>, <<>>>>) EXCEPT !.question = FALSE],
   [R("OK", <<<<>>, <<>>, <<>>>>) EXCEPT !.sane = FALSE]}
=============================================================================
