--------------------------- MODULE MCPdnsdResolve ---------------------------
(* TLC instance of PdnsdResolve: a root server and a plain one; the domains *)
(* "b" and "c", whose name servers "ns.b" and "ns.c" depend on one another. *)
EXTENDS PdnsdResolve

MCNames == {"a.b", "ns.b", "ns.c", "b", "c"}
MCAbove == [n \in MCNames |-> IF n \in {"ns.c", "c"} THEN "c" ELSE "b"]

MCConfigured == <<[addr |-> 1, root |-> TRUE, allows |-> MCNames, nocache |-> FALSE,
                   nopurge |-> TRUE],
                  [addr |-> 2, root |-> FALSE, allows |-> {"a.b", "ns.b"}, nocache |-> TRUE,
                   nopurge |-> FALSE]>>

Answer(data) == [kind |-> "answer", data |-> data]
Refer(ns, glue, claims) == [kind |-> "refer", ns |-> ns, glue |-> glue, claims |-> claims]
Error(rc) == [kind |-> "error", rc |-> rc]

B == <<"b", "ns.b">>
C == <<"b", "ns.c">>

\* 1 is the root server, 2 knows "b", 3 knows "c".
MCWorld ==
  [a \in {1, 2, 3} |-> [n \in MCNames |->
     IF a = 1 THEN {Error("SERVFAIL"),
                    IF n = "ns.c" THEN Refer(<<<<"c", "ns.b">>>>, {}, TRUE)
                    ELSE Refer(<<B, C>>, {<<"ns.b", 2>>, <<"b", 3>>}, FALSE),
                    Refer(<<C>>, {}, FALSE)}
     ELSE IF a = 2 THEN {Error("REFUSED"), [kind |-> "nxdomain"],
                         IF n = "ns.c" THEN Answer({3, 2}) ELSE Refer(<<C>>, {}, TRUE)}
     ELSE {Answer({3}), Error("SERVFAIL")}]]

MCLocal == "b" :> [Entry("A", {9}, FALSE, FALSE) EXCEPT !.local = TRUE]
MCQueries == {<<"a.b", "A">>, <<"a.b", "MX">>, <<"ns.b", "A">>, <<"b", "A">>}
=============================================================================
