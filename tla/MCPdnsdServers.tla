--------------------------- MODULE MCPdnsdServers ---------------------------
(* TLC instance of PdnsdServers: configurations of one or two sections      *)
(* that between them have every interval, every test, a scheme and          *)
(* undiscovered root servers.                                               *)
EXTENDS PdnsdServers

S(iv, test, sch, root, addrs) ==
  [label |-> "s", interval |-> iv, uptest |-> test, scheme |-> sch,
   rootserver |-> root, preset |-> TRUE, atup |-> addrs]

MCConfigs == {
  <<S("periodic", "none", TRUE, 2, <<"a">>)>>,
  <<S("ontimeout", "query", FALSE, 0, <<"a">>), S("onquery", "if", FALSE, 0, <<"b">>)>>,
  <<S("onquery", "if", FALSE, 2, <<"a">>)>>,
  <<S("periodic", "ping", FALSE, 0, <<"a">>)>>,
  <<S("never", "pingone", TRUE, 2, <<"a">>)>>}

MCLists == {<<>>, <<"a">>, <<"b">>}

MCWatched == {<<1, 1>>, <<1, 2>>}
=============================================================================
