---------------------------- MODULE MCCommandIpc ----------------------------
(* TLC instance of CommandIpc: two clients, a backlog of one, two lines for *)
(* each client, three hosts.  Of the answers to `stats` some fit, with up   *)
(* to two entries, one of two entries does not, and three are cut off.  The *)
(* lines have too many words, too few, only a host's name, and more spaces  *)
(* than needed.                                                             *)
EXTENDS CommandIpc

CONSTANTS h1, h2, h3

MCHosts == {h1, h2, h3}
MCNameSize == (h1 :> 0) @@ (h2 :> 0) @@ (h3 :> 1)
MCLines ==
  {<<"server", Space, "start">>,
   <<Space, "server", Space, Space, "stop", Space>>,
   <<"hostname", Space, "list">>,
   <<"stats">>,
   <<"hostname", Space, "add">>,
   <<h1>>,
   <<"hostname", Space, "add", Space, Space, h2, Space, h1, Space>>,
   <<"hostname", Space, "add", Space, h3>>,
   <<"hostname", Space, "add", Space, h3, Space, h2, Space, h1>>}
=============================================================================
