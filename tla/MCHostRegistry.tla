--------------------------- MODULE MCHostRegistry ---------------------------
(* TLC instance of HostRegistry: two hosts that share an address, an       *)
(* address of neither, and requests for one host, for both and for the     *)
(* same host twice.                                                        *)
EXTENDS HostRegistry, TLC

CONSTANTS h1, h2, a1, a2, a3

MCHosts == {h1, h2}
MCAddrs == {a1, a2, a3}
MCAnswers == (h1 :> {{a1}}) @@ (h2 :> {{a2}, {a1, a2}})
MCRequests == {<<h1>>, <<h1, h2>>, <<h2, h2>>}
=============================================================================
