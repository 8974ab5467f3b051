---------------------------- MODULE MCHashTable ----------------------------
(* TLC instance of HashTable: three keys in a table that starts with two   *)
(* slots and so grows twice, to eight; one key has two values.  The hash   *)
(* functions collide everywhere and at the last slot, before growth only,  *)
(* and nowhere but in the smallest table.                                  *)
EXTENDS HashTable, TLC

CONSTANTS k1, k2, k3, v1, v2

MCKeys == {k1, k2, k3}
MCValues == {v1, v2}
MCEntries == {<<k1, v1>>, <<k1, v2>>, <<k2, v1>>, <<k3, v1>>}
MCHash(a, b, c) == (k1 :> a) @@ (k2 :> b) @@ (k3 :> c)
MCHashes == {MCHash(7, 7, 7), MCHash(7, 3, 0), MCHash(0, 1, 2)}
=============================================================================
