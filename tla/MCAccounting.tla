---------------------------- MODULE MCAccounting ----------------------------
(* TLC instance of Accounting: two hosts, five seconds, an interval of     *)
(* three seconds (so that gaps below, at and above it occur, in a row and  *)
(* interleaved between hosts) and one restart.                             *)
EXTENDS Accounting, TLC

Symmetry == Permutations(Hosts)
=============================================================================
