-------------------------- MODULE MCCaptureControl --------------------------
(* TLC instance of CaptureControl: the program has exactly one thread of   *)
(* each kind, so the instance is the whole system and needs no bound.      *)
EXTENDS CaptureControl
=============================================================================
