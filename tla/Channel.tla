------------------------------ MODULE Channel ------------------------------
(***************************************************************************)
(* What queue.c gives the two threads that share it without a lock: a      *)
(* channel from one to the other.  The packets are numbered as they are    *)
(* sent, and each send and each receipt takes effect at one instant.  They *)
(* are received one after the other without a gap, until the channel is    *)
(* spoilt; from then on some may be missing, but none comes twice or after *)
(* a later one.                                                            *)
(***************************************************************************)
EXTENDS Naturals

VARIABLES sent,   \* packets sent so far
          taken,  \* the packet received last, or 0
          spoilt  \* packets may be missing

vars == <<sent, taken, spoilt>>

Init == sent = 0 /\ taken = 0 /\ spoilt = FALSE

Send == sent' = sent + 1 /\ UNCHANGED <<taken, spoilt>>

Receive ==
  /\ taken < sent
  /\ taken' = taken + 1
  /\ UNCHANGED <<sent, spoilt>>

ReceiveLater ==
  /\ spoilt
  /\ taken' \in (taken + 1)..sent
  /\ UNCHANGED <<sent, spoilt>>

Spoil == spoilt' = TRUE /\ UNCHANGED <<sent, taken>>

Next == Send \/ Receive \/ ReceiveLater \/ Spoil

Spec == Init /\ [][Next]_vars
=============================================================================
