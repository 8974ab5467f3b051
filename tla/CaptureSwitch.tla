--------------------------- MODULE CaptureSwitch ---------------------------
(***************************************************************************)
(* What starting and stopping a capture promises, without threads, locks   *)
(* or condition variables: a switch, and batches of packets that the       *)
(* switch authorises one at a time.                                        *)
(*                                                                         *)
(* A batch is one call of pcap_dispatch.  The capture thread COMMITS to a  *)
(* batch while the switch is on, and runs it later; turning the switch off *)
(* does not recall a batch already committed.  So at most one batch runs   *)
(* after the switch went off, whatever the interleaving.                   *)
(***************************************************************************)
VARIABLES enabled,  \* the switch: start_pcap was called last, not stop_pcap
          batch     \* where the capture thread stands in its current batch

vars == <<enabled, batch>>

Init == enabled = FALSE /\ batch = "none"

TurnOn  == enabled' = TRUE  /\ UNCHANGED batch
TurnOff == enabled' = FALSE /\ UNCHANGED batch

\* The only moment at which the switch matters to the capture thread.
Commit == enabled /\ batch = "none" /\ batch' = "committed" /\ UNCHANGED enabled

Begin == batch = "committed" /\ batch' = "running" /\ UNCHANGED enabled
End   == batch = "running"   /\ batch' = "none"    /\ UNCHANGED enabled

Next == TurnOn \/ TurnOff \/ Commit \/ Begin \/ End

Spec == Init /\ [][Next]_vars
=============================================================================
