--------------------------- MODULE MCPacketQueue ---------------------------
(* TLC instance of PacketQueue.  Three packets are enough for a queue that *)
(* empties and refills while an enqueue is under way; four let it do so    *)
(* after a packet was lost.                                                *)
EXTENDS PacketQueue
=============================================================================
