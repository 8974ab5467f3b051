----------------------------- MODULE PacketQueue -----------------------------
(***************************************************************************)
(* The queue of captured packets: queue.c, filled by packet_handler on the *)
(* capture thread, drained by packet_queue_loop on its own thread, with    *)
(* pck_cond to wake the latter.                                            *)
(*                                                                         *)
(* The two threads share head, tail and the next pointers without a lock,  *)
(* so each load and each store of a shared word is a step of its own (the  *)
(* build is unoptimised: one C access is one memory access) and the steps  *)
(* interleave.  Packet n is the n-th one that got a node; the node carries *)
(* its number, because dequeue never frees a node and so no address is     *)
(* ever reused.                                                            *)
(*                                                                         *)
(* ctx->mutex is left out: only the draining thread ever names it.         *)
(***************************************************************************)
EXTENDS Naturals

CONSTANT MaxPackets  \* bound of the instance: packets that get a node

ASSUME MaxPacketsAssumption == MaxPackets \in Nat

Null == 0
Node == 1..MaxPackets

VARIABLES head,     \* q->head
          tail,     \* q->tail
          next,     \* item->next of every node
          prod,     \* where packet_handler stands
          count,    \* packets given a node so far; the last is being enqueued
          oldTail,  \* the q->tail that enqueue loaded
          cons,     \* where packet_queue_loop stands
          got,      \* the packet dequeue is returning
          after,    \* the head->next that dequeue loaded
          handled,  \* packets the loop has dealt with
          raced     \* history: the last node was taken during an enqueue

prodVars == <<prod, count, oldTail>>
consVars == <<cons, got, after, handled>>
vars == <<head, tail, next, prodVars, consVars, raced>>

\* exit(0) in dequeue and a null dereference on either thread end the process,
\* and with it both threads.
Ended == {"exit0", "dequeueFault", "enqueueFault"}
Alive == prod \notin Ended /\ cons \notin Ended
Ends(how) == prod' = how /\ cons' = how

ProdPc == {"idle", "test", "setHead", "loadTail", "setNext", "setTail",
           "signal"} \cup Ended
ConsPc == {"enter", "asleep", "drain", "check", "take", "loadNext", "setHead",
           "retest", "clearTail", "handle"} \cup Ended

\* The one overlap of the two threads that can damage the queue: dequeue has
\* found no successor while enqueue is between its test of head and the store
\* that publishes the new node.
TakingLast == cons \in {"setHead", "retest", "clearTail"} /\ after = Null
Linking == prod \in {"setHead", "loadTail", "setNext"}

-----------------------------------------------------------------------------
InitTailUnset ==  \* variant: init_queue leaves q->tail as malloc gave it
  /\ head = Null
  /\ tail \in {Null, MaxPackets + 1}
  /\ next = [n \in Node |-> Null]
  /\ prod = "idle" /\ count = 0 /\ oldTail = Null
  /\ cons = "enter" /\ got = Null /\ after = Null /\ handled = {}
  /\ raced = FALSE

Init ==
  /\ head = Null
  /\ tail = Null
  /\ next = [n \in Node |-> Null]
  /\ prod = "idle" /\ count = 0 /\ oldTail = Null
  /\ cons = "enter" /\ got = Null /\ after = Null /\ handled = {}
  /\ raced = FALSE

-----------------------------------------------------------------------------
(* The capture thread, inside pcap_dispatch.                               *)

\* packet_handler is called and enqueue fills a new node, not yet linked.
Arrive ==
  /\ prod = "idle" /\ count < MaxPackets
  /\ count' = count + 1
  /\ prod' = "test"
  /\ UNCHANGED <<head, tail, next, oldTail, consVars, raced>>

\* enqueue gets no memory for the node: it returns, and the handler signals.
ArriveNoMemory ==
  /\ prod = "idle"
  /\ prod' = "signal"
  /\ UNCHANGED <<head, tail, next, count, oldTail, consVars, raced>>

TestHead ==
  /\ prod = "test"
  /\ prod' = IF head = Null THEN "setHead" ELSE "loadTail"
  /\ raced' = (raced \/ TakingLast)
  /\ UNCHANGED <<head, tail, next, count, oldTail, consVars>>

EnqueueHead ==
  /\ prod = "setHead"
  /\ head' = count
  /\ prod' = "setTail"
  /\ UNCHANGED <<tail, next, count, oldTail, consVars, raced>>

LoadTail ==
  /\ prod = "loadTail"
  /\ oldTail' = tail
  /\ prod' = "setNext"
  /\ UNCHANGED <<head, tail, next, count, consVars, raced>>

EnqueueNextSelf ==  \* variant: q->tail is moved before its next is set
  /\ prod = "setNext" /\ oldTail # Null
  /\ next' = [next EXCEPT ![count] = count]
  /\ prod' = "setTail"
  /\ UNCHANGED <<head, tail, count, oldTail, consVars, raced>>

\* q->tail->next = item, a null dereference if the queue has lost its tail.
EnqueueNext ==
  /\ prod = "setNext" /\ oldTail # Null
  /\ next' = [next EXCEPT ![oldTail] = count]
  /\ prod' = "setTail"
  /\ UNCHANGED <<head, tail, count, oldTail, consVars, raced>>

EnqueueNextCrashes ==
  /\ prod = "setNext" /\ oldTail = Null
  /\ Ends("enqueueFault")
  /\ UNCHANGED <<head, tail, next, count, oldTail, got, after, handled, raced>>

EnqueueTailForgotten ==  \* variant: enqueue moves the tail only when it linked
  /\ prod = "setTail"
  /\ tail' = IF head = count THEN tail ELSE count
  /\ prod' = "signal"
  /\ UNCHANGED <<head, next, count, oldTail, consVars, raced>>

EnqueueTail ==
  /\ prod = "setTail"
  /\ tail' = count
  /\ prod' = "signal"
  /\ UNCHANGED <<head, next, count, oldTail, consVars, raced>>

\* pthread_cond_signal: lost unless the other thread is in its wait.
Signal ==
  /\ prod = "signal"
  /\ cons' = IF cons = "asleep" THEN "drain" ELSE cons
  /\ prod' = "idle"
  /\ UNCHANGED <<head, tail, next, count, oldTail, got, after, handled, raced>>

-----------------------------------------------------------------------------
(* The draining thread.                                                    *)

\* pthread_cond_wait, with no test of the queue before it.
Wait ==
  /\ cons = "enter"
  /\ cons' = "asleep"
  /\ UNCHANGED <<head, tail, next, prodVars, got, after, handled, raced>>

\* A wake-up without a signal.  The first wait is made on a mutex that is
\* not locked and may return at once: the same outcome.
SpuriousWakeup ==
  /\ cons = "asleep"
  /\ cons' = "drain"
  /\ UNCHANGED <<head, tail, next, prodVars, got, after, handled, raced>>

DrainUntested ==  \* variant: dequeue is called without is_empty
  /\ cons = "drain"
  /\ cons' = "check"
  /\ UNCHANGED <<head, tail, next, prodVars, got, after, handled, raced>>

\* is_empty.
Drain ==
  /\ cons = "drain"
  /\ cons' = IF head = Null THEN "enter" ELSE "check"
  /\ UNCHANGED <<head, tail, next, prodVars, got, after, handled, raced>>

\* dequeue tests head again, and ends the program if the queue is empty.
DequeueCheck ==
  /\ cons = "check"
  /\ IF head = Null THEN Ends("exit0") ELSE cons' = "take" /\ UNCHANGED prod
  /\ UNCHANGED <<head, tail, next, count, oldTail, got, after, handled, raced>>

DequeueTake ==
  /\ cons = "take"
  /\ got' = head
  /\ IF head = Null THEN Ends("dequeueFault") ELSE cons' = "loadNext" /\ UNCHANGED prod
  /\ UNCHANGED <<head, tail, next, count, oldTail, after, handled, raced>>

DequeueLoadNext ==
  /\ cons = "loadNext"
  /\ IF head = Null
     THEN Ends("dequeueFault") /\ UNCHANGED <<after, raced>>
     ELSE /\ after' = next[head]
          /\ cons' = "setHead"
          /\ raced' = (raced \/ (next[head] = Null /\ Linking))
          /\ UNCHANGED prod
  /\ UNCHANGED <<head, tail, next, count, oldTail, got, handled>>

DequeueKeepsHead ==  \* variant: the head is not advanced past the last node
  /\ cons = "setHead"
  /\ head' = IF after = Null THEN head ELSE after
  /\ cons' = "retest"
  /\ UNCHANGED <<tail, next, prodVars, got, after, handled, raced>>

DequeueSetHead ==
  /\ cons = "setHead"
  /\ head' = after
  /\ cons' = "retest"
  /\ UNCHANGED <<tail, next, prodVars, got, after, handled, raced>>

DequeueRetest ==
  /\ cons = "retest"
  /\ cons' = IF head = Null THEN "clearTail" ELSE "handle"
  /\ UNCHANGED <<head, tail, next, prodVars, got, after, handled, raced>>

DequeueClearTail ==
  /\ cons = "clearTail"
  /\ tail' = Null
  /\ cons' = "handle"
  /\ UNCHANGED <<head, next, prodVars, got, after, handled, raced>>

HandleOnce ==  \* variant: `if (!is_empty)` in place of the inner `while`
  /\ cons = "handle"
  /\ handled' = handled \cup {got}
  /\ cons' = "enter"
  /\ UNCHANGED <<head, tail, next, prodVars, got, after, raced>>

\* The rest of the loop body: the session update, modelled in Accounting.
Handle ==
  /\ cons = "handle"
  /\ handled' = handled \cup {got}
  /\ cons' = "drain"
  /\ UNCHANGED <<head, tail, next, prodVars, got, after, raced>>

-----------------------------------------------------------------------------
ProducerStep ==
  TestHead \/ EnqueueHead \/ LoadTail \/ EnqueueNext \/ EnqueueNextCrashes
    \/ EnqueueTail \/ Signal

ConsumerStep ==
  Wait \/ Drain \/ DequeueCheck \/ DequeueTake \/ DequeueLoadNext
    \/ DequeueSetHead \/ DequeueRetest \/ DequeueClearTail \/ Handle

Next ==
  \/ Arrive
  \/ ArriveNoMemory
  \/ ProducerStep
  \/ ConsumerStep
  \/ SpuriousWakeup

Spec == Init /\ [][Next]_vars

\* Each thread keeps running once it has started something.  Nothing obliges
\* packets to arrive or a wait to return without a signal.
Fairness == /\ WF_vars(ProducerStep)
            /\ WF_vars(ConsumerStep)

FairSpec == Spec /\ Fairness

-----------------------------------------------------------------------------
(* Properties.                                                             *)

TypeOK ==
  /\ head \in Node \cup {Null}
  /\ tail \in Node \cup {Null}
  /\ next \in [Node -> Node \cup {Null}]
  /\ prod \in ProdPc
  /\ count \in 0..MaxPackets
  /\ oldTail \in Node \cup {Null}
  /\ cons \in ConsPc
  /\ got \in Node \cup {Null}
  /\ after \in Node \cup {Null}
  /\ handled \subseteq Node
  /\ raced \in BOOLEAN

\* With one draining thread is_empty and dequeue agree: between them nobody
\* empties the queue, so the exit(0) of dequeue and the null dereferences of
\* queue.c:39-41 are out of reach, race or no race (queue.c:34-41).
DequeueFindsPacket ==
  /\ cons \in {"check", "take", "loadNext"} => head # Null
  /\ cons \notin {"exit0", "dequeueFault"}

\* A packet is handled at most once and never after a later one, even when
\* the race has damaged the queue (sniffing.c:61-101, queue.c:16-46): the
\* session times of the loop never run backwards because of the queue.
InOrder == cons = "handle" => \A m \in handled : m < got

\* The nodes reachable from a node; links only lead to later packets.
Chain[n \in 0..MaxPackets] ==
  IF n = Null THEN {}
  ELSE {n} \cup (IF next[n] > n THEN Chain[next[n]] ELSE {})

\* Packets linked into the queue, and the ones on their way out of it.
Published == IF prod \in {"test", "setHead", "loadTail", "setNext", "enqueueFault"}
             THEN count - 1 ELSE count
Linked == 1..Published
InHand == IF cons \in {"loadNext", "setHead", "retest", "clearTail", "handle"}
          THEN {got} ELSE {}

\* Every packet that was linked is handled, in hand, or can still be reached
\* from the head (sniffing.c:139, queue.c:24-30, 39-44).
NothingLost == Linked \subseteq handled \cup InHand \cup Chain[head]

\* Taking the last node during an enqueue is the only way to lose a packet or
\* the tail pointer: until that happens both threads can work at once, the
\* queue keeps every packet, its tail is its last node whenever nobody is in
\* the middle of an operation, and enqueue dereferences no null pointer.
IntactUntilRaced ==
  ~raced =>
    /\ NothingLost
    /\ prod # "enqueueFault"
    /\ prod \in {"idle", "signal"}
         /\ cons \in {"enter", "asleep", "drain", "check", "take", "handle"}
         /\ head # Null => tail = count

\* The queue is a channel: a packet is sent by the one store that links it and
\* received by the one load of the head in dequeue, whatever the other thread
\* does in between; up to the race they come out one after the other, without
\* a gap (queue.c:16-46).
Abstract == INSTANCE Channel WITH sent <- Published, taken <- got, spoilt <- raced

ImplementsChannel == Abstract!Spec

\* A signal that finds the draining thread asleep gets every packet handled that
\* can be reached in the queue then, whatever arrives or is lost to the race
\* meanwhile (sniffing.c:57-101): packets are taken first come first served, so
\* this needs no end of the traffic.
WakeupDrains ==
  \A n \in Node :
    (prod = "signal" /\ cons = "asleep" /\ n \in Chain[head]) ~> (n \in handled \/ ~Alive)

\* A packet does not stay in an undamaged queue while the draining thread
\* sleeps (sniffing.c:60-61, 139-140).
NoPacketLeftAsleep ==
  (cons = "asleep" /\ head # Null)
    ~> (cons # "asleep" \/ head = Null \/ raced \/ ~Alive)
=============================================================================
