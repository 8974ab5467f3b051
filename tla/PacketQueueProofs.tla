-------------------------- MODULE PacketQueueProofs --------------------------
(***************************************************************************)
(* Proofs about PacketQueue, for any number of packets and although the    *)
(* two threads race: dequeue always finds a packet, and packets are        *)
(* handled in the order they arrived, none of them twice.  Until the last  *)
(* node is taken during an enqueue, no packet is lost and the tail is the  *)
(* last node.                                                              *)
(***************************************************************************)
EXTENDS PacketQueue, SetInduction

Enqueuing == {"test", "setHead", "loadTail", "setNext", "setTail"}
Hidden == {"test", "setHead", "loadTail", "setNext"}

\* The packets whose node the other thread can see: all but the one that
\* enqueue has filled and not yet linked.
Visible == IF prod \in Hidden THEN count - 1 ELSE count

\* Only the draining thread takes the head away, and enqueue replaces it only
\* when it was null, which the draining thread then does not look behind.
HeadStable ==
  /\ cons \in {"check", "take", "loadNext", "setHead"} => head # Null
  /\ prod = "setHead" => head = Null
  /\ prod \in Enqueuing => count >= 1
  /\ cons \notin {"exit0", "dequeueFault"}

\* Nothing in the queue's memory refers to a node before it is linked.
NodesVisible ==
  /\ head <= Visible
  /\ tail <= Visible
  /\ after <= Visible
  /\ got <= Visible
  /\ prod = "setNext" => oldTail <= Visible
  /\ \A m \in handled : m <= Visible
  /\ \A n \in Node : next[n] <= Visible

\* Links lead forward, and what was handled lies behind what is still queued.
Forward ==
  /\ \A n \in Node : next[n] # Null => n < next[n]
  /\ cons \in {"enter", "asleep", "drain", "check", "take"} =>
       (head # Null => \A m \in handled : m < head)
  /\ cons \in {"loadNext", "setHead", "retest", "clearTail", "handle"} =>
       got # Null /\ \A m \in handled : m < got
  /\ cons \in {"loadNext", "setHead"} => head = got
  /\ cons = "setHead" => (after # Null => got < after)
  /\ cons \in {"retest", "clearTail", "handle"} => (head # Null => got < head)

QInv == TypeOK /\ HeadStable /\ NodesVisible /\ Forward

-----------------------------------------------------------------------------
LEMMA TypeInit == Init => TypeOK
<1> SUFFICES ASSUME Init PROVE TypeOK
  OBVIOUS
<1>1. next \in [Node -> Node \cup {Null}]
  BY DEF Init, Null
<1>2. prod \in ProdPc /\ cons \in ConsPc /\ raced \in BOOLEAN
  BY DEF Init, ProdPc, ConsPc
<1>3. count \in 0..MaxPackets
  BY MaxPacketsAssumption DEF Init
<1>4. QED
  BY <1>1, <1>2, <1>3 DEF Init, TypeOK

LEMMA TypeStep == QInv /\ [Next]_vars => TypeOK'
<1> SUFFICES ASSUME TypeOK, Forward, [Next]_vars
             PROVE  TypeOK'
  BY DEF QInv
<1> USE MaxPacketsAssumption
    DEF TypeOK, ProdPc, ConsPc, Node, Null, Ended, Ends, prodVars, consVars
<1>1. CASE Arrive
  BY <1>1 DEF Arrive
<1>2. CASE ArriveNoMemory
  BY <1>2 DEF ArriveNoMemory
<1>3. CASE TestHead
  <2>1. raced' \in BOOLEAN
    BY <1>3 DEF TestHead
  <2>2. QED
    BY <1>3, <2>1 DEF TestHead
<1>4. CASE EnqueueHead
  BY <1>4 DEF EnqueueHead
<1>5. CASE LoadTail
  BY <1>5 DEF LoadTail
<1>6. CASE EnqueueNext
  BY <1>6 DEF EnqueueNext
<1>7. CASE EnqueueNextCrashes
  BY <1>7 DEF EnqueueNextCrashes
<1>8. CASE EnqueueTail
  BY <1>8 DEF EnqueueTail
<1>9. CASE Signal
  BY <1>9 DEF Signal
<1>10. CASE Wait
  BY <1>10 DEF Wait
<1>11. CASE SpuriousWakeup
  BY <1>11 DEF SpuriousWakeup
<1>12. CASE Drain
  BY <1>12 DEF Drain
<1>13. CASE DequeueCheck
  BY <1>13 DEF DequeueCheck
<1>14. CASE DequeueTake
  BY <1>14 DEF DequeueTake
<1>15. CASE DequeueLoadNext
  <2>1. raced' \in BOOLEAN
    BY <1>15 DEF DequeueLoadNext
  <2>2. QED
    BY <1>15, <2>1 DEF DequeueLoadNext
<1>16. CASE DequeueSetHead
  BY <1>16 DEF DequeueSetHead
<1>17. CASE DequeueRetest
  BY <1>17 DEF DequeueRetest
<1>18. CASE DequeueClearTail
  BY <1>18 DEF DequeueClearTail
<1>19. CASE Handle
  BY <1>19 DEF Handle, Forward
<1>20. CASE UNCHANGED vars
  BY <1>20 DEF vars
<1>21. QED
  BY <1>1, <1>2, <1>3, <1>4, <1>5, <1>6, <1>7, <1>8, <1>9, <1>10, <1>11,
     <1>12, <1>13, <1>14, <1>15, <1>16, <1>17, <1>18, <1>19, <1>20
     DEF Next, ProducerStep, ConsumerStep

LEMMA StableInit == Init => HeadStable
BY DEF Init, HeadStable, Enqueuing

LEMMA StableStep == QInv /\ [Next]_vars => HeadStable'
<1> SUFFICES ASSUME TypeOK, HeadStable, NodesVisible, Forward, [Next]_vars
             PROVE  HeadStable'
  BY DEF QInv
<1> USE MaxPacketsAssumption
    DEF TypeOK, HeadStable, Enqueuing, Node, Null, Ended, Ends, prodVars, consVars
<1>1. CASE Arrive
  BY <1>1 DEF Arrive
<1>2. CASE ArriveNoMemory
  BY <1>2 DEF ArriveNoMemory
<1>3. CASE TestHead
  BY <1>3 DEF TestHead
<1>4. CASE EnqueueHead
  BY <1>4 DEF EnqueueHead
<1>5. CASE LoadTail
  BY <1>5 DEF LoadTail
<1>6. CASE EnqueueNext
  BY <1>6 DEF EnqueueNext
<1>7. CASE EnqueueNextCrashes
  BY <1>7 DEF EnqueueNextCrashes
<1>8. CASE EnqueueTail
  BY <1>8 DEF EnqueueTail
<1>9. CASE Signal
  BY <1>9 DEF Signal
<1>10. CASE Wait
  BY <1>10 DEF Wait
<1>11. CASE SpuriousWakeup
  BY <1>11 DEF SpuriousWakeup
<1>12. CASE Drain
  BY <1>12 DEF Drain
<1>13. CASE DequeueCheck
  BY <1>13 DEF DequeueCheck
<1>14. CASE DequeueTake
  BY <1>14 DEF DequeueTake
<1>15. CASE DequeueLoadNext
  BY <1>15 DEF DequeueLoadNext
<1>16. CASE DequeueSetHead
  BY <1>16 DEF DequeueSetHead
<1>17. CASE DequeueRetest
  BY <1>17 DEF DequeueRetest
<1>18. CASE DequeueClearTail
  BY <1>18 DEF DequeueClearTail
<1>19. CASE Handle
  BY <1>19 DEF Handle
<1>20. CASE UNCHANGED vars
  BY <1>20 DEF vars
<1>21. QED
  BY <1>1, <1>2, <1>3, <1>4, <1>5, <1>6, <1>7, <1>8, <1>9, <1>10, <1>11,
     <1>12, <1>13, <1>14, <1>15, <1>16, <1>17, <1>18, <1>19, <1>20
     DEF Next, ProducerStep, ConsumerStep

LEMMA VisibleInit == Init => NodesVisible
BY DEF Init, NodesVisible, Visible, Hidden, Null

LEMMA ForwardInit == Init => Forward
BY DEF Init, Forward, Null

LEMMA VisibleStep == QInv /\ [Next]_vars => NodesVisible'
<1> SUFFICES ASSUME TypeOK, HeadStable, NodesVisible, Forward, [Next]_vars
             PROVE  NodesVisible'
  BY DEF QInv
<1> USE MaxPacketsAssumption
    DEF TypeOK, HeadStable, NodesVisible, Visible, Hidden, Enqueuing, Node, Null,
        Ended, Ends, prodVars, consVars
<1>1. CASE Arrive
  BY <1>1 DEF Arrive
<1>2. CASE ArriveNoMemory
  BY <1>2 DEF ArriveNoMemory
<1>3. CASE TestHead
  BY <1>3 DEF TestHead
<1>4. CASE EnqueueHead
  BY <1>4 DEF EnqueueHead
<1>5. CASE LoadTail
  BY <1>5 DEF LoadTail
<1>6. CASE EnqueueNext
  BY <1>6 DEF EnqueueNext
<1>7. CASE EnqueueNextCrashes
  BY <1>7 DEF EnqueueNextCrashes
<1>8. CASE EnqueueTail
  BY <1>8 DEF EnqueueTail
<1>9. CASE Signal
  BY <1>9 DEF Signal
<1>10. CASE Wait
  BY <1>10 DEF Wait
<1>11. CASE SpuriousWakeup
  BY <1>11 DEF SpuriousWakeup
<1>12. CASE Drain
  BY <1>12 DEF Drain
<1>13. CASE DequeueCheck
  BY <1>13 DEF DequeueCheck
<1>14. CASE DequeueTake
  BY <1>14 DEF DequeueTake
<1>15. CASE DequeueLoadNext
  BY <1>15 DEF DequeueLoadNext
<1>16. CASE DequeueSetHead
  BY <1>16 DEF DequeueSetHead
<1>17. CASE DequeueRetest
  BY <1>17 DEF DequeueRetest
<1>18. CASE DequeueClearTail
  BY <1>18 DEF DequeueClearTail
<1>19. CASE Handle
  BY <1>19 DEF Handle
<1>20. CASE UNCHANGED vars
  BY <1>20 DEF vars
<1>21. QED
  BY <1>1, <1>2, <1>3, <1>4, <1>5, <1>6, <1>7, <1>8, <1>9, <1>10, <1>11,
     <1>12, <1>13, <1>14, <1>15, <1>16, <1>17, <1>18, <1>19, <1>20
     DEF Next, ProducerStep, ConsumerStep

LEMMA ForwardStep == QInv /\ [Next]_vars => Forward'
<1> SUFFICES ASSUME TypeOK, HeadStable, NodesVisible, Forward, [Next]_vars
             PROVE  Forward'
  BY DEF QInv
<1> USE MaxPacketsAssumption
    DEF TypeOK, HeadStable, NodesVisible, Visible, Hidden, Enqueuing, Forward,
        Node, Null, Ended, Ends, prodVars, consVars
<1>1. CASE Arrive
  BY <1>1 DEF Arrive
<1>2. CASE ArriveNoMemory
  BY <1>2 DEF ArriveNoMemory
<1>3. CASE TestHead
  BY <1>3 DEF TestHead
<1>4. CASE EnqueueHead
  BY <1>4 DEF EnqueueHead
<1>5. CASE LoadTail
  BY <1>5 DEF LoadTail
<1>6. CASE EnqueueNext
  BY <1>6 DEF EnqueueNext
<1>7. CASE EnqueueNextCrashes
  BY <1>7 DEF EnqueueNextCrashes
<1>8. CASE EnqueueTail
  BY <1>8 DEF EnqueueTail
<1>9. CASE Signal
  BY <1>9 DEF Signal
<1>10. CASE Wait
  BY <1>10 DEF Wait
<1>11. CASE SpuriousWakeup
  BY <1>11 DEF SpuriousWakeup
<1>12. CASE Drain
  BY <1>12 DEF Drain
<1>13. CASE DequeueCheck
  BY <1>13 DEF DequeueCheck
<1>14. CASE DequeueTake
  BY <1>14 DEF DequeueTake
<1>15. CASE DequeueLoadNext
  BY <1>15 DEF DequeueLoadNext
<1>16. CASE DequeueSetHead
  BY <1>16 DEF DequeueSetHead
<1>17. CASE DequeueRetest
  BY <1>17 DEF DequeueRetest
<1>18. CASE DequeueClearTail
  BY <1>18 DEF DequeueClearTail
<1>19. CASE Handle
  BY <1>19 DEF Handle
<1>20. CASE UNCHANGED vars
  BY <1>20 DEF vars
<1>21. QED
  BY <1>1, <1>2, <1>3, <1>4, <1>5, <1>6, <1>7, <1>8, <1>9, <1>10, <1>11,
     <1>12, <1>13, <1>14, <1>15, <1>16, <1>17, <1>18, <1>19, <1>20
     DEF Next, ProducerStep, ConsumerStep

-----------------------------------------------------------------------------
LEMMA InvInit == Init => QInv
BY TypeInit, StableInit, VisibleInit, ForwardInit DEF QInv

LEMMA InvStep == QInv /\ [Next]_vars => QInv'
BY TypeStep, StableStep, VisibleStep, ForwardStep DEF QInv

\* Every variable keeps to its values, for any number of packets: enqueue's
\* links and dequeue's results are nodes or null.
THEOREM TypeCorrect == Spec => []TypeOK
<1>1. QInv => TypeOK
  BY DEF QInv
<1>2. QED
  BY <1>1, InvInit, InvStep, PTL DEF Spec

\* dequeue never finds the queue empty and never dereferences null, whatever
\* the capture thread does meanwhile (queue.c:34-41).
THEOREM DequeueIsSafe == Spec => []DequeueFindsPacket
<1>1. QInv => DequeueFindsPacket
  BY DEF QInv, HeadStable, DequeueFindsPacket
<1>2. QED
  BY <1>1, InvInit, InvStep, PTL DEF Spec

\* Packets are handled in order and at most once, even after the race has
\* damaged the queue (sniffing.c:61-101).
THEOREM HandledInOrder == Spec => []InOrder
<1>1. QInv => InOrder
  BY DEF QInv, Forward, InOrder
<1>2. QED
  BY <1>1, InvInit, InvStep, PTL DEF Spec

-----------------------------------------------------------------------------
(* The undamaged queue.                                                    *)

\* From the head on every node is linked to the next one that arrived, and
\* all before the head are handled or in hand.
Whole ==
  /\ head = Null => 1..Visible \subseteq handled \cup InHand
  /\ head # Null =>
       /\ 1..(head - 1) \subseteq handled \cup InHand
       /\ \A n \in head..(Visible - 1) : next[n] = n + 1

\* The tail is the last node except between publishing a node and setting it.
TailIsLast ==
  /\ prod # "setTail" /\ head # Null => tail = Visible
  /\ prod = "setNext" => oldTail = Visible

\* What one thread has found out about the head the other has not changed.
NoOverlap ==
  /\ TakingLast => ~Linking /\ got = Visible
  /\ cons = "setHead" /\ after # Null => after = got + 1
  /\ cons = "clearTail" => after = Null
  /\ cons \in {"retest", "clearTail"} => head = after
  /\ prod \in {"loadTail", "setNext"} => head # Null
  /\ prod # "enqueueFault"

Intact == ~raced => Whole /\ TailIsLast /\ NoOverlap

LEMMA IntactInit == Init => Intact
BY DEF Init, Intact, Whole, TailIsLast, NoOverlap, Visible, Hidden, InHand,
       TakingLast, Linking, Null

LEMMA IntactStep == QInv /\ Intact /\ [Next]_vars => Intact'
<1> SUFFICES ASSUME TypeOK, HeadStable, NodesVisible, Forward, Intact, [Next]_vars,
                    ~raced'
             PROVE  (Whole /\ TailIsLast /\ NoOverlap)'
  BY DEF QInv, Intact
<1> USE MaxPacketsAssumption
    DEF TypeOK, HeadStable, NodesVisible, Visible, Hidden, Enqueuing, Forward,
        Intact, Whole, TailIsLast, NoOverlap, InHand, TakingLast, Linking,
        Node, Null, Ended, Ends, prodVars, consVars
<1>1. CASE Arrive
  BY <1>1 DEF Arrive
<1>2. CASE ArriveNoMemory
  BY <1>2 DEF ArriveNoMemory
<1>3. CASE TestHead
  BY <1>3 DEF TestHead
<1>4. CASE EnqueueHead
  BY <1>4 DEF EnqueueHead
<1>5. CASE LoadTail
  BY <1>5 DEF LoadTail
<1>6. CASE EnqueueNext
  BY <1>6 DEF EnqueueNext
<1>7. CASE EnqueueNextCrashes
  BY <1>7 DEF EnqueueNextCrashes
<1>8. CASE EnqueueTail
  BY <1>8 DEF EnqueueTail
<1>9. CASE Signal
  BY <1>9 DEF Signal
<1>10. CASE Wait
  BY <1>10 DEF Wait
<1>11. CASE SpuriousWakeup
  BY <1>11 DEF SpuriousWakeup
<1>12. CASE Drain
  BY <1>12 DEF Drain
<1>13. CASE DequeueCheck
  BY <1>13 DEF DequeueCheck
<1>14. CASE DequeueTake
  BY <1>14 DEF DequeueTake
<1>15. CASE DequeueLoadNext
  <2>1. ~raced /\ head # Null /\ head = got /\ after' = next[got] /\ cons' = "setHead"
    BY <1>15 DEF DequeueLoadNext
  <2>2. UNCHANGED <<head, tail, next, prod, count, oldTail, got, handled>>
    BY <1>15, <2>1 DEF DequeueLoadNext
  <2>3. got \in Node /\ got <= Visible
    BY <2>1
  <2>4. next[got] = Null => ~Linking
    BY <1>15, <2>1 DEF DequeueLoadNext
  <2>5. next[got] = IF got = Visible THEN Null ELSE got + 1
    BY <2>1, <2>3
  <2>6. QED
    BY <1>15, <2>1, <2>2, <2>3, <2>4, <2>5
<1>16. CASE DequeueSetHead
  BY <1>16 DEF DequeueSetHead
<1>17. CASE DequeueRetest
  BY <1>17 DEF DequeueRetest
<1>18. CASE DequeueClearTail
  BY <1>18 DEF DequeueClearTail
<1>19. CASE Handle
  BY <1>19 DEF Handle
<1>20. CASE UNCHANGED vars
  BY <1>20 DEF vars
<1>21. QED
  BY <1>1, <1>2, <1>3, <1>4, <1>5, <1>6, <1>7, <1>8, <1>9, <1>10, <1>11,
     <1>12, <1>13, <1>14, <1>15, <1>16, <1>17, <1>18, <1>19, <1>20
     DEF Next, ProducerStep, ConsumerStep

-----------------------------------------------------------------------------
(* What Chain computes: the recursion is well defined, and collects every  *)
(* node of an unbroken run.                                                *)

\* The links of a node, in terms of any function h on the later nodes.
Reached(h, n) == {n} \cup (IF next[n] > n THEN h[next[n]] ELSE {})

\* There is such a function, by induction on the number of last nodes.
LEMMA ChainExists ==
  ASSUME TypeOK
  PROVE  \E h : h = [n \in 0..MaxPackets |-> IF n = Null THEN {} ELSE Reached(h, n)]
<1> DEFINE Last(k) == {n \in Node : n > MaxPackets - k}
           Fits(h, k) == h = [n \in Last(k) |-> Reached(h, n)]
           Built == {k \in Nat : k <= MaxPackets => \E h : Fits(h, k)}
<1>0. \A k \in Nat : k \in Built <=> (k <= MaxPackets => \E h : Fits(h, k))
  <2> HIDE DEF Fits
  <2> QED
    OBVIOUS
<1> HIDE DEF Built
<1> USE MaxPacketsAssumption DEF Node, Null, TypeOK
<1>1. 0 \in Built
  <2>1. Fits([n \in Last(0) |-> {}], 0)
    <3>1. Last(0) = {}
      OBVIOUS
    <3>2. QED
      BY <3>1
  <2>2. QED
    BY <1>0, <2>1
<1>2. ASSUME NEW k \in Nat, k \in Built
      PROVE  k + 1 \in Built
  <2>1. SUFFICES ASSUME k + 1 <= MaxPackets
                 PROVE  \E h : Fits(h, k + 1)
    <3> HIDE DEF Fits
    <3> QED
      BY <1>0
  <2>2. PICK h : Fits(h, k)
    <3> HIDE DEF Fits
    <3> QED
      BY <1>0, <1>2, <2>1
  <2> DEFINE m == MaxPackets - k
             g == [n \in Last(k + 1) |-> IF n = m THEN Reached(h, m) ELSE h[n]]
  <2>3. Last(k + 1) = Last(k) \cup {m} /\ m \notin Last(k) /\ m \in Node
    BY <2>1
  <2>4. ASSUME NEW n \in Last(k + 1)
        PROVE  g[n] = Reached(g, n)
    <3>1. next[n] > n => next[n] \in Last(k) /\ g[next[n]] = h[next[n]]
      BY <2>1, <2>3
    <3>2. Reached(g, n) = Reached(h, n)
      BY <3>1 DEF Reached
    <3>3. n \in Last(k) => h[n] = Reached(h, n)
      BY <2>2
    <3>4. QED
      BY <2>3, <3>2, <3>3
  <2>5. Fits(g, k + 1)
    BY <2>4
  <2>6. QED
    <3> HIDE DEF Fits
    <3> QED
      BY <2>5
<1>3. MaxPackets \in Built
  BY <1>1, <1>2, NatSetInduction
<1>4. PICK h : Fits(h, MaxPackets)
  <2> HIDE DEF Fits
  <2> QED
    BY <1>0, <1>3
<1> DEFINE g == [n \in 0..MaxPackets |-> IF n = Null THEN {} ELSE h[n]]
<1>5. ASSUME NEW n \in Node
      PROVE  g[n] = Reached(g, n)
  <2>1. next[n] > n => next[n] \in Node /\ g[next[n]] = h[next[n]]
    OBVIOUS
  <2>2. Reached(g, n) = Reached(h, n)
    BY <2>1 DEF Reached
  <2>3. h[n] = Reached(h, n)
    BY <1>4
  <2>4. QED
    BY <2>2, <2>3
<1>6. ASSUME NEW n \in 0..MaxPackets
      PROVE  g[n] = IF n = Null THEN {} ELSE Reached(g, n)
  <2>1. n = Null => g[n] = {}
    OBVIOUS
  <2>2. n # Null => n \in Node
    OBVIOUS
  <2>3. QED
    BY <1>5, <2>1, <2>2
<1>7. g = [n \in 0..MaxPackets |-> IF n = Null THEN {} ELSE Reached(g, n)]
  <2>1. g = [n \in 0..MaxPackets |-> g[n]]
    OBVIOUS
  <2> HIDE DEF g
  <2> QED
    BY <1>6, <2>1
<1>8. QED
  <2> HIDE DEF g
  <2> QED
    BY <1>7

LEMMA ChainDef ==
  ASSUME TypeOK, NEW n \in Node
  PROVE  Chain[n] = {n} \cup (IF next[n] > n THEN Chain[next[n]] ELSE {})
<1>1. Chain = CHOOSE h : h = [i \in 0..MaxPackets |->
                                IF i = Null THEN {} ELSE Reached(h, i)]
  BY DEF Chain, Reached
<1>2. Chain = [i \in 0..MaxPackets |-> IF i = Null THEN {} ELSE Reached(Chain, i)]
  BY <1>1, ChainExists
<1>3. n \in 0..MaxPackets /\ n # Null
  BY MaxPacketsAssumption DEF Node, Null
<1>4. Chain[n] = Reached(Chain, n)
  <2> HIDE DEF Chain, Reached
  <2> QED
    BY <1>2, <1>3
<1>5. QED
  BY <1>4 DEF Reached

\* A run of nodes that are each linked to the next is in the chain of its first.
LEMMA ChainOfRun ==
  ASSUME TypeOK, NEW h \in Node, NEW m \in Node, h <= m,
         \A n \in h..(m - 1) : next[n] = n + 1
  PROVE  h..m \subseteq Chain[h]
<1> DEFINE Held == {k \in Nat : k <= m - h => (m - k)..m \subseteq Chain[m - k]}
<1> USE MaxPacketsAssumption DEF Node
<1>1. 0 \in Held
  BY ChainDef
<1>2. ASSUME NEW k \in Nat, k \in Held
      PROVE  k + 1 \in Held
  <2>1. SUFFICES ASSUME k + 1 <= m - h
                 PROVE  (m - (k + 1))..m \subseteq Chain[m - (k + 1)]
    OBVIOUS
  <2> DEFINE n == m - (k + 1)
  <2>2. n \in Node /\ next[n] = n + 1 /\ n + 1 = m - k
    BY <2>1
  <2>3. Chain[n] = {n} \cup Chain[m - k]
    BY <2>2, ChainDef
  <2>4. (m - k)..m \subseteq Chain[m - k]
    BY <1>2, <2>1
  <2>5. QED
    BY <2>2, <2>3, <2>4
<1>3. Nat \subseteq Held
  <2> HIDE DEF Held
  <2> QED
    BY <1>1, <1>2, NatSetInduction
<1>4. QED
  BY <1>3

LEMMA WholeLosesNothing ==
  ASSUME TypeOK, HeadStable, NodesVisible, Whole
  PROVE  NothingLost
<1>1. Linked = 1..Visible \/ prod = "enqueueFault"
  BY DEF Linked, Published, Visible, Hidden
<1>2. Linked \subseteq 1..Visible
  BY DEF Linked, Published, Visible, Hidden, TypeOK
<1>3. CASE head = Null
  BY <1>2, <1>3 DEF NothingLost, Whole
<1>4. CASE head # Null
  <2>1. head \in Node /\ head <= Visible /\ Visible \in Node
    BY <1>4, MaxPacketsAssumption
       DEF TypeOK, NodesVisible, Node, Visible, Hidden, HeadStable, Enqueuing, Null
  <2>2. head..Visible \subseteq Chain[head]
    BY <1>4, <2>1, ChainOfRun DEF Whole
  <2>3. 1..Visible \subseteq (1..(head - 1)) \cup (head..Visible)
    BY <2>1 DEF Node
  <2>4. QED
    BY <1>2, <1>4, <2>2, <2>3 DEF NothingLost, Whole
<1>5. QED
  BY <1>3, <1>4

\* For any number of packets: as long as the last node was not taken during an
\* enqueue, no packet is lost, the tail is the last node whenever both threads
\* are between operations, and enqueue dereferences no null (queue.c:16-46).
THEOREM QueueIntact == Spec => []IntactUntilRaced
<1>1. QInv /\ Intact => IntactUntilRaced
  <2> SUFFICES ASSUME QInv, Intact, ~raced
               PROVE  /\ NothingLost
                      /\ prod # "enqueueFault"
                      /\ prod \in {"idle", "signal"} /\ head # Null => tail = count
    BY DEF IntactUntilRaced
  <2>1. NothingLost
    BY WholeLosesNothing DEF QInv, Intact
  <2>2. prod # "enqueueFault"
    BY DEF Intact, NoOverlap
  <2>3. prod \in {"idle", "signal"} /\ head # Null => tail = count
    BY DEF Intact, TailIsLast, Visible, Hidden
  <2>4. QED
    BY <2>1, <2>2, <2>3
<1>2. QED
  BY <1>1, InvInit, InvStep, IntactInit, IntactStep, PTL DEF Spec

-----------------------------------------------------------------------------
(* The queue implements Channel.                                           *)

\* The packet taken last is the latest of all that were handled.
Latest ==
  /\ \A m \in handled : m <= got
  /\ cons \in {"enter", "asleep", "drain", "check", "take"} => got \in handled \cup {Null}
  /\ prod = "enqueueFault" => cons = "enqueueFault"

LEMMA LatestInit == Init => Latest
BY DEF Init, Latest, Null

LEMMA LatestStep == QInv /\ Latest /\ [Next]_vars => Latest'
<1> SUFFICES ASSUME TypeOK, HeadStable, Forward, Latest, [Next]_vars
             PROVE  Latest'
  BY DEF QInv
<1> USE MaxPacketsAssumption
    DEF TypeOK, HeadStable, Forward, Latest, Node, Null, Ended, Ends, prodVars, consVars
<1>1. CASE ProducerStep \/ Arrive \/ ArriveNoMemory
  BY <1>1 DEF ProducerStep, Arrive, ArriveNoMemory, TestHead, EnqueueHead, LoadTail,
              EnqueueNext, EnqueueNextCrashes, EnqueueTail, Signal
<1>2. CASE Wait \/ SpuriousWakeup \/ Drain \/ DequeueCheck
  BY <1>2 DEF Wait, SpuriousWakeup, Drain, DequeueCheck
<1>3. CASE DequeueTake
  BY <1>3 DEF DequeueTake
<1>4. CASE DequeueLoadNext
  BY <1>4 DEF DequeueLoadNext
<1>5. CASE DequeueSetHead \/ DequeueRetest \/ DequeueClearTail
  BY <1>5 DEF DequeueSetHead, DequeueRetest, DequeueClearTail
<1>6. CASE Handle
  BY <1>6 DEF Handle
<1>7. CASE UNCHANGED vars
  BY <1>7 DEF vars
<1>8. QED
  BY <1>1, <1>2, <1>3, <1>4, <1>5, <1>6, <1>7 DEF Next, ConsumerStep

\* dequeue loads the head: the next packet, or after the race a later one.
LEMMA TakeMaps ==
  ASSUME QInv, Intact, Latest, DequeueTake
  PROVE  Abstract!Receive \/ Abstract!ReceiveLater
<1>1. /\ cons = "take" /\ got' = head /\ head # Null
      /\ UNCHANGED <<prod, count, raced>>
  BY DEF DequeueTake, QInv, HeadStable
<1>2. head \in Nat /\ got \in Nat /\ count \in Nat /\ head >= 1
  BY <1>1, MaxPacketsAssumption DEF QInv, TypeOK, Node, Null
<1>3. got < head
  BY <1>1, <1>2 DEF QInv, Forward, Latest, Null
<1>4. head <= Published /\ Published \in Int
  BY <1>1, <1>2 DEF QInv, NodesVisible, Visible, Hidden, Published, Latest
<1>5. Published' = Published
  BY <1>1 DEF Published
<1>6. CASE raced
  <2>1. got' \in (got + 1)..Published
    BY <1>1, <1>2, <1>3, <1>4
  <2>2. QED
    BY <1>1, <1>5, <1>6, <2>1 DEF Abstract!ReceiveLater
<1>7. CASE ~raced
  <2>1. 1..(head - 1) \subseteq handled
    BY <1>1, <1>7 DEF Intact, Whole, InHand
  <2>2. head - 1 <= got
    <3>1. CASE head = 1
      BY <1>2, <3>1
    <3>2. CASE head # 1
      <4>1. head - 1 \in handled
        BY <1>2, <2>1, <3>2
      <4>2. QED
        BY <4>1 DEF Latest
    <3>3. QED
      BY <3>1, <3>2
  <2>3. head = got + 1
    BY <1>2, <1>3, <2>2
  <2>4. QED
    BY <1>1, <1>2, <1>4, <1>5, <2>3 DEF Abstract!Receive
<1>8. QED
  BY <1>6, <1>7

LEMMA ChannelInit == Init => Abstract!Init
BY DEF Init, Abstract!Init, Published, Null

LEMMA ChannelStep ==
  QInv /\ Intact /\ Latest /\ [Next]_vars => [Abstract!Next]_(Abstract!vars)
<1> SUFFICES ASSUME QInv, Intact, Latest, [Next]_vars
             PROVE  Abstract!Next \/ UNCHANGED <<Published, got, raced>>
  BY DEF Abstract!vars
<1> USE DEF prodVars, consVars
<1>1. CASE Arrive
  <2>1. count \in Nat
    BY MaxPacketsAssumption DEF QInv, TypeOK
  <2>2. QED
    BY <1>1, <2>1 DEF Arrive, Published
<1>2. CASE EnqueueHead \/ EnqueueNext
  <2>1. count \in Nat
    BY MaxPacketsAssumption DEF QInv, TypeOK
  <2>2. Published' = Published + 1 /\ UNCHANGED <<got, raced>>
    BY <1>2, <2>1 DEF EnqueueHead, EnqueueNext, Published
  <2>3. QED
    BY <2>2 DEF Abstract!Send, Abstract!Next
<1>3. CASE TestHead
  <2>1. Published' = Published /\ got' = got /\ raced' = (raced \/ TakingLast)
    BY <1>3 DEF TestHead, Published
  <2>2. raced \in BOOLEAN
    BY DEF QInv, TypeOK
  <2>3. raced' = raced \/ raced' = TRUE
    BY <2>1, <2>2 DEF TakingLast
  <2>4. QED
    BY <2>1, <2>3 DEF Abstract!Spoil, Abstract!Next
<1>4. CASE DequeueLoadNext
  <2>1. head # Null
    BY <1>4 DEF DequeueLoadNext, QInv, HeadStable
  <2>2. /\ UNCHANGED <<prod, count, got>>
        /\ raced' = (raced \/ (next[head] = Null /\ Linking))
    BY <1>4, <2>1 DEF DequeueLoadNext
  <2>3. raced \in BOOLEAN
    BY DEF QInv, TypeOK
  <2>4. raced' = raced \/ raced' = TRUE
    BY <2>2, <2>3 DEF Linking
  <2>5. Published' = Published
    BY <2>2 DEF Published
  <2>6. QED
    BY <2>2, <2>4, <2>5 DEF Abstract!Spoil, Abstract!Next
<1>5. CASE DequeueTake
  BY <1>5, TakeMaps DEF Abstract!Next
<1>6. CASE ArriveNoMemory \/ LoadTail \/ EnqueueNextCrashes \/ EnqueueTail \/ Signal
  BY <1>6 DEF ArriveNoMemory, LoadTail, EnqueueNextCrashes, EnqueueTail, Signal, Ends,
              Published
<1>7. CASE DequeueCheck
  BY <1>7 DEF DequeueCheck, QInv, HeadStable, Published
<1>8. CASE Wait \/ SpuriousWakeup \/ Drain \/ DequeueSetHead \/ DequeueRetest
             \/ DequeueClearTail \/ Handle
  BY <1>8 DEF Wait, SpuriousWakeup, Drain, DequeueSetHead, DequeueRetest,
              DequeueClearTail, Handle, Published
<1>9. CASE UNCHANGED vars
  BY <1>9 DEF vars, Published
<1>10. QED
  BY <1>1, <1>2, <1>3, <1>4, <1>5, <1>6, <1>7, <1>8, <1>9
     DEF Next, ProducerStep, ConsumerStep

\* For any number of packets and every interleaving of the two threads the
\* queue is a channel: each packet is sent and received at one instant, and
\* received in turn, without a gap until the race and in order even after it
\* (queue.c:16-46).
THEOREM QueueImplementsChannel == Spec => ImplementsChannel
<1>1. QInv /\ Intact /\ Latest /\ [Next]_vars => [Abstract!Next]_(Abstract!vars)
  BY ChannelStep
<1>2. QED
  BY <1>1, ChannelInit, InvInit, InvStep, IntactInit, IntactStep, LatestInit,
     LatestStep, PTL DEF Spec, ImplementsChannel, Abstract!Spec
=============================================================================
