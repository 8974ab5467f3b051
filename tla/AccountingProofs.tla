-------------------------- MODULE AccountingProofs --------------------------
(***************************************************************************)
(* Proofs about Accounting, for any hosts, interval and number of restarts *)
(* and any last second: no second is lost silently or counted twice.       *)
(***************************************************************************)
EXTENDS Accounting, FiniteSetTheorems, TLAPS

\* Only the host being stored has time that is not in the table yet.
SaveInv == \A h \in Hosts : save[h] # 0 => storing = h

\* A session remembers the latest visit of this life of the process, and
\* there is a session as soon as there is such a visit.
VisitsInv ==
  \A h \in Hosts :
    /\ h \in live => <<boot, last[h]>> \in visits[h] /\ last[h] <= clock
    /\ \A b \in Boot, v \in Time : <<b, v>> \in visits[h] =>
         /\ b <= boot
         /\ v <= clock
         /\ h \in live => v <= last[h]
         /\ h \notin live => b < boot

IInv == TypeOK /\ SaveInv /\ VisitsInv /\ Conservation

-----------------------------------------------------------------------------
(* The definition of watched time.                                         *)

LEMMA WatchedFinite ==
  ASSUME NEW V
  PROVE  IsFiniteSet(Watched(V)) /\ Cardinality(Watched(V)) \in Nat
<1>1. IsFiniteSet(Time)
  BY FS_Interval, BoundsAssumption DEF Time
<1>2. Watched(V) \subseteq Time
  BY DEF Watched
<1>3. QED
  BY <1>1, <1>2, FS_Subset, FS_CardinalityType

LEMMA WatchedNothing == Watched({}) = {}
BY DEF Watched, Adjacent

\* A first visit of a life of the process adds no watched time.
LEMMA FirstVisit ==
  ASSUME NEW V, NEW b0 \in Boot, NEW t \in Time,
         \A v \in Time : <<b0, v>> \notin V
  PROVE  Watched(V \cup {<<b0, t>>}) = Watched(V)
<1> DEFINE W == V \cup {<<b0, t>>}
<1>1. ASSUME NEW s \in Watched(W)
      PROVE  s \in Watched(V)
  <2>1. PICK b \in Boot, v \in Time, w \in Time :
          v <= s /\ s < w /\ w - v < Interval /\ Adjacent(W, b, v, w)
    BY <1>1 DEF Watched
  <2>2. s \in Time /\ v # w
    BY <1>1, <2>1 DEF Watched, Time
  <2>3. b # b0
    BY <2>1, <2>2 DEF Adjacent
  <2>4. Adjacent(V, b, v, w)
    BY <2>1, <2>3 DEF Adjacent
  <2>5. QED
    BY <2>1, <2>2, <2>4 DEF Watched
<1>2. ASSUME NEW s \in Watched(V)
      PROVE  s \in Watched(W)
  <2>1. PICK b \in Boot, v \in Time, w \in Time :
          v <= s /\ s < w /\ w - v < Interval /\ Adjacent(V, b, v, w)
    BY <1>2 DEF Watched
  <2>2. Adjacent(W, b, v, w)
    BY <2>1 DEF Adjacent
  <2>3. QED
    BY <1>2, <2>1, <2>2 DEF Watched
<1>3. QED
  BY <1>1, <1>2

\* A later visit of the same life adds the seconds since the one before it,
\* if they are fewer than Interval, and none of them was watched before.
LEMMA LaterVisit ==
  ASSUME NEW V, NEW b0 \in Boot, NEW l \in Time, NEW t \in Time, l < t,
         <<b0, l>> \in V,
         \A b \in Boot, v \in Time : <<b, v>> \in V => v <= l
  PROVE  /\ t - l >= Interval => Watched(V \cup {<<b0, t>>}) = Watched(V)
         /\ t - l < Interval =>
              /\ Watched(V \cup {<<b0, t>>}) = Watched(V) \cup l..(t - 1)
              /\ Watched(V) \cap l..(t - 1) = {}
<1> DEFINE W == V \cup {<<b0, t>>}
<1>1. ASSUME NEW s \in Watched(W), s \notin Watched(V)
      PROVE  t - l < Interval /\ s \in l..(t - 1)
  <2>1. PICK b \in Boot, v \in Time, w \in Time :
          v <= s /\ s < w /\ w - v < Interval /\ Adjacent(W, b, v, w)
    BY <1>1 DEF Watched
  <2>2. s \in Time /\ v < w
    BY <1>1, <2>1 DEF Watched, Time
  <2>3. <<b, w>> \in V => <<b, v>> \in V
    BY <2>1, <2>2 DEF Adjacent, Time
  <2>4. <<b, w>> \notin V
    <3>1. <<b, w>> \in V => Adjacent(V, b, v, w)
      BY <2>1, <2>3 DEF Adjacent
    <3>2. QED
      BY <1>1, <2>1, <2>2, <3>1 DEF Watched
  <2>5. b = b0 /\ w = t
    BY <2>1, <2>4 DEF Adjacent
  <2>6. v <= l
    BY <2>1, <2>2, <2>5 DEF Adjacent, Time
  <2>7. ~(v < l)
    BY <2>1, <2>5 DEF Adjacent
  <2>8. v = l
    BY <2>6, <2>7 DEF Time
  <2>9. QED
    BY <2>1, <2>2, <2>5, <2>8 DEF Time
<1>2. ASSUME NEW s \in Watched(V)
      PROVE  s \in Watched(W) /\ s < l
  <2>1. PICK b \in Boot, v \in Time, w \in Time :
          v <= s /\ s < w /\ w - v < Interval /\ Adjacent(V, b, v, w)
    BY <1>2 DEF Watched
  <2>2. w <= l
    BY <2>1 DEF Adjacent
  <2>3. Adjacent(W, b, v, w)
    BY <2>1, <2>2 DEF Adjacent, Time
  <2>4. QED
    BY <1>2, <2>1, <2>2, <2>3 DEF Watched, Time
<1>3. ASSUME t - l < Interval, NEW s \in l..(t - 1)
      PROVE  s \in Watched(W)
  <2>1. s \in Time /\ l <= s /\ s < t
    BY <1>3, BoundsAssumption DEF Time
  <2>2. Adjacent(W, b0, l, t)
    BY DEF Adjacent, Time
  <2>3. QED
    BY <1>3, <2>1, <2>2 DEF Watched
<1>4. CASE t - l >= Interval
  <2>1. Interval \in Int /\ t \in Int /\ l \in Int
    BY BoundsAssumption DEF Time
  <2>2. ~(t - l < Interval)
    BY <1>4, <2>1
  <2>3. QED
    BY <1>1, <1>2, <2>2
<1>5. CASE t - l < Interval
  <2>1. Interval \in Int /\ t \in Int /\ l \in Int
    BY BoundsAssumption DEF Time
  <2>2. ~(t - l >= Interval)
    BY <1>5, <2>1
  <2>3. Watched(V) \subseteq Time
    BY DEF Watched
  <2>4. Watched(V) \cap l..(t - 1) = {}
    BY <1>2, <2>1, <2>3 DEF Time
  <2>5. QED
    BY <1>1, <1>2, <1>3, <1>5, <2>2, <2>4
<1>6. QED
  <2>1. Interval \in Int /\ t \in Int /\ l \in Int
    BY BoundsAssumption DEF Time
  <2>2. QED
    BY <1>4, <1>5, <2>1

\* What a packet of the host's current life adds to its watched time.
LEMMA WatchedGrows ==
  ASSUME NEW V, NEW b0 \in Boot, NEW l \in Time, NEW t \in Time, l < t,
         <<b0, l>> \in V,
         \A b \in Boot, v \in Time : <<b, v>> \in V => v <= l
  PROVE  Cardinality(Watched(V \cup {<<b0, t>>}))
           = Cardinality(Watched(V)) + (IF t - l < Interval THEN t - l ELSE 0)
<1>1. l \in Int /\ t \in Int /\ t - l \in Int /\ Interval \in Int
  BY BoundsAssumption DEF Time
<1>2. CASE t - l < Interval
  <2>1. IsFiniteSet(l..(t - 1)) /\ Cardinality(l..(t - 1)) = t - l
    BY <1>1, FS_Interval
  <2>2. Cardinality(Watched(V) \cup l..(t - 1))
          = Cardinality(Watched(V)) + Cardinality(l..(t - 1))
    <3> DEFINE A == Watched(V)
    <3> DEFINE B == l..(t - 1)
    <3>1. A \cap B = {} /\ Cardinality(A \cap B) = 0
      BY <1>2, LaterVisit, FS_EmptySet
    <3>2. Cardinality(A \cup B)
            = Cardinality(A) + Cardinality(B) - Cardinality(A \cap B)
      BY <2>1, WatchedFinite, FS_Union
    <3>3. Cardinality(A) \in Nat /\ Cardinality(B) \in Int
      BY <1>1, <2>1, WatchedFinite
    <3> HIDE DEF A, B
    <3>4. Cardinality(A \cup B) = Cardinality(A) + Cardinality(B)
      BY <3>1, <3>2, <3>3
    <3>5. QED
      BY <3>4 DEF A, B
  <2>3. QED
    BY <1>2, <2>1, <2>2, LaterVisit
<1>3. CASE ~(t - l < Interval)
  <2>1. Watched(V \cup {<<b0, t>>}) = Watched(V)
    BY <1>1, <1>3, LaterVisit
  <2>2. QED
    BY <1>3, <2>1, WatchedFinite
<1>4. QED
  BY <1>2, <1>3

LEMMA Unchanged == IInv /\ UNCHANGED vars => IInv'
BY DEF IInv, TypeOK, SaveInv, VisitsInv, Conservation, vars, memory, table,
       server, history

-----------------------------------------------------------------------------
(* Packets.                                                                *)

\* The facts about Packet(h, t) that all four branches use.
LEMMA PacketFacts ==
  ASSUME IInv, NEW h \in Hosts, NEW t \in clock..MaxTime, Packet(h, t)
  PROVE  /\ t \in Time /\ clock \in Time /\ clock <= t
         /\ storing = None /\ \A k \in Hosts : save[k] = 0
         /\ visits' = [visits EXCEPT ![h] = @ \cup {<<boot, t>>}]
         /\ visits' \in [Hosts -> SUBSET (Boot \X Time)]
<1>1. t \in Time /\ clock \in Time /\ clock <= t
  BY BoundsAssumption DEF IInv, TypeOK, Time
<1>2. storing = None /\ \A k \in Hosts : save[k] = 0
  BY NoneAssumption DEF Packet, IInv, SaveInv
<1>3. <<boot, t>> \in Boot \X Time
  BY <1>1 DEF IInv, TypeOK
<1>4. QED
  BY <1>1, <1>2, <1>3 DEF Packet, IInv, TypeOK

\* The watched time of the packet's host; the other hosts keep theirs.
LEMMA OthersKeep ==
  ASSUME IInv, NEW h \in Hosts, NEW t \in clock..MaxTime, Packet(h, t),
         NEW k \in Hosts, k # h
  PROVE  visits'[k] = visits[k]
BY PacketFacts DEF IInv, TypeOK

\* The visits of a host, as VisitsInv bounds them.
LEMMA VisitFacts ==
  ASSUME IInv, NEW h \in Hosts
  PROVE  /\ boot \in Boot /\ last[h] \in Time
         /\ h \in live => <<boot, last[h]>> \in visits[h] /\ last[h] <= clock
         /\ h \notin live => \A v \in Time : <<boot, v>> \notin visits[h]
<1>1. boot \in Boot /\ last[h] \in Time
  BY DEF IInv, TypeOK
<1>2. ~(boot < boot)
  BY <1>1 DEF Boot
<1>3. QED
  BY <1>1, <1>2 DEF IInv, VisitsInv

\* The packet becomes the last visit of its host's session.
LEMMA VisitsMove ==
  ASSUME IInv, NEW h \in Hosts, NEW t \in clock..MaxTime, Packet(h, t),
         live' = live \cup {h}, last' = [last EXCEPT ![h] = t]
  PROVE  VisitsInv'
<1>1. /\ t \in Time /\ clock \in Time /\ clock <= t /\ clock' = t /\ boot' = boot
      /\ visits' = [visits EXCEPT ![h] = @ \cup {<<boot, t>>}]
  BY PacketFacts DEF Packet
<1>2. SUFFICES ASSUME NEW k \in Hosts
               PROVE  /\ k \in live' =>
                           <<boot, last'[k]>> \in visits'[k] /\ last'[k] <= t
                      /\ \A b \in Boot, v \in Time : <<b, v>> \in visits'[k] =>
                           /\ b <= boot
                           /\ v <= t
                           /\ k \in live' => v <= last'[k]
                           /\ k \notin live' => b < boot
  BY <1>1 DEF VisitsInv
<1>3. \A b \in Boot, v \in Time : <<b, v>> \in visits[k] =>
        b <= boot /\ v <= clock
  BY DEF IInv, VisitsInv
<1>4. CASE k = h
  <2>1. last'[k] = t /\ k \in live' /\ visits'[k] = visits[k] \cup {<<boot, t>>}
    BY <1>1, <1>4 DEF IInv, TypeOK
  <2>2. ASSUME NEW b \in Boot, NEW v \in Time, <<b, v>> \in visits'[k]
        PROVE  b <= boot /\ v <= t
    <3>1. CASE <<b, v>> \in visits[k]
      BY <1>1, <1>3, <3>1 DEF Time
    <3>2. CASE <<b, v>> = <<boot, t>>
      <4>1. b = boot /\ v = t
        BY <3>2
      <4>2. QED
        BY <4>1 DEF Boot, Time
    <3>3. QED
      BY <2>1, <2>2, <3>1, <3>2
  <2>3. t <= t
    BY <1>1 DEF Time
  <2>4. QED
    BY <2>1, <2>2, <2>3
<1>5. CASE k # h
  <2>1. last'[k] = last[k] /\ visits'[k] = visits[k] /\ (k \in live' <=> k \in live)
    BY <1>1, <1>5 DEF IInv, TypeOK
  <2>2. \A v \in Time : v <= clock => v <= t
    BY <1>1 DEF Time
  <2>3. last[k] \in Time
    BY DEF IInv, TypeOK
  <2>4. QED
    BY <2>1, <2>2, <2>3 DEF IInv, VisitsInv
<1>6. QED
  BY <1>4, <1>5

LEMMA CreateStep ==
  ASSUME IInv, NEW h \in Hosts, NEW t \in clock..MaxTime, Create(h, t)
  PROVE  IInv'
<1> USE DEF Create
<1>1. /\ t \in Time /\ clock \in Time /\ clock <= t
      /\ storing = None /\ \A k \in Hosts : save[k] = 0
      /\ visits' = [visits EXCEPT ![h] = @ \cup {<<boot, t>>}]
      /\ visits' \in [Hosts -> SUBSET (Boot \X Time)]
  BY PacketFacts
<1>2. TypeOK'
  BY <1>1, BoundsAssumption DEF IInv, TypeOK, Packet, table, server
<1>3. SaveInv'
  BY <1>1, <1>2 DEF IInv, TypeOK, SaveInv
<1>4. VisitsInv'
  BY VisitsMove
<1>5. Conservation'
  <2>1. \A v \in Time : <<boot, v>> \notin visits[h]
    BY VisitFacts
  <2>2. Watched(visits'[h]) = Watched(visits[h])
    BY <1>1, <2>1, FirstVisit DEF IInv, TypeOK
  <2>3. \A k \in Hosts : Watched(visits'[k]) = Watched(visits[k])
    BY <2>2, OthersKeep
  <2>4. \A k \in Hosts : save'[k] = save[k] /\ total'[k] = total[k] /\ lost'[k] = lost[k]
    BY <1>1 DEF IInv, TypeOK, Packet, table
  <2>5. QED
    BY <2>3, <2>4 DEF IInv, Conservation
<1>6. QED
  BY <1>2, <1>3, <1>4, <1>5 DEF IInv

LEMMA SameSecondStep ==
  ASSUME IInv, NEW h \in Hosts, NEW t \in clock..MaxTime, SameSecond(h, t)
  PROVE  IInv'
<1> USE DEF SameSecond
<1>1. /\ t \in Time /\ clock \in Time /\ clock <= t
      /\ storing = None /\ \A k \in Hosts : save[k] = 0
      /\ visits' = [visits EXCEPT ![h] = @ \cup {<<boot, t>>}]
      /\ visits' \in [Hosts -> SUBSET (Boot \X Time)]
  BY PacketFacts
<1>2. clock' = clock
  <2>1. last[h] <= clock
    BY VisitFacts
  <2>2. QED
    BY <1>1, <2>1 DEF Packet, Time
<1>3. visits' = visits
  <2>1. <<boot, t>> \in visits[h]
    BY DEF IInv, VisitsInv
  <2>2. QED
    BY <1>1, <2>1 DEF IInv, TypeOK
<1>4. UNCHANGED vars
  BY <1>2, <1>3 DEF vars, memory, history, Packet
<1>5. QED
  BY <1>4, Unchanged

LEMMA ReinitStep ==
  ASSUME IInv, NEW h \in Hosts, NEW t \in clock..MaxTime, Reinit(h, t)
  PROVE  IInv'
<1> USE DEF Reinit
<1>1. /\ t \in Time /\ clock \in Time /\ clock <= t
      /\ storing = None /\ \A k \in Hosts : save[k] = 0
      /\ visits' = [visits EXCEPT ![h] = @ \cup {<<boot, t>>}]
      /\ visits' \in [Hosts -> SUBSET (Boot \X Time)]
  BY PacketFacts
<1>2. TypeOK'
  BY <1>1, BoundsAssumption DEF IInv, TypeOK, Packet, table, server
<1>3. SaveInv'
  BY <1>1 DEF IInv, TypeOK, SaveInv
<1>4. VisitsInv'
  <2>1. live' = live \cup {h}
    BY DEF Packet
  <2>2. QED
    BY <2>1, VisitsMove
<1>5. Conservation'
  <2>1. last[h] \in Time /\ t - last[h] >= Interval /\ Interval \in Nat \ {0}
    BY BoundsAssumption DEF IInv, TypeOK
  <2>2. last[h] < t /\ ~(t - last[h] < Interval)
    BY <2>1, <1>1 DEF Time
  <2>3. Cardinality(Watched(visits'[h])) = Cardinality(Watched(visits[h]))
    <3>1. Cardinality(Watched(visits[h] \cup {<<boot, t>>}))
            = Cardinality(Watched(visits[h]))
                + (IF t - last[h] < Interval THEN t - last[h] ELSE 0)
      BY <1>1, <2>1, <2>2, WatchedGrows DEF IInv, TypeOK, VisitsInv
    <3>2. visits'[h] = visits[h] \cup {<<boot, t>>}
      BY <1>1 DEF IInv, TypeOK
    <3>3. QED
      BY <2>2, <3>1, <3>2, WatchedFinite
  <2>4. \A k \in Hosts :
          Cardinality(Watched(visits'[k])) = Cardinality(Watched(visits[k]))
    BY <2>3, OthersKeep
  <2>5. QED
    BY <2>4 DEF IInv, Conservation, Packet, table
<1>6. QED
  BY <1>2, <1>3, <1>4, <1>5 DEF IInv

LEMMA EditStep ==
  ASSUME IInv, NEW h \in Hosts, NEW t \in clock..MaxTime, Edit(h, t)
  PROVE  IInv'
<1> USE DEF Edit
<1>1. /\ t \in Time /\ clock \in Time /\ clock <= t
      /\ storing = None /\ \A k \in Hosts : save[k] = 0
      /\ visits' = [visits EXCEPT ![h] = @ \cup {<<boot, t>>}]
      /\ visits' \in [Hosts -> SUBSET (Boot \X Time)]
  BY PacketFacts
<1>2. /\ last[h] \in Time /\ last[h] < t /\ t - last[h] < Interval
      /\ Interval \in Nat \ {0}
  <2>1. last[h] \in Time /\ last[h] <= clock
    BY VisitFacts
  <2>2. QED
    BY <1>1, <2>1, BoundsAssumption DEF Time
<1>3. t - last[h] \in 0..(Interval - 1) /\ save'[h] = t - last[h]
  BY <1>1, <1>2 DEF IInv, TypeOK, Time
<1>4. TypeOK'
  <2>1. save' \in [Hosts -> 0..(Interval - 1)]
    BY <1>1, <1>2, <1>3 DEF IInv, TypeOK
  <2>2. QED
    BY <1>1, <2>1 DEF IInv, TypeOK, Packet, table, server
<1>5. SaveInv'
  BY <1>1 DEF IInv, TypeOK, SaveInv
<1>6. VisitsInv'
  <2>1. live' = live \cup {h}
    BY DEF Packet
  <2>2. QED
    BY <2>1, VisitsMove
<1>7. Conservation'
  <2>1. Cardinality(Watched(visits'[h]))
          = Cardinality(Watched(visits[h])) + (t - last[h])
    <3>1. Cardinality(Watched(visits[h] \cup {<<boot, t>>}))
            = Cardinality(Watched(visits[h]))
                + (IF t - last[h] < Interval THEN t - last[h] ELSE 0)
      BY <1>1, <1>2, WatchedGrows DEF IInv, TypeOK, VisitsInv
    <3>2. visits'[h] = visits[h] \cup {<<boot, t>>}
      BY <1>1 DEF IInv, TypeOK
    <3>3. QED
      BY <1>2, <3>1, <3>2
  <2>2. ASSUME NEW k \in Hosts
        PROVE  total'[k] + save'[k] + lost'[k] = Cardinality(Watched(visits'[k]))
    <3>1. total[k] + save[k] + lost[k] = Cardinality(Watched(visits[k]))
      BY DEF IInv, Conservation
    <3>2. total[k] \in Nat /\ lost[k] \in Nat /\ save[k] = 0
      BY <1>1 DEF IInv, TypeOK
    <3>3. total'[k] = total[k] /\ lost'[k] = lost[k]
      BY DEF Packet, table
    <3>4. CASE k = h
      BY <1>2, <1>3, <2>1, <3>1, <3>2, <3>3, <3>4 DEF Time
    <3>5. CASE k # h
      BY <1>1, <3>1, <3>2, <3>3, <3>5, OthersKeep DEF IInv, TypeOK
    <3>6. QED
      BY <3>4, <3>5
  <2>3. QED
    BY <2>2 DEF Conservation
<1>8. QED
  BY <1>4, <1>5, <1>6, <1>7 DEF IInv

-----------------------------------------------------------------------------
(* Writes, registrations and restarts: visits stay as they are.            *)

LEMMA StoreStep ==
  ASSUME IInv, Store
  PROVE  IInv'
<1> USE DEF Store, server, history
<1>1. storing \in Hosts
  BY DEF IInv, TypeOK
<1>2. TypeOK'
  <2>1. total[storing] + save[storing] \in Nat /\ 0 \in 0..(Interval - 1)
    BY <1>1, BoundsAssumption DEF IInv, TypeOK
  <2>2. total' \in [Hosts -> Nat] /\ save' \in [Hosts -> 0..(Interval - 1)]
    BY <2>1 DEF IInv, TypeOK
  <2>3. QED
    BY <1>1, <2>2 DEF IInv, TypeOK
<1>3. SaveInv'
  BY <1>1 DEF IInv, TypeOK, SaveInv
<1>4. VisitsInv'
  BY DEF IInv, VisitsInv
<1>5. Conservation'
  <2> SUFFICES ASSUME NEW k \in Hosts
               PROVE  total'[k] + save'[k] + lost'[k] = total[k] + save[k] + lost[k]
    BY DEF IInv, Conservation
  <2>1. total[k] \in Nat /\ save[k] \in Nat /\ lost[k] \in Nat
    BY BoundsAssumption DEF IInv, TypeOK
  <2>2. QED
    BY <1>1, <2>1 DEF IInv, TypeOK
<1>6. QED
  BY <1>2, <1>3, <1>4, <1>5 DEF IInv

LEMMA StoreFailsStep ==
  ASSUME IInv, StoreFails
  PROVE  IInv'
<1> USE DEF StoreFails, server, table
<1>1. storing \in Hosts
  BY DEF IInv, TypeOK
<1>2. TypeOK'
  <2>1. lost[storing] + save[storing] \in Nat /\ 0 \in 0..(Interval - 1)
    BY <1>1, BoundsAssumption DEF IInv, TypeOK
  <2>2. lost' \in [Hosts -> Nat] /\ save' \in [Hosts -> 0..(Interval - 1)]
    BY <2>1 DEF IInv, TypeOK
  <2>3. QED
    BY <1>1, <2>2 DEF IInv, TypeOK
<1>3. SaveInv'
  BY <1>1 DEF IInv, TypeOK, SaveInv
<1>4. VisitsInv'
  BY DEF IInv, VisitsInv
<1>5. Conservation'
  <2> SUFFICES ASSUME NEW k \in Hosts
               PROVE  total'[k] + save'[k] + lost'[k] = total[k] + save[k] + lost[k]
    BY DEF IInv, Conservation
  <2>1. total[k] \in Nat /\ save[k] \in Nat /\ lost[k] \in Nat
    BY BoundsAssumption DEF IInv, TypeOK
  <2>2. QED
    BY <1>1, <2>1 DEF IInv, TypeOK
<1>6. QED
  BY <1>2, <1>3, <1>4, <1>5 DEF IInv

LEMMA ServerKeeps ==
  ASSUME IInv, ServerStep
  PROVE  IInv'
<1> USE DEF IInv, TypeOK, SaveInv, VisitsInv, Conservation,
            memory, table, history
<1>1. ASSUME NEW h \in Hosts, Register(h)
      PROVE  IInv'
  BY <1>1 DEF Register
<1>2. CASE LookupFails
  BY <1>2 DEF LookupFails
<1>3. CASE MapHost
  BY <1>3 DEF MapHost
<1>4. CASE InsertDefault
  BY <1>4 DEF InsertDefault
<1>5. QED
  BY <1>1, <1>2, <1>3, <1>4 DEF ServerStep

LEMMA RestartStep ==
  ASSUME IInv, Restart
  PROVE  IInv'
<1> USE DEF Restart, table
<1>1. boot \in Nat /\ MaxBoots \in Nat /\ boot' \in Boot
  BY BoundsAssumption DEF IInv, TypeOK, Boot
<1>2. \A k \in Hosts : total[k] \in Nat /\ save[k] \in Nat /\ lost[k] \in Nat
  BY BoundsAssumption DEF IInv, TypeOK
<1>3. TypeOK'
  <2>1. last' \in [Hosts -> Time] /\ save' \in [Hosts -> 0..(Interval - 1)]
    BY BoundsAssumption DEF Time
  <2>2. lost' \in [Hosts -> Nat]
    BY <1>2
  <2>3. mapped' \subseteq Hosts
    BY DEF IInv, TypeOK
  <2>4. QED
    BY <1>1, <2>1, <2>2, <2>3 DEF IInv, TypeOK
<1>4. SaveInv'
  BY DEF SaveInv
<1>5. VisitsInv'
  <2> SUFFICES ASSUME NEW k \in Hosts, NEW b \in Boot, NEW v \in Time,
                      <<b, v>> \in visits[k]
               PROVE  b <= boot' /\ v <= clock /\ b < boot'
    BY DEF VisitsInv
  <2>1. b <= boot /\ v <= clock
    BY DEF IInv, VisitsInv
  <2>2. QED
    BY <1>1, <2>1 DEF Boot
<1>6. Conservation'
  BY <1>2 DEF IInv, Conservation
<1>7. QED
  BY <1>3, <1>4, <1>5, <1>6 DEF IInv

-----------------------------------------------------------------------------
LEMMA InvInit == Init => IInv
<1> SUFFICES ASSUME Init PROVE IInv
  OBVIOUS
<1>1. TypeOK
  <2>1. 0 \in Time /\ 0 \in 0..(Interval - 1) /\ 0 \in Boot
    BY BoundsAssumption DEF Time, Boot
  <2>2. QED
    BY <2>1 DEF Init, TypeOK
<1>2. SaveInv /\ VisitsInv
  BY DEF Init, SaveInv, VisitsInv
<1>3. Conservation
  <2>1. Cardinality(Watched({})) = 0
    BY WatchedNothing, FS_EmptySet
  <2>2. QED
    BY <2>1 DEF Init, Conservation
<1>4. QED
  BY <1>1, <1>2, <1>3 DEF IInv

LEMMA InvStep == IInv /\ [Next]_vars => IInv'
<1> SUFFICES ASSUME IInv, [Next]_vars
             PROVE  IInv'
  OBVIOUS
<1>1. ASSUME NEW h \in Hosts, NEW t \in clock..MaxTime, Branch(h, t)
      PROVE  IInv'
  BY <1>1, CreateStep, SameSecondStep, ReinitStep, EditStep DEF Branch
<1>2. CASE Store
  BY <1>2, StoreStep
<1>3. CASE StoreFails
  BY <1>3, StoreFailsStep
<1>4. CASE ServerStep
  BY <1>4, ServerKeeps
<1>5. CASE Restart
  BY <1>5, RestartStep
<1>6. CASE UNCHANGED vars
  BY <1>6, Unchanged
<1>7. QED
  BY <1>1, <1>2, <1>3, <1>4, <1>5, <1>6 DEF Next

\* Every variable keeps to its values; a session never has as much unsaved
\* time as the interval.
THEOREM TypeCorrect == Spec => []TypeOK
<1>1. IInv => TypeOK
  BY DEF IInv
<1>2. QED
  BY <1>1, InvInit, InvStep, PTL DEF Spec

\* Every watched second is stored, about to be stored, or was dropped by a
\* write that failed or a crash, and none is counted twice.
THEOREM SecondsConserved == Spec => []Conservation
<1>1. IInv => Conservation
  BY DEF IInv
<1>2. QED
  BY <1>1, InvInit, InvStep, PTL DEF Spec

-----------------------------------------------------------------------------
LEMMA GrowStep ==
  ASSUME IInv, [Next]_vars
  PROVE  [rows \subseteq rows' /\ \A h \in Hosts : total'[h] >= total[h]]_vars
<1>1. \A h \in Hosts : total[h] \in Nat /\ save[h] \in Nat
  BY BoundsAssumption DEF IInv, TypeOK
<1>2. CASE UNCHANGED table
  BY <1>1, <1>2 DEF table
<1>3. CASE Store
  BY <1>1, <1>3 DEF Store, IInv, TypeOK
<1>4. CASE InsertDefault
  BY <1>1, <1>4 DEF InsertDefault
<1>5. QED
  BY <1>2, <1>3, <1>4
     DEF Next, Branch, Create, SameSecond, Reinit, Edit, Packet, StoreFails,
         ServerStep, Register, LookupFails, MapHost, Restart, vars

\* Rows never go away and totals never go down.
THEOREM TotalsNeverFall == Spec => TotalsGrow
BY InvInit, InvStep, GrowStep, PTL DEF Spec, TotalsGrow

LEMMA LossStep ==
  ASSUME IInv, [Next]_vars
  PROVE  [\A h \in Hosts :
            /\ lost'[h] - lost[h] < Interval
            /\ lost'[h] # lost[h] => storing = h]_vars
<1>1. \A h \in Hosts : /\ lost[h] \in Nat
                       /\ save[h] \in 0..(Interval - 1)
                       /\ save[h] # 0 => storing = h
  BY DEF IInv, TypeOK, SaveInv
<1>2. Interval \in Nat \ {0}
  BY BoundsAssumption
<1>3. CASE lost' = lost
  BY <1>1, <1>2, <1>3
<1>4. CASE StoreFails
  BY <1>1, <1>2, <1>4 DEF StoreFails, IInv, TypeOK
<1>5. CASE Restart
  BY <1>1, <1>2, <1>5 DEF Restart
<1>6. QED
  BY <1>3, <1>4, <1>5
     DEF Next, Branch, Create, SameSecond, Reinit, Edit, Packet, Store,
         ServerStep, Register, LookupFails, MapHost, InsertDefault, vars, history

\* A failed write or a crash costs less than one interval, of one host.
THEOREM LossIsBounded == Spec => LossBounded
BY InvInit, InvStep, LossStep, PTL DEF Spec, LossBounded
=============================================================================
