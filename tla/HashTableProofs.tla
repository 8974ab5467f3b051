--------------------------- MODULE HashTableProofs ---------------------------
(***************************************************************************)
(* Proofs about HashTable, for any keys, values, hash functions and        *)
(* initial capacity.                                                       *)
(***************************************************************************)
EXTENDS HashTable, SetInduction

Range0(n) == 0..(n - 1)

Size == IF pc = "capacity" THEN newCapacity ELSE capacity

\* TypeOK, of the table and of the get.
TableType ==
  /\ hash \in [Keys -> Nat] /\ hash \in Hashes
  /\ shared \in BOOLEAN /\ freed \in BOOLEAN
  /\ capacity \in Nat /\ capacity >= 2 /\ capacity % 2 = 0
  /\ count \in Nat
  /\ keys \in [Range0(Size) -> Keys \cup {NoKey}]
  /\ vals \in [Range0(Size) -> Values \cup {NoValue}]
  /\ newCapacity \in {0, capacity, 2 * capacity}
  /\ newKeys \in [Range0(newCapacity) -> Keys \cup {NoKey}]
  /\ newVals \in [Range0(newCapacity) -> Values \cup {NoValue}]
  /\ pc \in Stages
  /\ key \in Keys \cup {NoKey} /\ val \in Values \cup {NoValue}
  /\ index \in Range0(capacity) /\ cursor \in 0..capacity

GetType ==
  /\ at \in GetStages
  /\ want \in Keys \cup {NoKey}
  /\ at # "idle" => want \in Keys
  /\ probe \in Range0(capacity)
  /\ base \in {"none", "live", "freed"}
  /\ base # "none" => at \in {"test", "compare", "value"}
  /\ answer \in {Nothing} \cup [key : Keys, value : Values \cup {NoValue}]
  /\ moved \in BOOLEAN /\ could \subseteq Values \cup {NoValue}

\* What each stage of the owner's call has established.
StageInv ==
  /\ pc \in {"copy", "publish"} => newCapacity # 0
  /\ pc = "capacity" => newCapacity = 2 * capacity
  /\ pc = "recount" => newCapacity = capacity
  /\ pc \in {"idle", "set", "value", "seek"} => newCapacity = 0
  /\ pc # "idle" => key \in Keys
  /\ pc = "set" => index = Home(key, capacity) /\ 2 * (count + 1) <= capacity
  /\ pc = "publish" => cursor = capacity
  /\ pc \in {"capacity", "recount"} => keys = newKeys /\ vals = newVals

\* No key is in two slots, not even while there is a hole.
Distinct(arr) == \A i, j \in DOMAIN arr : arr[i] # NoKey /\ arr[i] = arr[j] => i = j

Passed == {s \in Range0(cursor) : keys[s] # NoKey}

\* The new array holds the entries of the slots the loop has passed.
CopyInv ==
  pc \in {"copy", "publish"} =>
    /\ \A i \in DOMAIN newKeys : newKeys[i] # NoKey =>
         \E s \in Range0(cursor) : keys[s] = newKeys[i]
    /\ Cardinality(Occupied(newKeys)) = Cardinality(Passed)

TableInv ==
  TableType /\ StageInv /\ Distinct(keys) /\ FoundByProbing /\ HalfFree /\ CopyInv

HInv == TableInv /\ GetType

-----------------------------------------------------------------------------
LEMMA HomeInRange ==
  ASSUME NEW n \in Nat, NEW cap \in Nat, cap > 0
  PROVE  n % cap \in Range0(cap)
BY DEF Range0

LEMMA WiderRange ==
  ASSUME NEW a \in Nat, NEW b \in Nat, b >= a, NEW i \in Range0(a)
  PROVE  i \in Range0(b)
BY DEF Range0

LEMMA TypeParts == HInv => TypeOK
BY DEF HInv, TableInv, TableType, GetType, TypeOK, Range0, Size

\* Of two slots of a probe one is on the way to the other.
LEMMA WayTotal ==
  ASSUME NEW cap \in Nat, NEW h \in Range0(cap),
         NEW i \in Range0(cap), NEW j \in Range0(cap), i # j
  PROVE  OnTheWay(h, i, j) \/ OnTheWay(h, j, i)
BY DEF OnTheWay, Range0

\* A probe that ends at a free slot has missed nothing.
LEMMA AbsentKey ==
  ASSUME NEW cap \in Nat, NEW arr \in [Range0(cap) -> Keys \cup {NoKey}],
         NEW k \in Keys, Home(k, cap) \in Range0(cap), Probeable(arr, cap),
         NEW i \in Range0(cap), Ends(arr, k, Home(k, cap), i), arr[i] = NoKey
  PROVE  \A j \in Range0(cap) : arr[j] # k
<1> SUFFICES ASSUME NEW j \in Range0(cap), arr[j] = k PROVE FALSE
  OBVIOUS
<1>1. k # NoKey /\ i # j
  BY TableAssumption
<1>2. CASE OnTheWay(Home(k, cap), i, j)
  BY <1>2 DEF Ends
<1>3. CASE OnTheWay(Home(k, cap), j, i)
  BY <1>1, <1>3 DEF Probeable
<1>4. QED
  BY <1>1, <1>2, <1>3, WayTotal

\* An entry put where its probe ends can be found, and so can all others.
LEMMA PutProbeable ==
  ASSUME NEW cap \in Nat, NEW arr \in [Range0(cap) -> Keys \cup {NoKey}],
         NEW k \in Keys, Probeable(arr, cap),
         NEW i \in Range0(cap), Ends(arr, k, Home(k, cap), i), arr[i] = NoKey,
         \A j \in Range0(cap) : arr[j] # k
  PROVE  Probeable([arr EXCEPT ![i] = k], cap)
<1> DEFINE new2 == [arr EXCEPT ![i] = k]
<1>1. DOMAIN new2 = Range0(cap) /\ DOMAIN arr = Range0(cap) /\ k # NoKey
  BY TableAssumption
<1>2. \A j \in Range0(cap) : new2[j] = IF j = i THEN k ELSE arr[j]
  OBVIOUS
<1> HIDE DEF new2
<1>3. ASSUME NEW a \in Range0(cap), NEW b \in Range0(cap),
             new2[a] # NoKey, OnTheWay(Home(new2[a], cap), a, b)
      PROVE  new2[b] # NoKey
  <2>1. CASE a = i
    BY <1>1, <1>2, <1>3, <2>1 DEF Ends
  <2>2. CASE a # i
    BY <1>1, <1>2, <1>3, <2>2 DEF Probeable
  <2>3. QED
    BY <2>1, <2>2
<1>4. \A a, b \in Range0(cap) : new2[a] # NoKey /\ new2[a] = new2[b] => a = b
  BY <1>1, <1>2 DEF Probeable
<1>5. Probeable(new2, cap)
  BY <1>1, <1>3, <1>4 DEF Probeable
<1>6. QED
  BY <1>5 DEF new2

\* Filling a free slot, and freeing a filled one, changes the number by one.
LEMMA OccupiedFinite ==
  ASSUME NEW cap \in Nat, NEW arr \in [Range0(cap) -> Keys \cup {NoKey}]
  PROVE  IsFiniteSet(Occupied(arr)) /\ Cardinality(Occupied(arr)) \in Nat
<1>1. IsFiniteSet(Range0(cap))
  BY FS_Interval DEF Range0
<1>2. Occupied(arr) \in SUBSET Range0(cap)
  BY DEF Occupied
<1>3. IsFiniteSet(Occupied(arr))
  BY <1>1, <1>2, FS_Subset
<1>4. QED
  BY <1>3, FS_CardinalityType

LEMMA PutCounts ==
  ASSUME NEW cap \in Nat, NEW arr \in [Range0(cap) -> Keys \cup {NoKey}],
         NEW put \in [Range0(cap) -> Keys \cup {NoKey}],
         NEW i \in Range0(cap), arr[i] = NoKey, put[i] # NoKey,
         \A j \in Range0(cap) : j # i => put[j] = arr[j]
  PROVE  Cardinality(Occupied(put)) = Cardinality(Occupied(arr)) + 1
<1>1. Occupied(put) = Occupied(arr) \cup {i} /\ i \notin Occupied(arr)
  BY DEF Occupied
<1>2. QED
  BY <1>1, OccupiedFinite, FS_AddElement

\* An array fresh from calloc.
LEMMA EmptyFacts ==
  ASSUME NEW cap \in Nat
  PROVE  /\ Empty(cap, NoKey) \in [Range0(cap) -> Keys \cup {NoKey}]
         /\ Empty(cap, NoValue) \in [Range0(cap) -> Values \cup {NoValue}]
         /\ \A i \in Range0(cap) : Empty(cap, NoKey)[i] = NoKey
         /\ \A i \in Range0(cap) : Empty(cap, NoValue)[i] = NoValue
         /\ Probeable(Empty(cap, NoKey), cap)
         /\ Occupied(Empty(cap, NoKey)) = {}
BY DEF Empty, Range0, Probeable, Occupied

-----------------------------------------------------------------------------
LEMMA InvInit == Init => HInv
<1> SUFFICES ASSUME Init PROVE HInv
  OBVIOUS
<1> USE DEF Init
<1>1. capacity = InitialCapacity /\ capacity \in Nat /\ capacity >= 2
  BY TableAssumption
<1>2. probe \in Range0(capacity)
  BY <1>1 DEF Range0
<1>2a. GetType
  BY <1>2 DEF GetType, GetStages
<1>3. Range0(newCapacity) = {} /\ DOMAIN <<>> = {}
  BY DEF Range0
<1>4. newKeys \in [Range0(newCapacity) -> Keys \cup {NoKey}]
  BY <1>3
<1>5. newVals \in [Range0(newCapacity) -> Values \cup {NoValue}]
  BY <1>3
<1>6. index \in Range0(capacity) /\ cursor \in 0..capacity /\ capacity % 2 = 0
  BY <1>1, TableAssumption DEF Range0
<1>7. keys \in [Range0(Size) -> Keys \cup {NoKey}] /\ vals \in [Range0(Size) -> Values \cup {NoValue}]
  BY <1>1, EmptyFacts DEF Size
<1>8. TableType
  BY <1>1, <1>4, <1>5, <1>6, <1>7, TableAssumption DEF TableType, Stages
<1>9. StageInv /\ CopyInv
  BY DEF StageInv, CopyInv
<1>10. Distinct(keys) /\ FoundByProbing
  BY <1>1, EmptyFacts DEF Distinct, FoundByProbing, Probeable
<1>11. Cardinality(Occupied(keys)) = 0
  BY <1>1, EmptyFacts, FS_EmptySet
<1>12. HalfFree
  BY <1>1, <1>11 DEF HalfFree, Rebuilding
<1>13. QED
  BY <1>2a, <1>8, <1>9, <1>10, <1>12 DEF HInv, TableInv

\* The hash function does not change.
LEMMA SameHash ==
  ASSUME hash' = hash
  PROVE  /\ Probeable(keys, capacity)' <=> Probeable(keys', capacity')
         /\ Probeable(newKeys, newCapacity)' <=> Probeable(newKeys', newCapacity')
         /\ Home(key, capacity)' = Home(key', capacity')
BY DEF Probeable, Home

\* The steps of a get leave the table alone.
LEMMA TableKept == ASSUME TableInv, UNCHANGED table PROVE TableInv'
<1> USE DEF table, kind, items, new, call, TableInv
<1>1. TableType' /\ StageInv'
  BY DEF TableType, StageInv, Size, Home
<1>2. Distinct(keys)' /\ FoundByProbing'
  BY DEF Distinct, FoundByProbing, Probeable, Rebuilding, Home
<1>3. Occupied(keys)' = Occupied(keys) /\ Occupied(newKeys)' = Occupied(newKeys)
      /\ Passed' = Passed
  BY DEF Occupied, Passed
<1>4. HalfFree' /\ CopyInv'
  BY <1>3 DEF HalfFree, CopyInv, Rebuilding
<1>5. QED
  BY <1>1, <1>2, <1>4

\* The steps of the owner leave the get alone but for what could be seen.
LEMMA GetKept ==
  ASSUME GetType, capacity \in Nat, capacity' \in Nat, capacity' >= capacity,
         UNCHANGED <<at, want, probe, answer>>,
         base' \in {"none", "live", "freed"}, base' # "none" => base # "none",
         moved' \in BOOLEAN,
         could' \subseteq Values \cup {NoValue}
  PROVE  GetType'
<1>1. probe' = probe /\ probe \in Range0(capacity)
  BY DEF GetType
<1>2. probe' \in Range0(capacity')
  BY <1>1, WiderRange
<1>3. QED
  BY <1>1, <1>2 DEF GetType

-----------------------------------------------------------------------------
(* The steps of ht_set.                                                    *)

LEMMA AllocateFacts ==
  ASSUME NEW cap \in Nat, Allocate(cap)
  PROVE  /\ newCapacity' = cap /\ cursor' = 0
         /\ newKeys' \in [Range0(cap) -> Keys \cup {NoKey}]
         /\ newVals' \in [Range0(cap) -> Values \cup {NoValue}]
         /\ Probeable(newKeys', cap)
         /\ \A i \in Range0(cap) : newKeys'[i] = NoKey /\ newVals'[i] = NoValue
         /\ Cardinality(Occupied(newKeys')) = 0
BY EmptyFacts, FS_EmptySet DEF Allocate

LEMMA StartOfCopy ==
  ASSUME NEW cap \in Nat, Allocate(cap), cursor' = 0
  PROVE  CopyInv' /\ Cardinality(Passed') = 0
<1>1. Passed' = {}
  BY DEF Passed, Range0
<1>2. Cardinality(Passed') = 0
  BY <1>1, FS_EmptySet
<1>3. DOMAIN newKeys' = Range0(cap)
  BY AllocateFacts
<1>4. QED
  BY <1>2, <1>3, AllocateFacts DEF CopyInv

LEMMA BeginSetStep ==
  ASSUME HInv, NEW k \in Keys, NEW v \in Values, BeginSet(k, v)
  PROVE  HInv'
<1> USE DEF HInv, TableInv
<1>1. /\ pc = "idle" /\ newCapacity = 0 /\ Size = capacity /\ key' = k /\ val' = v
      /\ UNCHANGED <<hash, shared, capacity, count, keys, vals, freed>>
      /\ UNCHANGED gets /\ UNCHANGED seen
      /\ capacity \in Nat /\ capacity >= 2 /\ count \in Nat
  BY DEF BeginSet, Idle, StageInv, Size, kind, items, TableType
<1>2. Home(k, capacity) \in Range0(capacity)
  BY <1>1, HomeInRange DEF Home, TableType
<1>3. GetType'
  BY <1>1, GetKept DEF GetType, gets, seen
<1>4. Distinct(keys)' /\ Probeable(keys, capacity)'
  BY <1>1, SameHash DEF Distinct, FoundByProbing, Rebuilding
<1>5. CASE MustGrow
  <2>1. Allocate(2 * capacity) /\ pc' = "copy" /\ index' = index
    BY <1>5 DEF BeginSet, Goes
  <2>2. Size' = capacity /\ newCapacity' = 2 * capacity /\ cursor' = 0
    BY <1>1, <2>1, AllocateFacts DEF Size
  <2>3. TableType'
    BY <1>1, <2>1, <2>2, AllocateFacts DEF TableType, Stages
  <2>4. StageInv'
    BY <1>1, <2>1, <2>2 DEF StageInv
  <2>6. FoundByProbing'
    BY <1>1, <1>4, <2>1, <2>2, AllocateFacts, SameHash DEF FoundByProbing
  <2>7. HalfFree'
    BY <1>1, <2>2 DEF HalfFree, Rebuilding, Occupied
  <2>8. CopyInv'
    BY <1>1, <2>1, <2>2, StartOfCopy
  <2>9. QED
    BY <1>3, <1>4, <2>3, <2>4, <2>6, <2>7, <2>8
<1>6. CASE ~MustGrow
  <2>1. UNCHANGED new /\ pc' = "set" /\ index' = Home(k, capacity)
    BY <1>6 DEF BeginSet, Goes
  <2>2. 2 * (count + 1) <= capacity
    BY <1>1, <1>6 DEF MustGrow, TableType
  <2>3. TableType' /\ Size' = capacity
    BY <1>1, <1>2, <2>1 DEF TableType, Stages, new, Size
  <2>4. StageInv' /\ CopyInv'
    BY <1>1, <2>1, <2>2, SameHash DEF StageInv, CopyInv, new
  <2>5. FoundByProbing'
    BY <1>1, <1>4, <2>1 DEF FoundByProbing, new
  <2>6. HalfFree'
    BY <1>1, <2>1 DEF HalfFree, Rebuilding, Occupied, new
  <2>7. QED
    BY <1>3, <1>4, <2>3, <2>4, <2>5, <2>6
<1>7. QED
  BY <1>5, <1>6

\* Steps that touch neither the slots' keys nor the capacities.
LEMMA SameSlots ==
  ASSUME TableInv, pc # "capacity", pc' # "capacity",
         UNCHANGED <<hash, capacity, count, keys, newCapacity, newKeys, cursor>>,
         pc' \in {"copy", "publish"} => pc \in {"copy", "publish"}
  PROVE  Distinct(keys)' /\ FoundByProbing' /\ HalfFree' /\ CopyInv'
<1>1. Distinct(keys)' /\ FoundByProbing'
  BY SameHash DEF TableInv, Distinct, FoundByProbing, Rebuilding
<1>2. Occupied(keys)' = Occupied(keys) /\ Occupied(newKeys)' = Occupied(newKeys)
      /\ Passed' = Passed
  BY DEF Occupied, Passed
<1>3. QED
  BY <1>1, <1>2 DEF TableInv, HalfFree, CopyInv, Rebuilding

LEMMA StoreValueStep ==
  ASSUME HInv, pc \in {"set", "value"}, NEW i \in Range0(capacity), StoreValue(i)
  PROVE  HInv'
<1> USE DEF HInv, TableInv
<1>1. /\ UNCHANGED <<hash, shared, capacity, count, keys, freed, newCapacity,
                     newKeys, newVals, cursor, at, want, probe, base, answer, moved>>
      /\ pc' = "idle" /\ key' = NoKey /\ val' = NoValue /\ index' = 0
      /\ vals' = [vals EXCEPT ![i] = val]
      /\ could' \in {could, could \cup {val}}
  BY DEF StoreValue, Returns, kind, new, gets
<1>2. newCapacity = 0 /\ Size = capacity /\ Size' = capacity
      /\ capacity \in Nat /\ capacity >= 2
  BY <1>1 DEF StageInv, TableType, Size
<1>3. GetType'
  <2>1. val \in Values \cup {NoValue} /\ could \subseteq Values \cup {NoValue}
    BY DEF TableType, GetType
  <2>2. could' \subseteq Values \cup {NoValue}
    BY <1>1, <2>1
  <2>3. base' \in {"none", "live", "freed"} /\ moved' \in BOOLEAN
    BY <1>1 DEF GetType
  <2>4. QED
    BY <1>1, <1>2, <2>2, <2>3, GetKept
<1>4. TableType'
  <2>1. 0 \in Range0(capacity)
    BY <1>2 DEF Range0
  <2>2. vals' \in [Range0(Size') -> Values \cup {NoValue}]
    BY <1>1, <1>2 DEF TableType
  <2>3. QED
    BY <1>1, <1>2, <2>1, <2>2 DEF TableType, Stages
<1>5. StageInv'
  BY <1>1, <1>2 DEF StageInv
<1>6. QED
  BY <1>1, <1>3, <1>4, <1>5, SameSlots

LEMMA UpdateStep == ASSUME HInv, Update PROVE HInv'
<1>1. PICK i \in DOMAIN keys : StoreValue(i)
  BY DEF Update
<1>2. pc = "set" /\ DOMAIN keys = Range0(capacity)
  BY DEF Update, HInv, TableInv, TableType, Size
<1>3. QED
  BY <1>1, <1>2, StoreValueStep

LEMMA InsertValueStep == ASSUME HInv, InsertValue PROVE HInv'
BY StoreValueStep DEF InsertValue, HInv, TableInv, TableType

LEMMA InsertKeyStep == ASSUME HInv, InsertKey PROVE HInv'
<1> USE DEF HInv, TableInv
<1>1. PICK i \in DOMAIN keys :
        /\ Ends(keys, key, index, i) /\ keys[i] = NoKey
        /\ keys' = [keys EXCEPT ![i] = key] /\ index' = i
  BY DEF InsertKey
<1>2. /\ pc = "set" /\ pc' = "value" /\ count' = count + 1
      /\ UNCHANGED <<hash, shared, capacity, vals, freed, newCapacity, newKeys,
                     newVals, cursor, key, val, at, want, probe, base, answer,
                     moved, could>>
  BY DEF InsertKey, Goes, kind, new, gets, seen
<1>3. /\ newCapacity = 0 /\ Size = capacity /\ Size' = capacity
      /\ capacity \in Nat /\ capacity >= 2 /\ count \in Nat
      /\ key \in Keys /\ index = Home(key, capacity) /\ 2 * (count + 1) <= capacity
  BY <1>2 DEF StageInv, TableType, Size
<1>4. keys \in [Range0(capacity) -> Keys \cup {NoKey}] /\ i \in Range0(capacity)
      /\ Home(key, capacity) \in Range0(capacity)
  BY <1>3 DEF TableType
<1>5. Probeable(keys, capacity)
  BY <1>2, <1>3 DEF FoundByProbing, Rebuilding
<1>6. \A j \in Range0(capacity) : keys[j] # key
  BY <1>1, <1>3, <1>4, <1>5, AbsentKey
<1>7. Probeable(keys', capacity)
  BY <1>1, <1>3, <1>4, <1>5, <1>6, PutProbeable
<1>8. Distinct(keys)' /\ FoundByProbing'
  BY <1>2, <1>3, <1>7, SameHash DEF Distinct, FoundByProbing, Probeable
<1>9. Cardinality(Occupied(keys')) = count + 1
  <2>1. Cardinality(Occupied(keys')) = Cardinality(Occupied(keys)) + 1
    <3>1. /\ keys' \in [Range0(capacity) -> Keys \cup {NoKey}]
          /\ keys[i] = NoKey /\ keys'[i] # NoKey
          /\ \A j \in Range0(capacity) : j # i => keys'[j] = keys[j]
      BY <1>1, <1>3, <1>4, TableAssumption
    <3>2. QED
      BY <1>3, <1>4, <3>1, PutCounts
  <2>2. Cardinality(Occupied(keys)) = count
    BY <1>3, <1>4, OccupiedFinite DEF HalfFree, Rebuilding
  <2>3. QED
    BY <2>1, <2>2
<1>10. HalfFree'
  <2>1. Occupied(keys)' = Occupied(keys')
    BY DEF Occupied
  <2>2. QED
    BY <1>2, <1>3, <1>9, <2>1 DEF HalfFree, Rebuilding
<1>11. keys' \in [Range0(capacity) -> Keys \cup {NoKey}]
  BY <1>1, <1>3, <1>4
<1>12. TableType'
  BY <1>1, <1>2, <1>3, <1>4, <1>11 DEF TableType, Stages
<1>13. StageInv' /\ CopyInv'
  BY <1>2, <1>3 DEF StageInv, CopyInv
<1>14. GetType'
  BY <1>2 DEF GetType
<1>15. QED
  BY <1>8, <1>10, <1>12, <1>13, <1>14

-----------------------------------------------------------------------------
(* The steps of a rehash.                                                  *)

\* The slot the loop passes counts if it holds a key.
LEMMA PassedGrows ==
  ASSUME NEW arr, NEW c \in Nat
  PROVE  LET before == {s \in Range0(c) : arr[s] # NoKey}
             after == {s \in Range0(c + 1) : arr[s] # NoKey}
         IN  Cardinality(after) = IF arr[c] = NoKey THEN Cardinality(before)
                                  ELSE Cardinality(before) + 1
<1> DEFINE before == {s \in Range0(c) : arr[s] # NoKey}
           after == {s \in Range0(c + 1) : arr[s] # NoKey}
<1>1. IsFiniteSet(Range0(c))
  BY FS_Interval DEF Range0
<1>2. IsFiniteSet(before)
  BY <1>1, FS_Subset
<1>3. Range0(c + 1) = Range0(c) \cup {c} /\ c \notin Range0(c)
  BY DEF Range0
<1>4. after = (IF arr[c] = NoKey THEN before ELSE before \cup {c}) /\ c \notin before
  BY <1>3
<1>5. QED
  BY <1>2, <1>4, FS_AddElement

LEMMA CopyStep == ASSUME HInv, Copy PROVE HInv'
<1> USE DEF HInv, TableInv
<1> DEFINE k == keys[cursor]
<1>1. /\ pc = "copy" /\ cursor < capacity /\ cursor' = cursor + 1
      /\ UNCHANGED <<hash, shared, capacity, count, keys, vals, freed, newCapacity,
                     pc, key, val, index, at, want, probe, base, answer, moved, could>>
  BY DEF Copy, CopyNext, kind, items, call, gets, seen
<1>2. /\ Size = capacity /\ Size' = capacity /\ cursor \in Range0(capacity)
      /\ capacity \in Nat /\ newCapacity \in {capacity, 2 * capacity}
      /\ newCapacity \in Nat /\ cursor \in Nat /\ cursor' \in 0..capacity
      /\ keys \in [Range0(capacity) -> Keys \cup {NoKey}]
      /\ newKeys \in [Range0(newCapacity) -> Keys \cup {NoKey}]
      /\ newVals \in [Range0(newCapacity) -> Values \cup {NoValue}]
      /\ vals \in [Range0(capacity) -> Values \cup {NoValue}]
  BY <1>1 DEF StageInv, TableType, Size, Range0
<1>3. StageInv' /\ GetType'
  BY <1>1, SameHash DEF StageInv, GetType
<1>4. Cardinality(Passed') = IF k = NoKey THEN Cardinality(Passed)
                             ELSE Cardinality(Passed) + 1
  BY <1>1, <1>2, PassedGrows DEF Passed
<1>5. Distinct(keys)' /\ HalfFree'
  BY <1>1 DEF Distinct, HalfFree, Rebuilding, Occupied
<1>6. ASSUME newKeys' \in [Range0(newCapacity) -> Keys \cup {NoKey}],
             newVals' \in [Range0(newCapacity) -> Values \cup {NoValue}],
             Probeable(newKeys', newCapacity)
      PROVE  TableType' /\ FoundByProbing'
  <2>1. TableType'
    BY <1>1, <1>2, <1>6 DEF TableType
  <2>2. FoundByProbing'
    BY <1>1, <1>6, SameHash DEF FoundByProbing, Rebuilding
  <2>3. QED
    BY <2>1, <2>2
<1>7. \A s \in Range0(cursor) : s \in Range0(cursor')
  BY <1>1, <1>2 DEF Range0
<1>8. CASE k = NoKey
  <2>1. UNCHANGED <<newKeys, newVals>>
    BY <1>8 DEF Copy
  <2>2. Occupied(newKeys)' = Occupied(newKeys)
    BY <2>1 DEF Occupied
  <2>3. CopyInv'
    BY <1>1, <1>4, <1>7, <1>8, <2>1, <2>2 DEF CopyInv
  <2>4. Probeable(newKeys', newCapacity)
    BY <1>1, <1>2, <2>1 DEF FoundByProbing, TableType
  <2>5. QED
    BY <1>2, <1>3, <1>5, <1>6, <2>1, <2>3, <2>4
<1>9. CASE k # NoKey
  <2>1. PICK i \in DOMAIN newKeys :
          /\ Ends(newKeys, k, Home(k, newCapacity), i)
          /\ newKeys' = [newKeys EXCEPT ![i] = k]
          /\ newVals' = [newVals EXCEPT ![i] = vals[cursor]]
    BY <1>9 DEF Copy, PutAt
  <2>2. k \in Keys /\ i \in Range0(newCapacity) /\ vals[cursor] \in Values \cup {NoValue}
    BY <1>2, <1>9
  <2>3. ASSUME NEW j \in Range0(newCapacity), newKeys[j] = k PROVE FALSE
    <3>1. PICK s \in Range0(cursor) : keys[s] = k
      BY <1>1, <1>2, <1>9, <2>3 DEF CopyInv
    <3>2. s \in Range0(capacity) /\ s # cursor
      BY <1>2 DEF Range0
    <3>3. QED
      BY <1>2, <1>9, <3>1, <3>2 DEF Distinct
  <2>4. newKeys[i] = NoKey
    BY <2>1, <2>2, <2>3 DEF Ends
  <2>5. Probeable(newKeys, newCapacity)
    BY <1>1, <1>2 DEF FoundByProbing, StageInv
  <2>6. Probeable(newKeys', newCapacity)
    BY <1>2, <2>1, <2>2, <2>3, <2>4, <2>5, PutProbeable
  <2>7. Cardinality(Occupied(newKeys')) = Cardinality(Occupied(newKeys)) + 1
    <3>1. /\ newKeys' \in [Range0(newCapacity) -> Keys \cup {NoKey}]
          /\ newKeys'[i] # NoKey
          /\ \A j \in Range0(newCapacity) : j # i => newKeys'[j] = newKeys[j]
      BY <1>2, <2>1, <2>2, TableAssumption
    <3>2. QED
      BY <1>2, <2>2, <2>4, <3>1, PutCounts
  <2>8. ASSUME NEW j \in DOMAIN newKeys', newKeys'[j] # NoKey
        PROVE  \E s \in Range0(cursor') : keys'[s] = newKeys'[j]
    <3>1. CASE j = i
      <4>1. cursor \in Range0(cursor')
        BY <1>1, <1>2 DEF Range0
      <4>2. QED
        BY <1>1, <1>2, <2>1, <3>1, <4>1
    <3>2. CASE j # i
      BY <1>1, <1>2, <1>7, <2>1, <2>8, <3>2 DEF CopyInv
    <3>3. QED
      BY <3>1, <3>2
  <2>9. Occupied(newKeys)' = Occupied(newKeys')
    BY DEF Occupied
  <2>10. Cardinality(Occupied(newKeys))' = Cardinality(Passed)'
    BY <1>1, <1>4, <1>9, <2>7, <2>9 DEF CopyInv
  <2>11. CopyInv'
    BY <2>8, <2>10 DEF CopyInv
  <2>12. newKeys' \in [Range0(newCapacity) -> Keys \cup {NoKey}]
         /\ newVals' \in [Range0(newCapacity) -> Values \cup {NoValue}]
    BY <1>2, <2>1, <2>2
  <2>13. QED
    BY <1>3, <1>5, <1>6, <2>6, <2>11, <2>12
<1>10. QED
  BY <1>8, <1>9

LEMMA FreeStep == ASSUME HInv, Free PROVE HInv'
<1> USE DEF HInv, TableInv
<1>1. /\ pc = "copy" /\ pc' = "publish" /\ cursor = capacity /\ freed' = TRUE
      /\ UNCHANGED <<hash, shared, capacity, count, keys, vals, newCapacity,
                     newKeys, newVals, cursor, key, val, index, at, want, probe,
                     answer, could>>
      /\ base' = (IF base = "live" THEN "freed" ELSE base) /\ moved' = (at # "idle")
  BY DEF Free, Goes, Moves, kind, items, new
<1>2. Size' = capacity /\ Size = capacity
  BY <1>1 DEF Size
<1>3. TableType' /\ StageInv'
  BY <1>1, <1>2, SameHash DEF TableType, StageInv, Stages
<1>4. GetType'
  <2>1. base' \in {"none", "live", "freed"} /\ moved' \in BOOLEAN
        /\ base' # "none" => base # "none"
    BY <1>1 DEF GetType
  <2>2. QED
    BY <1>1, <2>1 DEF GetType
<1>5. QED
  BY <1>1, <1>3, <1>4, SameSlots

LEMMA PublishStep == ASSUME HInv, Publish PROVE HInv'
<1> USE DEF HInv, TableInv
<1>1. /\ pc = "publish" /\ keys' = newKeys /\ vals' = newVals /\ freed' = FALSE
      /\ pc' = (IF newCapacity > capacity THEN "capacity" ELSE "recount")
      /\ UNCHANGED <<hash, shared, capacity, count, newCapacity, newKeys, newVals,
                     cursor, key, val, index, at, want, probe, base, answer, could>>
      /\ moved' = (at # "idle")
  BY DEF Publish, Goes, Moves, kind, new, gets
<1>2. /\ Size = capacity /\ capacity \in Nat /\ capacity >= 2
      /\ newCapacity \in {capacity, 2 * capacity} /\ cursor = capacity
  BY <1>1 DEF StageInv, TableType, Size
<1>3. Size' = newCapacity
  BY <1>1, <1>2 DEF Size
<1>4. TableType'
  BY <1>1, <1>3 DEF TableType, Stages
<1>5. StageInv' /\ CopyInv'
  BY <1>1, <1>2 DEF StageInv, CopyInv
<1>6. Probeable(newKeys, newCapacity)
  BY <1>1, <1>2 DEF FoundByProbing
<1>7. Distinct(keys)'
  BY <1>1, <1>6 DEF Distinct, Probeable
<1>8. FoundByProbing'
  BY <1>1, <1>2, <1>6, SameHash DEF FoundByProbing, Rebuilding
<1>9. HalfFree'
  <2>1. Passed = Occupied(keys)
    BY <1>2 DEF Passed, Occupied, TableType
  <2>2. Cardinality(Occupied(newKeys)) = Cardinality(Occupied(keys))
    BY <1>1, <2>1 DEF CopyInv
  <2>3. Occupied(keys)' = Occupied(newKeys)
    BY <1>1 DEF Occupied
  <2>4. QED
    BY <1>1, <2>2, <2>3 DEF HalfFree, Rebuilding
<1>10. GetType'
  BY <1>1 DEF GetType
<1>11. QED
  BY <1>4, <1>5, <1>7, <1>8, <1>9, <1>10

LEMMA SetCapacityStep == ASSUME HInv, SetCapacity PROVE HInv'
<1> USE DEF HInv, TableInv
<1>1. /\ pc = "capacity" /\ pc' = "set" /\ capacity' = newCapacity
      /\ index' = Home(key, newCapacity)
      /\ newCapacity' = 0 /\ newKeys' = <<>> /\ newVals' = <<>> /\ cursor' = 0
      /\ UNCHANGED <<hash, shared, count, keys, vals, freed, key, val, at, want,
                     probe, base, answer, could>>
      /\ moved' = (at # "idle")
  BY DEF SetCapacity, Goes, Moves, Discard, kind, items, gets
<1>2. /\ capacity \in Nat /\ capacity >= 2 /\ newCapacity = 2 * capacity
      /\ keys = newKeys /\ Size = newCapacity /\ Size' = newCapacity
      /\ key \in Keys /\ count \in Nat
  BY <1>1 DEF StageInv, TableType, Size
<1>3. newCapacity \in Nat /\ newCapacity >= 2 /\ newCapacity % 2 = 0
      /\ newCapacity >= capacity
  BY <1>2
<1>4. Home(key, newCapacity) \in Range0(newCapacity)
  BY <1>2, <1>3, HomeInRange DEF Home, TableType
<1>5. 2 * (count + 1) <= newCapacity
  BY <1>2 DEF HalfFree
<1>6. Range0(0) = {} /\ DOMAIN <<>> = {}
  BY DEF Range0
<1>7. <<>> \in [Range0(0) -> Keys \cup {NoKey}] /\ <<>> \in [Range0(0) -> Values \cup {NoValue}]
  BY <1>6
<1>8. TableType'
  <2>1. hash \in [Keys -> Nat] /\ hash \in Hashes /\ shared \in BOOLEAN /\ freed \in BOOLEAN
        /\ keys \in [Range0(newCapacity) -> Keys \cup {NoKey}]
        /\ vals \in [Range0(newCapacity) -> Values \cup {NoValue}]
        /\ key \in Keys \cup {NoKey} /\ val \in Values \cup {NoValue}
    BY <1>2 DEF TableType
  <2>2. QED
    BY <1>1, <1>2, <1>3, <1>4, <1>7, <2>1 DEF TableType, Stages
<1>9. StageInv' /\ CopyInv'
  BY <1>1, <1>2, <1>5, SameHash DEF StageInv, CopyInv, Home
<1>10. Distinct(keys)' /\ FoundByProbing'
  BY <1>1, <1>2, <1>3, SameHash DEF Distinct, FoundByProbing
<1>11. HalfFree'
  BY <1>1, <1>2, <1>3 DEF HalfFree, Rebuilding, Occupied
<1>12. GetType'
  <2>1. base' \in {"none", "live", "freed"} /\ moved' \in BOOLEAN
        /\ could' \subseteq Values \cup {NoValue}
    BY <1>1 DEF GetType
  <2>2. QED
    BY <1>1, <1>2, <1>3, <2>1, GetKept
<1>13. QED
  BY <1>8, <1>9, <1>10, <1>11, <1>12

-----------------------------------------------------------------------------
(* The steps of ht_remove_entry.                                           *)

LEMMA BeginRemoveStep == ASSUME HInv, NEW k \in Keys, BeginRemove(k) PROVE HInv'
<1> USE DEF HInv, TableInv
<1>1. /\ pc = "idle" /\ pc' = "seek" /\ key' = k /\ index' = Home(k, capacity)
      /\ UNCHANGED <<hash, shared, capacity, count, keys, vals, freed, newCapacity,
                     newKeys, newVals, cursor, val, at, want, probe, base, answer,
                     moved, could>>
  BY DEF BeginRemove, Idle, Goes, kind, items, new, gets, seen
<1>2. Home(k, capacity) \in Range0(capacity) /\ Size = capacity /\ Size' = capacity
  BY <1>1, HomeInRange DEF Home, TableType, Size
<1>3. TableType' /\ StageInv' /\ GetType'
  BY <1>1, <1>2 DEF TableType, StageInv, GetType, Stages
<1>4. QED
  BY <1>1, <1>3, SameSlots

LEMMA EraseStep == ASSUME HInv, Erase PROVE HInv'
<1> USE DEF HInv, TableInv
<1>1. PICK i \in DOMAIN keys : FreeSlot(i) /\ index' = i
  BY DEF Erase
<1>2. /\ pc = "seek" /\ pc' = "copy" /\ keys[i] = key
      /\ keys' = [keys EXCEPT ![i] = NoKey] /\ vals' = [vals EXCEPT ![i] = NoValue]
      /\ UNCHANGED <<hash, shared, capacity, count, freed, key, val, at, want, probe,
                     base, answer, moved, could>>
      /\ Allocate(capacity)
  BY <1>1 DEF Erase, FreeSlot, Goes, kind, gets, seen
<1>3. /\ newCapacity = 0 /\ newCapacity' = capacity /\ cursor' = 0
      /\ capacity \in Nat /\ capacity >= 2 /\ Size = capacity /\ Size' = capacity
      /\ key \in Keys
  BY <1>2, AllocateFacts DEF StageInv, TableType, Size
<1>4. /\ keys \in [Range0(capacity) -> Keys \cup {NoKey}] /\ i \in Range0(capacity)
      /\ vals \in [Range0(capacity) -> Values \cup {NoValue}]
  BY <1>3 DEF TableType
<1>5. /\ keys' \in [Range0(capacity) -> Keys \cup {NoKey}]
      /\ vals' \in [Range0(capacity) -> Values \cup {NoValue}]
      /\ keys'[i] = NoKey /\ keys[i] # NoKey
      /\ \A j \in Range0(capacity) : j # i => keys[j] = keys'[j]
  BY <1>2, <1>3, <1>4, TableAssumption
<1>6. TableType'
  <2>1. cursor' \in 0..capacity
    BY <1>3
  <2>2. /\ newKeys' \in [Range0(capacity) -> Keys \cup {NoKey}]
        /\ newVals' \in [Range0(capacity) -> Values \cup {NoValue}]
    BY <1>2, <1>3, AllocateFacts
  <2>3. /\ UNCHANGED <<hash, shared, capacity, count, freed, key, val>>
        /\ index' \in Range0(capacity) /\ pc' = "copy"
    BY <1>1, <1>2, <1>4
  <2>4. QED
    BY <1>3, <1>5, <2>1, <2>2, <2>3 DEF TableType, Stages
<1>7. StageInv' /\ GetType'
  <2>1. /\ UNCHANGED <<capacity, key, at, want, probe, base, answer, moved, could>>
        /\ pc' = "copy"
    BY <1>2
  <2>2. QED
    BY <1>3, <2>1 DEF StageInv, GetType
<1>8. Distinct(keys)'
  <2>1. DOMAIN keys' = Range0(capacity) /\ DOMAIN keys = Range0(capacity)
    BY <1>4, <1>5
  <2>2. QED
    BY <1>5, <2>1 DEF Distinct
<1>9. FoundByProbing'
  <2>1. UNCHANGED <<hash, capacity>> /\ Probeable(newKeys', capacity)
    BY <1>2, <1>3, AllocateFacts
  <2>2. QED
    BY <1>3, <2>1, SameHash DEF FoundByProbing, Rebuilding
<1>10. HalfFree'
  <2>1. Cardinality(Occupied(keys)) = Cardinality(Occupied(keys')) + 1
    BY <1>3, <1>4, <1>5, PutCounts
  <2>2. UNCHANGED <<capacity, count>> /\ Occupied(keys)' = Occupied(keys')
    BY <1>2 DEF Occupied
  <2>3. Cardinality(Occupied(keys')) \in Nat
    BY <1>3, <1>5, OccupiedFinite
  <2>4. QED
    BY <1>3, <2>1, <2>2, <2>3 DEF HalfFree, Rebuilding, TableType
<1>11. CopyInv'
  BY <1>2, <1>3, StartOfCopy
<1>12. QED
  BY <1>6, <1>7, <1>8, <1>9, <1>10, <1>11

LEMMA RecountStep == ASSUME HInv, Recount PROVE HInv'
<1> USE DEF HInv, TableInv
<1>1. /\ pc = "recount" /\ pc' = "seek" /\ count' = count - 1
      /\ index' = After(index, capacity)
      /\ newCapacity' = 0 /\ newKeys' = <<>> /\ newVals' = <<>> /\ cursor' = 0
      /\ UNCHANGED <<hash, shared, capacity, keys, vals, freed, key, val, at, want,
                     probe, base, answer, moved, could>>
  BY DEF Recount, Goes, Discard, kind, items, gets, seen
<1>2. /\ capacity \in Nat /\ capacity >= 2 /\ newCapacity = capacity
      /\ keys = newKeys /\ Size = capacity /\ Size' = capacity
      /\ index \in Range0(capacity) /\ count \in Nat
      /\ keys \in [Range0(capacity) -> Keys \cup {NoKey}]
  BY <1>1 DEF StageInv, TableType, Size
<1>3. After(index, capacity) \in Range0(capacity)
  BY <1>2 DEF After, Range0
<1>4. count = Cardinality(Occupied(keys)) + 1 /\ Cardinality(Occupied(keys)) \in Nat
  BY <1>2, OccupiedFinite DEF HalfFree, Rebuilding
<1>5. Range0(0) = {} /\ DOMAIN <<>> = {}
  BY DEF Range0
<1>6. <<>> \in [Range0(0) -> Keys \cup {NoKey}] /\ <<>> \in [Range0(0) -> Values \cup {NoValue}]
  BY <1>5
<1>7. TableType'
  BY <1>1, <1>2, <1>3, <1>4, <1>6 DEF TableType, Stages
<1>8. StageInv' /\ CopyInv' /\ GetType'
  BY <1>1 DEF StageInv, CopyInv, GetType
<1>9. Distinct(keys)' /\ FoundByProbing'
  BY <1>1, <1>2, SameHash DEF Distinct, FoundByProbing
<1>10. HalfFree'
  BY <1>1, <1>2, <1>4 DEF HalfFree, Rebuilding, Occupied
<1>11. QED
  BY <1>7, <1>8, <1>9, <1>10

LEMMA SeekEndsStep == ASSUME HInv, SeekEnds PROVE HInv'
<1> USE DEF HInv, TableInv
<1>1. /\ pc = "seek" /\ pc' = "idle" /\ key' = NoKey /\ val' = NoValue /\ index' = 0
      /\ UNCHANGED <<hash, shared, capacity, count, keys, vals, freed, newCapacity,
                     newKeys, newVals, cursor, at, want, probe, base, answer, moved,
                     could>>
  BY DEF SeekEnds, Returns, kind, items, new, gets, seen
<1>2. 0 \in Range0(capacity) /\ Size = capacity /\ Size' = capacity
  BY <1>1 DEF TableType, Size, Range0
<1>3. TableType' /\ StageInv' /\ GetType'
  BY <1>1, <1>2 DEF TableType, StageInv, GetType, Stages
<1>4. QED
  BY <1>1, <1>3, SameSlots

-----------------------------------------------------------------------------
(* The steps of ht_get.                                                    *)

LEMMA GetSteps ==
  ASSUME HInv, GetStep \/ \E k \in Keys : BeginGet(k)
  PROVE  UNCHANGED table /\ GetType'
<1> USE DEF HInv, TableInv
<1>1. /\ capacity \in Nat /\ capacity >= 2 /\ hash \in [Keys -> Nat]
      /\ probe \in Range0(capacity)
  BY DEF TableType, GetType
<1>1a. Size \in Nat /\ Size >= capacity
  BY DEF TableType, StageInv, Size
<1>1b. /\ \A i \in DOMAIN vals : vals[i] \in Values \cup {NoValue}
       /\ DOMAIN vals = Range0(Size)
  BY DEF TableType
<1>2. UNCHANGED table => capacity' = capacity
  BY DEF table
<1>3. ASSUME NEW k \in Keys, BeginGet(k) PROVE UNCHANGED table /\ GetType'
  <2>1. Home(k, capacity) \in Range0(capacity)
    BY <1>1, HomeInRange DEF Home
  <2>2. Stored(k) \in Values \cup {NoValue}
    <3>1. DOMAIN keys = DOMAIN vals
      BY DEF TableType
    <3>2. CASE Holds(k)
      <4>1. (CHOOSE i \in DOMAIN keys : keys[i] = k) \in DOMAIN keys
        BY <3>2 DEF Holds
      <4>2. QED
        BY <1>1b, <3>1, <3>2, <4>1 DEF Stored
    <3>3. CASE ~Holds(k)
      BY <3>3 DEF Stored
    <3>4. QED
      BY <3>2, <3>3
  <2>3. /\ UNCHANGED table /\ at' = "test" /\ want' = k /\ probe' = Home(k, capacity)
        /\ UNCHANGED <<base, answer>> /\ moved' \in BOOLEAN /\ could' = {Stored(k)}
    BY <1>3 DEF BeginGet
  <2>4. QED
    BY <1>2, <2>1, <2>2, <2>3 DEF GetType, GetStages
<1>4. CASE Load
  BY <1>2, <1>4 DEF Load, GetType, seen
<1>5. ASSUME at' \in GetStages, at # "idle", want' = want, answer' = answer,
             moved' = moved, could' = could, probe' \in Range0(capacity),
             base' = "none", UNCHANGED table
      PROVE  GetType'
  BY <1>2, <1>5 DEF GetType
<1>6. CASE Test
  <2>1. /\ UNCHANGED <<want, probe, moved, could>> /\ UNCHANGED table
        /\ base' = "none" /\ at = "test"
        /\ \/ at' = "compare" /\ answer' = answer
           \/ at' = "done" /\ answer' = [key |-> want, value |-> NoValue]
    BY <1>6 DEF Test, Access, Answers, seen
  <2>2. want \in Keys
    BY <2>1 DEF GetType
  <2>3. QED
    BY <1>2, <2>1, <2>2 DEF GetType, GetStages
<1>7. CASE Compare
  <2>1. /\ want' = want /\ probe' = probe /\ answer' = answer /\ moved' = moved
        /\ could' = could /\ UNCHANGED table
        /\ base' = "none" /\ at = "compare" /\ at' \in {"wild", "value", "next"}
    BY <1>7 DEF Compare, Access, seen
  <2>2. at' \in GetStages /\ at # "idle" /\ probe' \in Range0(capacity)
    BY <1>1, <2>1 DEF GetStages
  <2>3. QED
    BY <1>5, <2>1, <2>2
<1>8. CASE Advance
  <2>1. /\ want' = want /\ base' = base /\ answer' = answer /\ moved' = moved
        /\ could' = could /\ UNCHANGED table
        /\ at = "next" /\ at' = "test" /\ probe' = After(probe, capacity)
    BY <1>8 DEF Advance, seen
  <2>2. After(probe, capacity) \in Range0(capacity) /\ base = "none"
    BY <1>1, <2>1 DEF After, Range0, GetType
  <2>3. /\ at' \in GetStages /\ at # "idle" /\ probe' \in Range0(capacity)
        /\ base' = "none"
    BY <2>1, <2>2 DEF GetStages
  <2>4. QED
    BY <1>5, <2>1, <2>2, <2>3
<1>9. CASE Value
  <2>1. /\ UNCHANGED <<want, probe, moved, could>> /\ UNCHANGED table
        /\ base' = "none" /\ at = "value" /\ at' = "done"
        /\ answer' = [key |-> want, value |-> vals[probe]]
    BY <1>9 DEF Value, Access, Answers, seen
  <2>2. want \in Keys /\ probe \in Range0(capacity)
    BY <2>1 DEF GetType
  <2>3. probe \in DOMAIN vals
    BY <1>1, <1>1a, <1>1b, WiderRange
  <2>4. QED
    BY <1>1b, <1>2, <2>1, <2>2, <2>3 DEF GetType, GetStages
<1>10. CASE Stray
  <2>1. /\ UNCHANGED <<want, probe, answer, moved, could>> /\ UNCHANGED table
        /\ base = "freed" /\ base' = "none" /\ at' = "wild"
    BY <1>10 DEF Stray, seen
  <2>2. want \in Keys
    BY <2>1 DEF GetType
  <2>3. QED
    BY <1>2, <2>1, <2>2 DEF GetType, GetStages
<1>11. CASE Return
  <2>1. /\ UNCHANGED table /\ UNCHANGED base
        /\ at' = "idle" /\ want' = NoKey /\ probe' = 0 /\ answer' = Nothing
        /\ moved' = FALSE /\ could' = {}
    BY <1>11 DEF Return
  <2>2. 0 \in Range0(capacity) /\ base = "none"
    BY <1>1, <1>11 DEF Range0, Return, GetType
  <2>3. QED
    BY <1>2, <2>1, <2>2 DEF GetType, GetStages
<1>12. QED
  BY <1>3, <1>4, <1>6, <1>7, <1>8, <1>9, <1>10, <1>11 DEF GetStep

-----------------------------------------------------------------------------
LEMMA CallStepKeeps == ASSUME HInv, CallStep PROVE HInv'
BY UpdateStep, InsertKeyStep, InsertValueStep, CopyStep, FreeStep, PublishStep,
   SetCapacityStep, EraseStep, RecountStep, SeekEndsStep
   DEF CallStep

LEMMA HInvNext == HInv /\ [Next]_vars => HInv'
<1> SUFFICES ASSUME HInv, [Next]_vars PROVE HInv'
  OBVIOUS
<1>1. CASE Begin
  <2>1. ASSUME NEW e \in Entries, BeginSet(e[1], e[2]) PROVE HInv'
    <3>1. e[1] \in Keys /\ e[2] \in Values
      BY TableAssumption
    <3>2. QED
      BY <2>1, <3>1, BeginSetStep
  <2>2. QED
    BY <1>1, <2>1, BeginRemoveStep DEF Begin
<1>2. CASE CallStep
  BY <1>2, CallStepKeeps
<1>3. CASE GetStep \/ \E k \in Keys : BeginGet(k)
  BY <1>3, GetSteps, TableKept DEF HInv
<1>4. CASE UNCHANGED vars
  <2>1. UNCHANGED table /\ UNCHANGED <<capacity, gets, seen>>
    BY <1>4 DEF vars, table
  <2>2. GetType'
    BY <2>1 DEF HInv, GetType, gets, seen
  <2>3. QED
    BY <2>1, <2>2, TableKept DEF HInv
<1>5. QED
  BY <1>1, <1>2, <1>3, <1>4 DEF Next

THEOREM Invariant == Spec => []HInv
BY InvInit, HInvNext, PTL DEF Spec

\* Every variable stays in its range: no index leaves its array, neither an
\* owner's after the wrap-around nor that of a get while the capacity doubles
\* (hashmap.c:79-83, 128-131, 186-189).
THEOREM TypeCorrect == Spec => []TypeOK
BY Invariant, TypeParts, PTL

\* For every hash function and every sequence of sets and removals each key is
\* reachable by probing from its home slot (hashmap.c:61-97, 150-157).
THEOREM KeysAreReachable == Spec => []FoundByProbing
<1>1. HInv => FoundByProbing
  BY DEF HInv, TableInv
<1>2. QED
  BY <1>1, Invariant, PTL

\* The load factor test keeps half of the slots free, and count is right,
\* whatever is inserted, updated and removed (hashmap.c:87-94, 126, 171-173).
THEOREM HalfStaysFree == Spec => []HalfFree
<1>1. HInv => HalfFree
  BY DEF HInv, TableInv
<1>2. QED
  BY <1>1, Invariant, PTL

-----------------------------------------------------------------------------
(* What the table holds, and what a get has seen of it.                    *)

StoredIn(arr, w, k) ==
  IF \E i \in DOMAIN arr : arr[i] = k THEN w[CHOOSE i \in DOMAIN arr : arr[i] = k]
  ELSE NoValue

\* Values go with their keys; a set in progress has one.
EntryInv ==
  /\ \A i \in DOMAIN keys : keys[i] = NoKey => vals[i] = NoValue
  /\ \A i \in DOMAIN newKeys : newKeys[i] = NoKey => newVals[i] = NoValue
  /\ pc = "value" => keys[index] = key
  /\ pc \in {"set", "value", "capacity"} \/ newCapacity = 2 * capacity => val \in Values
  /\ pc \in {"copy", "publish"} =>
       \A s \in Range0(cursor) : keys[s] # NoKey =>
         \E i \in DOMAIN newKeys : newKeys[i] = keys[s] /\ newVals[i] = vals[s]

\* Who can be where.
TurnInv ==
  /\ shared => pc \notin {"seek", "recount"} /\ newCapacity # capacity
  /\ ~shared /\ at # "idle" => pc = "idle" /\ ~moved
  /\ freed = (pc = "publish")
  /\ at # "done" => answer = Nothing
  /\ at = "done" => answer \in [key : Keys, value : Values \cup {NoValue}]

\* While the array stays where it is, the slots a get has passed hold other
\* keys, and what it answers its key has had.
GetInv ==
  at # "idle" /\ ~moved =>
    /\ pc \notin {"publish", "capacity", "recount"}
    /\ at # "wild" /\ base # "freed"
    /\ Stored(want) \in could
    /\ at \in {"test", "compare", "next"} =>
         \A s \in Range0(capacity) :
           OnTheWay(Home(want, capacity), probe, s) => keys[s] \notin {NoKey, want}
    /\ at \in {"compare", "next"} => keys[probe] # NoKey
    /\ at = "next" => keys[probe] # want
    /\ at = "value" => keys[probe] = want
    /\ at = "done" => answer.value \in could

FInv == HInv /\ EntryInv /\ TurnInv /\ GetInv

LEMMA StoredIs ==
  ASSUME NEW arr, NEW w, NEW k, k # NoKey, Distinct(arr),
         NEW i \in DOMAIN arr, arr[i] = k
  PROVE  StoredIn(arr, w, k) = w[i]
<1>1. (CHOOSE j \in DOMAIN arr : arr[j] = k) = i
  BY DEF Distinct
<1>2. QED
  BY <1>1 DEF StoredIn

LEMMA StoredNot ==
  ASSUME NEW arr, NEW w, NEW k, \A i \in DOMAIN arr : arr[i] # k
  PROVE  StoredIn(arr, w, k) = NoValue
BY DEF StoredIn

LEMMA StoredMeans ==
  ASSUME NEW k
  PROVE  Stored(k) = StoredIn(keys, vals, k) /\ Stored(k)' = StoredIn(keys', vals', k)
BY DEF Stored, Holds, StoredIn

\* The key of a get is a variable.
LEMMA StoredNow ==
  /\ Stored(want) = StoredIn(keys, vals, want)
  /\ Stored(want)' = StoredIn(keys', vals', want')
BY DEF Stored, Holds, StoredIn

LEMMA StoredSame ==
  ASSUME UNCHANGED <<keys, vals>>, NEW k
  PROVE  Stored(k)' = Stored(k)
BY StoredMeans

\* Where the last store of a set takes effect.
LEMMA StoreValueStored ==
  ASSUME HInv, NEW i \in DOMAIN keys, keys[i] = key, StoreValue(i),
         key \in Keys, pc # "capacity", NEW k \in Keys
  PROVE  Stored(k)' = IF k = key THEN val ELSE Stored(k)
<1>1. vals' = [vals EXCEPT ![i] = val] /\ DOMAIN vals = DOMAIN keys
  BY DEF StoreValue, HInv, TableInv, TableType
<1>2. /\ keys' = keys /\ vals'[i] = val
      /\ \A j \in DOMAIN keys : j # i => vals'[j] = vals[j]
      /\ Distinct(keys) /\ k # NoKey /\ key # NoKey
  BY <1>1, TableAssumption DEF StoreValue, HInv, TableInv
<1>3. CASE k = key
  BY <1>2, <1>3, StoredIs, StoredMeans
<1>4. ASSUME k # key, NEW j \in DOMAIN keys, keys[j] = k
      PROVE  Stored(k)' = Stored(k)
  <2>1. vals'[j] = vals[j]
    BY <1>2, <1>4
  <2>2. StoredIn(keys, vals, k) = vals[j] /\ StoredIn(keys, vals', k) = vals'[j]
    BY <1>2, <1>4, StoredIs
  <2>3. QED
    BY <1>2, <2>1, <2>2, StoredMeans
<1>5. ASSUME \A j \in DOMAIN keys : keys[j] # k
      PROVE  Stored(k)' = Stored(k)
  BY <1>2, <1>5, StoredNot, StoredMeans
<1>6. QED
  BY <1>3, <1>4, <1>5

\* A key without its value is as good as none.
LEMMA InsertKeyStored ==
  ASSUME HInv, EntryInv, InsertKey, NEW k \in Keys
  PROVE  Stored(k)' = Stored(k)
<1> USE DEF HInv, TableInv
<1>1. PICK i \in DOMAIN keys :
        Ends(keys, key, index, i) /\ keys[i] = NoKey /\ keys' = [keys EXCEPT ![i] = key]
  BY DEF InsertKey
<1>2. /\ pc = "set" /\ vals' = vals /\ newCapacity = 0 /\ Size = capacity
      /\ key \in Keys /\ index = Home(key, capacity) /\ capacity \in Nat /\ capacity >= 2
      /\ keys \in [Range0(capacity) -> Keys \cup {NoKey}]
      /\ Home(key, capacity) \in Range0(capacity)
  BY DEF InsertKey, StageInv, TableType, Size
<1>3. Probeable(keys, capacity)
  BY <1>2 DEF FoundByProbing, Rebuilding
<1>4. \A j \in Range0(capacity) : keys[j] # key
  BY <1>1, <1>2, <1>3, AbsentKey
<1>5. /\ DOMAIN keys' = DOMAIN keys /\ keys'[i] = key /\ vals[i] = NoValue
      /\ \A j \in DOMAIN keys : j # i => keys'[j] = keys[j]
      /\ k # NoKey /\ DOMAIN keys = Range0(capacity)
  BY <1>1, <1>2, TableAssumption DEF EntryInv
<1>6. Distinct(keys) /\ Distinct(keys')
  BY InsertKeyStep DEF Distinct
<1>7. CASE k = key
  <2>1. StoredIn(keys', vals, k) = NoValue
    BY <1>5, <1>6, <1>7, StoredIs
  <2>2. StoredIn(keys, vals, k) = NoValue
    BY <1>4, <1>5, <1>7, StoredNot
  <2>3. QED
    BY <1>2, <2>1, <2>2, StoredMeans
<1>8. ASSUME NEW j \in DOMAIN keys, keys[j] = k PROVE Stored(k)' = Stored(k)
  <2>1. keys'[j] = k /\ keys[i] = NoKey
    BY <1>1, <1>5, <1>8
  <2>2. StoredIn(keys, vals, k) = vals[j] /\ StoredIn(keys', vals, k) = vals[j]
    BY <1>5, <1>6, <1>8, <2>1, StoredIs
  <2>3. QED
    BY <1>2, <2>2, StoredMeans
<1>9. ASSUME k # key, \A j \in DOMAIN keys : keys[j] # k PROVE Stored(k)' = Stored(k)
  <2>1. \A j \in DOMAIN keys' : keys'[j] # k
    BY <1>5, <1>9
  <2>2. StoredIn(keys, vals, k) = NoValue /\ StoredIn(keys', vals, k) = NoValue
    BY <1>9, <2>1, StoredNot
  <2>3. QED
    BY <1>2, <2>2, StoredMeans
<1>10. QED
  BY <1>7, <1>8, <1>9

\* The new array holds what the old one held.
LEMMA PublishStored ==
  ASSUME HInv, EntryInv, Publish, NEW k \in Keys
  PROVE  Stored(k)' = Stored(k)
<1> USE DEF HInv, TableInv
<1>1. /\ pc = "publish" /\ keys' = newKeys /\ vals' = newVals /\ cursor = capacity
      /\ Size = capacity /\ capacity \in Nat /\ DOMAIN keys = Range0(cursor)
      /\ Distinct(keys) /\ Distinct(newKeys) /\ k # NoKey
  <2>1. pc = "publish" /\ keys' = newKeys /\ vals' = newVals
    BY DEF Publish
  <2>2. newCapacity # 0 /\ cursor = capacity /\ Size = capacity
    BY <2>1 DEF StageInv, Size
  <2>3. Distinct(newKeys)
    BY <2>2 DEF FoundByProbing, Probeable, Distinct
  <2>4. QED
    BY <2>1, <2>2, <2>3, TableAssumption DEF TableType
<1>2. ASSUME NEW s \in DOMAIN keys, keys[s] = k PROVE Stored(k)' = Stored(k)
  <2>1. PICK i \in DOMAIN newKeys : newKeys[i] = k /\ newVals[i] = vals[s]
    BY <1>1, <1>2 DEF EntryInv
  <2>2. StoredIn(keys, vals, k) = vals[s] /\ StoredIn(newKeys, newVals, k) = vals[s]
    BY <1>1, <1>2, <2>1, StoredIs
  <2>3. QED
    BY <1>1, <2>2, StoredMeans
<1>3. ASSUME \A s \in DOMAIN keys : keys[s] # k PROVE Stored(k)' = Stored(k)
  <2>1. \A i \in DOMAIN newKeys : newKeys[i] # k
    BY <1>1, <1>3 DEF CopyInv
  <2>2. StoredIn(keys, vals, k) = NoValue /\ StoredIn(newKeys, newVals, k) = NoValue
    BY <1>3, <2>1, StoredNot
  <2>3. QED
    BY <1>1, <2>2, StoredMeans
<1>4. QED
  BY <1>2, <1>3

\* Where a removal takes effect.
LEMMA EraseStored ==
  ASSUME HInv, Erase, NEW k \in Keys
  PROVE  Stored(k)' = IF k = key THEN NoValue ELSE Stored(k)
<1> USE DEF HInv, TableInv
<1>1. PICK i \in DOMAIN keys :
        /\ pc = "seek" /\ keys[i] = key
        /\ keys' = [keys EXCEPT ![i] = NoKey] /\ vals' = [vals EXCEPT ![i] = NoValue]
  BY DEF Erase, FreeSlot
<1>2. /\ Distinct(keys) /\ DOMAIN vals = DOMAIN keys /\ k # NoKey
      /\ DOMAIN keys' = DOMAIN keys /\ keys'[i] = NoKey
      /\ \A j \in DOMAIN keys : j # i => keys'[j] = keys[j] /\ vals'[j] = vals[j]
  BY <1>1, TableAssumption DEF TableType
<1>3. Distinct(keys')
  BY <1>2 DEF Distinct
<1>4. CASE k = key
  <2>1. \A j \in DOMAIN keys' : keys'[j] # k
    BY <1>1, <1>2, <1>4 DEF Distinct
  <2>2. QED
    BY <1>4, <2>1, StoredNot, StoredMeans
<1>5. ASSUME k # key, NEW j \in DOMAIN keys, keys[j] = k PROVE Stored(k)' = Stored(k)
  <2>1. j # i /\ keys'[j] = k /\ vals'[j] = vals[j]
    BY <1>1, <1>2, <1>5
  <2>2. StoredIn(keys, vals, k) = vals[j] /\ StoredIn(keys', vals', k) = vals'[j]
    BY <1>2, <1>3, <1>5, <2>1, StoredIs
  <2>3. QED
    BY <2>1, <2>2, StoredMeans
<1>6. ASSUME \A j \in DOMAIN keys : keys[j] # k PROVE Stored(k)' = Stored(k)
  <2>1. \A j \in DOMAIN keys' : keys'[j] # k
    BY <1>2, <1>6
  <2>2. QED
    BY <1>6, <2>1, StoredNot, StoredMeans
<1>7. QED
  BY <1>1, <1>4, <1>5, <1>6

-----------------------------------------------------------------------------
(* EntryInv and TurnInv.                                                   *)

\* Steps that leave both arrays alone.
LEMMA EntryKept ==
  ASSUME EntryInv, UNCHANGED <<keys, vals, newKeys, newVals, cursor>>,
         pc' # "value",
         pc' \in {"copy", "publish"} => pc \in {"copy", "publish"},
         pc' \in {"set", "capacity"} \/ newCapacity' = 2 * capacity' => val' \in Values
  PROVE  EntryInv'
BY DEF EntryInv

LEMMA EntryAllocated ==
  ASSUME NEW cap \in Nat, Allocate(cap), pc' = "copy",
         \A i \in DOMAIN keys' : keys'[i] = NoKey => vals'[i] = NoValue,
         newCapacity' = 2 * capacity' => val' \in Values
  PROVE  EntryInv'
<1>1. /\ DOMAIN newKeys' = Range0(cap) /\ cursor' = 0
      /\ \A i \in Range0(cap) : newVals'[i] = NoValue
  BY AllocateFacts
<1>2. Range0(0) = {}
  BY DEF Range0
<1>3. QED
  BY <1>1, <1>2 DEF EntryInv

LEMMA EntryDiscarded ==
  ASSUME EntryInv, Discard, UNCHANGED <<keys, vals>>, pc' \in {"set", "seek"},
         newCapacity' # 2 * capacity', pc' = "set" => val' \in Values
  PROVE  EntryInv'
<1>1. newKeys' = <<>>
  BY DEF Discard
<1>2. DOMAIN newKeys' = {}
  BY <1>1
<1>3. QED
  BY <1>2 DEF EntryInv

LEMMA EntryBeginSet ==
  ASSUME HInv, EntryInv, NEW k \in Keys, NEW v \in Values, BeginSet(k, v)
  PROVE  EntryInv'
<1>1. UNCHANGED <<keys, vals, capacity>> /\ val' = v /\ capacity \in Nat
  BY DEF BeginSet, kind, items, HInv, TableInv, TableType
<1>2. CASE MustGrow
  <2>1. Allocate(2 * capacity) /\ pc' = "copy"
    BY <1>2 DEF BeginSet, Goes
  <2>2. 2 * capacity \in Nat
    BY <1>1
  <2>3. QED
    BY <1>1, <2>1, <2>2, EntryAllocated DEF EntryInv
<1>3. CASE ~MustGrow
  <2>1. UNCHANGED new /\ pc' = "set"
    BY <1>3 DEF BeginSet, Goes
  <2>2. QED
    BY <1>1, <2>1, EntryKept DEF new
<1>4. QED
  BY <1>2, <1>3

LEMMA EntryStoreValue ==
  ASSUME HInv, EntryInv, pc \in {"set", "value"}, NEW i \in DOMAIN keys,
         keys[i] = key, StoreValue(i)
  PROVE  EntryInv'
<1>1. /\ UNCHANGED <<keys, newCapacity, newKeys, newVals, cursor, capacity>> /\ pc' = "idle"
      /\ vals' = [vals EXCEPT ![i] = val]
  BY DEF StoreValue, Returns, new
<1>2. /\ key # NoKey /\ DOMAIN vals = DOMAIN keys /\ newCapacity # 2 * capacity
  BY TableAssumption DEF HInv, TableInv, TableType, StageInv
<1>3. \A j \in DOMAIN keys' : keys'[j] = NoKey => vals'[j] = NoValue
  BY <1>1, <1>2 DEF EntryInv
<1>4. QED
  BY <1>1, <1>2, <1>3 DEF EntryInv

LEMMA EntryInsertKey == ASSUME HInv, EntryInv, InsertKey PROVE EntryInv'
<1>1. PICK i \in DOMAIN keys : keys' = [keys EXCEPT ![i] = key] /\ index' = i
  BY DEF InsertKey
<1>2. /\ pc = "set" /\ pc' = "value"
      /\ UNCHANGED <<vals, newCapacity, newKeys, newVals, cursor, key, val, capacity>>
      /\ key # NoKey
  BY TableAssumption DEF InsertKey, Goes, new, HInv, TableInv, StageInv
<1>3. /\ keys'[index'] = key
      /\ \A j \in DOMAIN keys' : keys'[j] = NoKey => vals'[j] = NoValue
  BY <1>1, <1>2 DEF EntryInv
<1>4. QED
  BY <1>2, <1>3 DEF EntryInv

LEMMA EntryCopy == ASSUME HInv, EntryInv, Copy PROVE EntryInv'
<1> USE DEF HInv, TableInv
<1> DEFINE k == keys[cursor]
<1>1. /\ pc = "copy" /\ cursor < capacity /\ cursor' = cursor + 1
      /\ UNCHANGED <<capacity, keys, vals, newCapacity, pc, val>>
  BY DEF Copy, CopyNext, items, call
<1>2. /\ cursor \in Nat /\ newCapacity # 0 /\ DOMAIN newVals = DOMAIN newKeys
      /\ Range0(cursor') = Range0(cursor) \cup {cursor}
  BY <1>1 DEF StageInv, TableType, Range0
<1>3. CASE k = NoKey
  <2>1. UNCHANGED <<newKeys, newVals>>
    BY <1>3 DEF Copy
  <2>2. QED
    BY <1>1, <1>2, <1>3, <2>1 DEF EntryInv
<1>4. CASE k # NoKey
  <2>1. PICK i \in DOMAIN newKeys :
          /\ Ends(newKeys, k, Home(k, newCapacity), i)
          /\ newKeys' = [newKeys EXCEPT ![i] = k]
          /\ newVals' = [newVals EXCEPT ![i] = vals[cursor]]
    BY <1>4 DEF Copy, PutAt
  <2>2. /\ DOMAIN newKeys' = DOMAIN newKeys
        /\ newKeys'[i] = k /\ newVals'[i] = vals[cursor]
        /\ \A j \in DOMAIN newKeys : j # i =>
             newKeys'[j] = newKeys[j] /\ newVals'[j] = newVals[j]
    BY <1>2, <2>1
  <2>3. \A j \in DOMAIN newKeys' : newKeys'[j] = NoKey => newVals'[j] = NoValue
    BY <1>4, <2>2 DEF EntryInv
  <2>4. newKeys[i] = NoKey
    <3>1. ASSUME newKeys[i] = k PROVE FALSE
      <4>1. PICK s \in Range0(cursor) : keys[s] = k
        BY <1>1, <1>4, <3>1 DEF CopyInv
      <4>2. s \in DOMAIN keys /\ cursor \in DOMAIN keys /\ s # cursor
        BY <1>1, <1>2 DEF TableType, Range0, Size
      <4>3. QED
        BY <1>4, <4>1, <4>2 DEF Distinct
    <3>2. QED
      BY <2>1, <3>1 DEF Ends
  <2>5. ASSUME NEW s \in Range0(cursor'), keys'[s] # NoKey
        PROVE  \E j \in DOMAIN newKeys' : newKeys'[j] = keys'[s] /\ newVals'[j] = vals'[s]
    <3>1. CASE s = cursor
      BY <1>1, <2>2, <3>1
    <3>2. CASE s # cursor
      <4>1. PICK j \in DOMAIN newKeys : newKeys[j] = keys[s] /\ newVals[j] = vals[s]
        BY <1>1, <1>2, <2>5, <3>2 DEF EntryInv
      <4>2. j # i
        BY <1>1, <2>4, <2>5, <4>1
      <4>3. QED
        BY <1>1, <2>2, <4>1, <4>2
    <3>3. QED
      BY <3>1, <3>2
  <2>6. QED
    BY <1>1, <2>3, <2>5 DEF EntryInv
<1>5. QED
  BY <1>3, <1>4

LEMMA EntryErase == ASSUME HInv, EntryInv, Erase PROVE EntryInv'
<1> USE DEF HInv, TableInv
<1>1. PICK i \in DOMAIN keys : FreeSlot(i)
  BY DEF Erase
<1>2. /\ keys' = [keys EXCEPT ![i] = NoKey] /\ vals' = [vals EXCEPT ![i] = NoValue]
      /\ capacity' = capacity /\ Allocate(capacity) /\ pc' = "copy"
      /\ DOMAIN vals = DOMAIN keys
  BY <1>1 DEF Erase, FreeSlot, Goes, TableType
<1>3. capacity \in Nat /\ capacity >= 2
  BY DEF TableType
<1>4. newCapacity' # 2 * capacity'
  BY <1>2, <1>3, AllocateFacts
<1>5. \A j \in DOMAIN keys' : keys'[j] = NoKey => vals'[j] = NoValue
  BY <1>2 DEF EntryInv
<1>6. QED
  BY <1>2, <1>3, <1>4, <1>5, EntryAllocated

LEMMA EntryTable == ASSUME EntryInv, UNCHANGED table PROVE EntryInv'
BY DEF EntryInv, table, items, new, call

LEMMA EntryCall == ASSUME HInv, EntryInv, CallStep PROVE EntryInv'
<1> USE DEF HInv, TableInv
<1>1. capacity \in Nat /\ capacity >= 2
  BY DEF TableType
<1>2. CASE Update
  BY <1>2, EntryStoreValue DEF Update
<1>3. CASE InsertKey
  BY <1>3, EntryInsertKey
<1>4. CASE InsertValue
  <2>1. index \in DOMAIN keys /\ keys[index] = key
    BY <1>4 DEF InsertValue, EntryInv, TableType, Size
  <2>2. QED
    BY <1>4, <2>1, EntryStoreValue DEF InsertValue
<1>5. CASE Copy
  BY <1>5, EntryCopy
<1>6. CASE Free
  <2>1. /\ UNCHANGED <<capacity, keys, vals, newCapacity, newKeys, newVals, cursor, val>>
        /\ pc = "copy" /\ pc' = "publish"
    BY <1>6 DEF Free, Goes, items, new
  <2>2. newCapacity' = 2 * capacity' => val' \in Values
    BY <2>1 DEF EntryInv
  <2>3. QED
    BY <2>1, <2>2, EntryKept
<1>7. CASE Publish
  <2>1. /\ pc = "publish" /\ keys' = newKeys /\ vals' = newVals
        /\ pc' = (IF newCapacity > capacity THEN "capacity" ELSE "recount")
        /\ UNCHANGED <<capacity, newCapacity, newKeys, newVals, cursor, val>>
    BY <1>7 DEF Publish, Goes, new
  <2>2. pc' = "capacity" => newCapacity = 2 * capacity
    BY <1>1, <2>1 DEF TableType, StageInv
  <2>3. QED
    BY <2>1, <2>2 DEF EntryInv
<1>8. CASE SetCapacity
  <2>1. /\ pc = "capacity" /\ pc' = "set" /\ Discard /\ UNCHANGED <<keys, vals, val>>
        /\ capacity' = newCapacity
    BY <1>8 DEF SetCapacity, Goes, items
  <2>2. newCapacity' = 0 /\ capacity' = 2 * capacity /\ val' \in Values
    BY <2>1 DEF StageInv, EntryInv, Discard
  <2>3. newCapacity' # 2 * capacity'
    BY <1>1, <2>2
  <2>4. QED
    BY <2>1, <2>2, <2>3, EntryDiscarded
<1>9. CASE Erase
  BY <1>9, EntryErase
<1>10. CASE Recount
  <2>1. Discard /\ pc' = "seek" /\ UNCHANGED <<keys, vals, capacity>>
    BY <1>10 DEF Recount, Goes, items
  <2>2. newCapacity' # 2 * capacity'
    BY <1>1, <2>1 DEF Discard
  <2>3. QED
    BY <2>1, <2>2, EntryDiscarded
<1>11. CASE SeekEnds
  <2>1. /\ UNCHANGED <<capacity, keys, vals, newCapacity, newKeys, newVals, cursor>>
        /\ pc' = "idle" /\ pc = "seek"
    BY <1>11 DEF SeekEnds, Returns, items, new
  <2>2. newCapacity' # 2 * capacity'
    BY <1>1, <2>1 DEF StageInv
  <2>3. QED
    BY <2>1, <2>2, EntryKept
<1>12. QED
  BY <1>2, <1>3, <1>4, <1>5, <1>6, <1>7, <1>8, <1>9, <1>10, <1>11 DEF CallStep

LEMMA EntryBeginRemove ==
  ASSUME HInv, EntryInv, NEW k \in Keys, BeginRemove(k) PROVE EntryInv'
<1>1. /\ UNCHANGED <<capacity, keys, vals, newCapacity, newKeys, newVals, cursor>>
      /\ pc = "idle" /\ pc' = "seek"
  BY DEF BeginRemove, Idle, Goes, items, new
<1>2. newCapacity' # 2 * capacity'
  BY <1>1 DEF HInv, TableInv, TableType, StageInv
<1>3. QED
  BY <1>1, <1>2, EntryKept

\* In a private table the owner gets, or it does something else.
LEMMA TurnBegin == ASSUME HInv, TurnInv, Begin PROVE TurnInv'
<1>1. pc = "idle" /\ newCapacity = 0 /\ capacity \in Nat /\ capacity >= 2
      /\ (shared \/ at = "idle")
  BY DEF Begin, BeginSet, BeginRemove, Idle, HInv, TableInv, TableType, StageInv
<1>2. UNCHANGED <<shared, capacity, freed, at, answer, moved>>
  BY DEF Begin, BeginSet, BeginRemove, kind, gets, seen
<1>3. \/ pc' \in {"copy", "set"} /\ newCapacity' \in {0, 2 * capacity}
      \/ pc' = "seek" /\ newCapacity' = 0 /\ ~shared
  BY <1>1 DEF Begin, BeginSet, BeginRemove, Allocate, Goes, new
<1>4. QED
  BY <1>1, <1>2, <1>3 DEF TurnInv

LEMMA TurnCall == ASSUME HInv, TurnInv, CallStep PROVE TurnInv'
<1> USE DEF HInv, TableInv
<1>1. pc # "idle" /\ capacity \in Nat /\ capacity >= 2
  BY DEF CallStep, Update, InsertKey, InsertValue, Copy, CopyNext, Free, Publish,
         SetCapacity, Erase, FreeSlot, Recount, SeekEnds, TableType
<1>2. UNCHANGED <<shared, at, answer>>
  BY DEF CallStep, Update, InsertKey, InsertValue, StoreValue, Copy, CopyNext, Free,
         Publish, SetCapacity, Erase, FreeSlot, Recount, SeekEnds, kind, gets
<1>3. ~shared => at = "idle"
  BY <1>1 DEF TurnInv
<1>4. CASE ~shared
  <2>1. freed' = (pc' = "publish")
    BY <1>1 DEF CallStep, Update, InsertKey, InsertValue, StoreValue, Copy, CopyNext,
           Free, Publish, SetCapacity, Erase, FreeSlot, Recount, SeekEnds, kind, Goes,
           Returns, call, TurnInv
  <2>2. QED
    BY <1>2, <1>3, <1>4, <2>1 DEF TurnInv
<1>5. CASE shared
  <2>1. pc \notin {"seek", "recount"} /\ newCapacity # capacity
    BY <1>5 DEF TurnInv
  <2>2. CASE Update \/ InsertValue
    BY <1>1, <1>2, <2>1, <2>2 DEF Update, InsertValue, StoreValue, Returns, kind, new,
       TurnInv
  <2>3. CASE InsertKey
    BY <1>1, <1>2, <2>1, <2>3 DEF InsertKey, Goes, kind, new, TurnInv
  <2>4. CASE Copy
    BY <1>1, <1>2, <2>1, <2>4 DEF Copy, CopyNext, kind, call, TurnInv
  <2>5. CASE Free
    <3>1. /\ pc' = "publish" /\ freed' = TRUE
          /\ UNCHANGED <<capacity, newCapacity>>
      BY <2>5 DEF Free, Goes, new
    <3>2. QED
      BY <1>2, <1>5, <2>1, <3>1 DEF TurnInv
  <2>6. CASE Publish
    <3>1. newCapacity > capacity
      BY <1>1, <2>1, <2>6 DEF Publish, StageInv, TableType
    <3>2. QED
      <4>1. /\ pc' = "capacity" /\ freed' = FALSE
            /\ UNCHANGED <<capacity, newCapacity>>
        BY <2>6, <3>1 DEF Publish, Goes, new
      <4>2. QED
        BY <1>2, <1>5, <2>1, <4>1 DEF TurnInv
  <2>7. CASE SetCapacity
    <3>1. /\ pc' = "set" /\ newCapacity' = 0 /\ capacity' = 2 * capacity
          /\ UNCHANGED freed /\ pc = "capacity"
      BY <2>7 DEF SetCapacity, Goes, Discard, StageInv
    <3>2. newCapacity' # capacity'
      BY <1>1, <3>1
    <3>3. QED
      BY <1>2, <1>5, <3>1, <3>2 DEF TurnInv
  <2>8. CASE Erase \/ Recount \/ SeekEnds
    BY <2>1, <2>8 DEF Erase, FreeSlot, Recount, SeekEnds
  <2>9. QED
    BY <2>2, <2>3, <2>4, <2>5, <2>6, <2>7, <2>8 DEF CallStep
<1>6. QED
  BY <1>4, <1>5

-----------------------------------------------------------------------------
(* GetInv.                                                                 *)

\* A get that comes to a free slot has missed nothing, and one that comes to
\* its key answers with its value.
LEMMA AnswerFacts ==
  ASSUME FInv, at # "idle", ~moved
  PROVE  /\ at = "test" /\ keys[probe] = NoKey => Stored(want) = NoValue
         /\ at = "value" => Stored(want) = vals[probe]
<1> USE DEF FInv, HInv, TableInv
<1>1. /\ pc \notin {"publish", "capacity", "recount"} /\ want \in Keys /\ want # NoKey
      /\ capacity \in Nat /\ capacity >= 2 /\ probe \in Range0(capacity)
      /\ hash \in [Keys -> Nat]
  BY TableAssumption DEF GetInv, GetType, TableType
<1>2. keys \in [Range0(capacity) -> Keys \cup {NoKey}]
  BY <1>1 DEF TableType, Size
<1>3. newCapacity # capacity
  BY <1>1 DEF TurnInv, StageInv
<1>4. Probeable(keys, capacity)
  BY <1>1, <1>3 DEF FoundByProbing, Rebuilding
<1>5. Home(want, capacity) \in Range0(capacity)
  BY <1>1, HomeInRange DEF Home
<1>6. ASSUME at = "test", keys[probe] = NoKey PROVE Stored(want) = NoValue
  <2>1. Ends(keys, want, Home(want, capacity), probe)
    BY <1>2, <1>6 DEF Ends, GetInv
  <2>2. \A j \in Range0(capacity) : keys[j] # want
    BY <1>1, <1>2, <1>4, <1>5, <1>6, <2>1, AbsentKey
  <2>3. QED
    BY <1>2, <2>2, StoredNot, StoredMeans
<1>7. ASSUME at = "value" PROVE Stored(want) = vals[probe]
  <2>1. keys[probe] = want /\ probe \in DOMAIN keys
    BY <1>1, <1>2, <1>7 DEF GetInv
  <2>2. StoredIn(keys, vals, want) = vals[probe]
    BY <1>1, <2>1, StoredIs
  <2>3. QED
    BY <2>2, StoredMeans
<1>8. QED
  BY <1>6, <1>7

\* Steps of the owner that leave the array where it is.
LEMMA GetUnmoved ==
  ASSUME FInv, UNCHANGED <<hash, capacity, at, want, probe, base, answer, moved>>,
         pc' \notin {"publish", "capacity", "recount"},
         \A i \in DOMAIN keys : keys[i] # NoKey => keys'[i] = keys[i],
         \A i \in DOMAIN keys : keys[i] = NoKey /\ keys'[i] # NoKey =>
           /\ keys'[i] = key
           /\ want = key => ~OnTheWay(Home(want, capacity), probe, i),
         could \subseteq could',
         at # "idle" => Stored(want)' \in could' \cup {Stored(want)}
  PROVE  GetInv'
<1> SUFFICES ASSUME at # "idle", ~moved PROVE GetInv'
  BY DEF GetInv
<1>1. /\ pc \notin {"publish", "capacity", "recount"} /\ at # "wild" /\ base # "freed"
      /\ Stored(want) \in could
  BY DEF FInv, GetInv
<1>2. Stored(want)' \in could'
  BY <1>1
<1>3. DOMAIN keys = Range0(capacity) /\ probe \in DOMAIN keys
  BY <1>1 DEF FInv, HInv, TableInv, TableType, GetType, Size
<1>4. Home(want, capacity)' = Home(want, capacity)
  BY DEF Home
<1>5. ASSUME NEW s \in Range0(capacity), at \in {"test", "compare", "next"},
             OnTheWay(Home(want, capacity), probe, s)
      PROVE  keys'[s] \notin {NoKey, want}
  BY <1>3, <1>5 DEF FInv, GetInv
<1>6. at \in {"compare", "next", "value"} => keys'[probe] = keys[probe]
  BY <1>3, TableAssumption DEF FInv, HInv, GetInv, GetType
<1>7. QED
  BY <1>1, <1>2, <1>4, <1>5, <1>6 DEF FInv, GetInv

LEMMA GetCall == ASSUME FInv, CallStep, HInv' PROVE GetInv'
<1> USE DEF FInv, HInv, TableInv
<1>1. CASE at = "idle"
  <2>1. at' = at
    BY DEF CallStep, Update, InsertKey, InsertValue, StoreValue, Copy, CopyNext, Free,
           Publish, SetCapacity, Erase, FreeSlot, Recount, SeekEnds, gets
  <2>2. QED
    BY <1>1, <2>1 DEF GetInv
<1>2. CASE Free \/ Publish \/ SetCapacity
  <2>1. moved' = (at' # "idle")
    BY <1>2 DEF Free, Publish, SetCapacity, Moves, gets
  <2>2. QED
    BY <2>1 DEF GetInv
<1>3. CASE at # "idle" /\ (Erase \/ Recount \/ SeekEnds)
  BY <1>3 DEF TurnInv, Erase, FreeSlot, Recount, SeekEnds
<1>4. ASSUME at # "idle", pc \in {"set", "value"}, NEW i \in DOMAIN keys,
             keys[i] = key, StoreValue(i)
      PROVE  GetInv'
  <2>1. key \in Keys /\ want \in Keys
    BY <1>4 DEF StageInv, GetType
  <2>2. \A k \in Keys :
          StoredIn(keys', vals', k) = IF k = key THEN val ELSE StoredIn(keys, vals, k)
    BY <1>4, <2>1, StoreValueStored, StoredMeans
  <2>3. /\ UNCHANGED <<hash, capacity, at, want, probe, base, answer, moved, keys>>
        /\ pc' = "idle" /\ could' = IF want = key THEN could \cup {val} ELSE could
    BY <1>4 DEF StoreValue, Returns, kind, gets
  <2>4. Stored(want)' = IF want = key THEN val ELSE Stored(want)
    BY <2>1, <2>2, <2>3, StoredNow
  <2>5. QED
    BY <2>3, <2>4, GetUnmoved
<1>5. CASE at # "idle" /\ Update
  BY <1>4, <1>5 DEF Update
<1>6. CASE at # "idle" /\ InsertValue
  <2>1. index \in DOMAIN keys /\ keys[index] = key
    BY <1>6 DEF InsertValue, EntryInv, TableType, Size
  <2>2. QED
    BY <1>4, <1>6, <2>1 DEF InsertValue
<1>7. CASE at # "idle" /\ InsertKey
  <2>1. /\ UNCHANGED <<hash, capacity, at, want, probe, base, answer, moved, could>>
        /\ pc = "set" /\ pc' = "value"
    BY <1>7 DEF InsertKey, Goes, kind, gets, seen
  <2>2. PICK i \in DOMAIN keys :
          Ends(keys, key, index, i) /\ keys[i] = NoKey /\ keys' = [keys EXCEPT ![i] = key]
    BY <1>7 DEF InsertKey
  <2>3. /\ want \in Keys /\ index = Home(key, capacity) /\ capacity \in Nat
        /\ DOMAIN keys = Range0(capacity) /\ probe \in Range0(capacity)
    BY <1>7, <2>1 DEF StageInv, GetType, TableType, Size
  <2>4. Stored(want)' = Stored(want)
    <3>1. \A k \in Keys : StoredIn(keys', vals', k) = StoredIn(keys, vals, k)
      BY <1>7, InsertKeyStored, StoredMeans
    <3>2. QED
      BY <2>1, <2>3, <3>1, StoredNow
  <2>5. \A j \in DOMAIN keys : keys'[j] = IF j = i THEN key ELSE keys[j]
    BY <2>2
  <2>6. QED
    <3>1. CASE moved
      BY <2>1, <3>1 DEF GetInv
    <3>2. CASE at \in {"test", "compare", "next"} /\ ~moved
      <4>1. ~OnTheWay(Home(want, capacity), probe, i)
        BY <2>2, <2>3, <3>2, <1>7 DEF GetInv
      <4>2. QED
        BY <2>1, <2>2, <2>4, <2>5, <4>1, GetUnmoved
    <3>3. CASE at \notin {"test", "compare", "next"} /\ ~moved
      <4>1. Home(want, capacity)' = Home(want, capacity)
        BY <2>1 DEF Home
      <4>2. at = "value" => keys'[probe] = want
        BY <1>7, <2>2, <2>3, <2>5, <3>3, TableAssumption DEF GetInv
      <4>3. QED
        BY <1>7, <2>1, <2>4, <3>3, <4>2 DEF GetInv
    <3>4. QED
      BY <3>1, <3>2, <3>3
<1>8. CASE at # "idle" /\ Copy
  <2>1. /\ UNCHANGED <<hash, capacity, at, want, probe, base, answer, moved, could, keys, vals, pc>>
        /\ pc = "copy"
    BY <1>8 DEF Copy, CopyNext, kind, items, call, gets, seen
  <2>2. Stored(want)' = Stored(want)
    BY <2>1, StoredNow
  <2>3. QED
    BY <2>1, <2>2, GetUnmoved
<1>9. QED
  BY <1>1, <1>2, <1>3, <1>5, <1>6, <1>7, <1>8 DEF CallStep

LEMMA GetBegin == ASSUME FInv, Begin PROVE GetInv'
<1>1. /\ UNCHANGED <<hash, capacity, at, want, probe, base, answer, moved, could, keys, vals>>
      /\ pc' \in {"copy", "set", "seek"}
  BY DEF Begin, BeginSet, BeginRemove, Goes, kind, items, gets, seen
<1>2. Stored(want)' = Stored(want)
  BY <1>1, StoredNow
<1>3. QED
  BY <1>1, <1>2, GetUnmoved

\* Each step of a get, with what it leaves alone.
LEMMA GetStepFacts ==
  ASSUME FInv, UNCHANGED table
  PROVE  /\ UNCHANGED <<hash, shared, capacity, newCapacity, keys, vals, pc, freed>>
         /\ Stored(want) = StoredIn(keys, vals, want)
         /\ want' = want => Stored(want)' = Stored(want)
         /\ want' = want => Home(want, capacity)' = Home(want, capacity)
         /\ at # "idle" => want \in Keys
         /\ capacity \in Nat /\ capacity >= 2 /\ probe \in Range0(capacity)
         /\ hash \in [Keys -> Nat]
<1>1. UNCHANGED <<hash, shared, capacity, newCapacity, keys, vals, pc, freed>>
  BY DEF table, kind, items, new, call
<1>2. want' = want => Stored(want)' = Stored(want)
  BY <1>1, StoredNow
<1>3. want' = want => Home(want, capacity)' = Home(want, capacity)
  BY <1>1 DEF Home
<1>4. QED
  BY <1>1, <1>2, <1>3, StoredNow DEF FInv, HInv, TableInv, TableType, GetType

LEMMA TurnGet ==
  ASSUME FInv, GetStep \/ \E k \in Keys : BeginGet(k)
  PROVE  TurnInv'
<1>1. UNCHANGED table /\ GetType'
  BY GetSteps DEF FInv
<1>2. UNCHANGED <<shared, pc, newCapacity, capacity, freed>>
  BY <1>1, GetStepFacts
<1>3. CASE GetStep
  <2>1. at # "idle" /\ (moved' = moved \/ at' = "idle")
    BY <1>3 DEF GetStep, Load, Test, Compare, Advance, Value, Stray, Return, Access,
       seen, FInv, HInv, GetType
  <2>2. \/ at' # "done" /\ ((answer' = answer /\ at # "done") \/ answer' = Nothing)
        \/ at' = "done" /\ answer' \in [key : Keys, value : Values \cup {NoValue}]
    <3>1. CASE Test \/ Value
      <4>1. CASE Test
        BY <1>1, <2>1, <4>1, GetStepFacts DEF Test, Access, Answers
      <4>2. CASE Value
        <5>1. /\ at' = "done" /\ answer' = [key |-> want, value |-> vals[probe]]
              /\ at = "value" /\ want \in Keys
          BY <1>1, <2>1, <4>2, GetStepFacts DEF Value, Access, Answers
        <5>2. vals[probe] \in Values \cup {NoValue}
          <6>1. probe \in Range0(Size) /\ vals \in [Range0(Size) -> Values \cup {NoValue}]
            BY WiderRange DEF FInv, HInv, TableInv, TableType, GetType, StageInv, Size
          <6>2. QED
            BY <6>1
        <5>3. QED
          BY <5>1, <5>2
      <4>3. QED
        BY <3>1, <4>1, <4>2
    <3>2. CASE Load \/ Compare \/ Advance \/ Stray \/ Return
      BY <3>2 DEF Load, Compare, Advance, Stray, Return, Access, FInv, HInv, GetType
    <3>3. QED
      BY <1>3, <3>1, <3>2 DEF GetStep
  <2>3. QED
    BY <1>2, <2>1, <2>2 DEF FInv, TurnInv
<1>4. ASSUME NEW k \in Keys, BeginGet(k) PROVE TurnInv'
  <2>1. /\ at = "idle" /\ at' = "test" /\ answer' = answer
        /\ shared \/ (pc = "idle" /\ ~moved')
    BY <1>4 DEF BeginGet
  <2>2. QED
    BY <1>2, <2>1 DEF FInv, TurnInv
<1>5. QED
  BY <1>3, <1>4

LEMMA GetGet ==
  ASSUME FInv, GetStep \/ \E k \in Keys : BeginGet(k)
  PROVE  GetInv'
<1> USE DEF FInv
<1>1. UNCHANGED table /\ GetType'
  BY GetSteps
<1>2. /\ UNCHANGED <<hash, shared, capacity, newCapacity, keys, vals, pc, freed>>
      /\ at # "idle" => want \in Keys
      /\ capacity \in Nat /\ capacity >= 2 /\ probe \in Range0(capacity)
      /\ hash \in [Keys -> Nat]
      /\ want' = want => Stored(want)' = Stored(want)
      /\ want' = want => Home(want, capacity)' = Home(want, capacity)
  BY <1>1, GetStepFacts
<1>3. ASSUME NEW k \in Keys, BeginGet(k) PROVE GetInv'
  <2>1. /\ at = "idle" /\ at' = "test" /\ want' = k /\ probe' = Home(k, capacity)
        /\ moved' = (pc \in {"publish", "capacity"}) /\ could' = {Stored(k)}
        /\ shared \/ pc = "idle"
        /\ base' = base
    BY <1>3 DEF BeginGet
  <2>2. base = "none" /\ pc # "recount"
    BY <2>1 DEF HInv, GetType, TurnInv
  <2>3. Stored(want)' = StoredIn(keys, vals, k) /\ Stored(k) = StoredIn(keys, vals, k)
    BY <1>2, <2>1, StoredNow, StoredMeans
  <2>4. Home(want, capacity)' = Home(k, capacity)
    BY <1>2, <2>1 DEF Home
  <2>5. Home(k, capacity) \in Nat
    BY <1>2, HomeInRange DEF Home, Range0
  <2>6. \A s \in Range0(capacity) : ~OnTheWay(Home(k, capacity), Home(k, capacity), s)
    BY <2>5 DEF OnTheWay, Range0
  <2>7. QED
    BY <1>2, <2>1, <2>2, <2>3, <2>4, <2>6 DEF GetInv
<1>4. CASE Return
  BY <1>4 DEF Return, GetInv
<1>5. CASE moved /\ GetStep /\ ~Return
  <2>1. moved' = moved
    BY <1>5 DEF GetStep, Load, Test, Compare, Advance, Value, Stray, seen
  <2>2. QED
    BY <1>5, <2>1 DEF GetInv
<1>6. ASSUME ~moved, at # "idle", want' = want, could' = could
      PROVE  /\ pc' \notin {"publish", "capacity", "recount"} /\ ~freed
             /\ Stored(want)' \in could'
             /\ Home(want, capacity)' = Home(want, capacity)
  BY <1>2, <1>6 DEF GetInv, TurnInv
<1>7. CASE ~moved /\ Load
  <2>1. /\ at \in {"test", "compare", "value"}
        /\ want' = want /\ could' = could /\ moved' = moved /\ at' = at
        /\ probe' = probe /\ answer' = answer /\ base' = IF freed THEN "freed" ELSE "live"
    BY <1>7 DEF Load, seen
  <2>2. QED
    BY <1>2, <1>6, <1>7, <2>1 DEF GetInv
<1>8. CASE ~moved /\ Test
  <2>1. /\ at = "test" /\ base' = "none"
        /\ want' = want /\ could' = could /\ moved' = moved /\ probe' = probe
        /\ \/ keys[probe] = NoKey /\ at' = "done" /\ answer'.value = NoValue
           \/ keys[probe] # NoKey /\ at' = "compare"
    BY <1>8 DEF Test, Access, Answers, seen
  <2>2. keys[probe] = NoKey => Stored(want) = NoValue
    BY <1>8, <2>1, AnswerFacts
  <2>3. QED
    BY <1>2, <1>6, <1>8, <2>1, <2>2 DEF GetInv
<1>9. CASE ~moved /\ Compare
  <2>1. /\ at = "compare" /\ base' = "none"
        /\ want' = want /\ could' = could /\ moved' = moved /\ probe' = probe
        /\ keys[probe] # NoKey => \/ keys[probe] = want /\ at' = "value"
                                  \/ keys[probe] # want /\ at' = "next"
    BY <1>9 DEF Compare, Access, seen
  <2>2. keys[probe] # NoKey
    BY <1>9, <2>1 DEF GetInv
  <2>3. QED
    BY <1>2, <1>6, <1>9, <2>1, <2>2 DEF GetInv
<1>10. CASE ~moved /\ Advance
  <2>1. /\ at = "next" /\ at' = "test" /\ base' = base /\ probe' = After(probe, capacity)
        /\ want' = want /\ could' = could /\ moved' = moved
    BY <1>10 DEF Advance, seen
  <2>2. keys[probe] \notin {NoKey, want}
    BY <1>10, <2>1 DEF GetInv
  <2>3. Home(want, capacity) \in Range0(capacity)
    BY <1>2, <2>1, HomeInRange DEF Home
  <2>4. \A s \in Range0(capacity) :
          OnTheWay(Home(want, capacity), After(probe, capacity), s) =>
            s = probe \/ OnTheWay(Home(want, capacity), probe, s)
    BY <1>2, <2>3 DEF OnTheWay, After, Range0
  <2>5. base # "freed"
    BY <1>10, <2>1 DEF GetInv
  <2>6. QED
    BY <1>2, <1>6, <1>10, <2>1, <2>2, <2>4, <2>5 DEF GetInv
<1>11. CASE ~moved /\ Value
  <2>1. /\ at = "value" /\ at' = "done" /\ base' = "none" /\ answer'.value = vals[probe]
        /\ want' = want /\ could' = could /\ moved' = moved /\ probe' = probe
    BY <1>11 DEF Value, Access, Answers, seen
  <2>2. Stored(want) = vals[probe]
    BY <1>11, <2>1, AnswerFacts
  <2>3. QED
    BY <1>2, <1>6, <1>11, <2>1, <2>2 DEF GetInv
<1>12. CASE ~moved /\ Stray
  BY <1>12 DEF Stray, GetInv, HInv, GetType
<1>13. QED
  BY <1>3, <1>4, <1>5, <1>7, <1>8, <1>9, <1>10, <1>11, <1>12 DEF GetStep

-----------------------------------------------------------------------------
LEMMA FInvInit == Init => FInv
<1> SUFFICES ASSUME Init PROVE FInv
  OBVIOUS
<1>1. HInv
  BY InvInit
<1>2. /\ DOMAIN keys = Range0(InitialCapacity)
      /\ \A i \in Range0(InitialCapacity) : vals[i] = NoValue
      /\ InitialCapacity \in Nat /\ InitialCapacity >= 2
  BY EmptyFacts, TableAssumption DEF Init
<1>3. newKeys = <<>> /\ DOMAIN <<>> = {}
  BY DEF Init
<1>4. \A i \in DOMAIN newKeys : newKeys[i] = NoKey => newVals[i] = NoValue
  BY <1>3
<1>5. newCapacity # 2 * capacity /\ newCapacity # capacity
  BY <1>2 DEF Init
<1>6. EntryInv
  BY <1>2, <1>4, <1>5 DEF Init, EntryInv
<1>7. TurnInv /\ GetInv
  BY <1>5 DEF Init, TurnInv, GetInv
<1>8. QED
  BY <1>1, <1>6, <1>7 DEF FInv

LEMMA FInvNext == FInv /\ [Next]_vars => FInv'
<1> SUFFICES ASSUME FInv, [Next]_vars PROVE FInv'
  OBVIOUS
<1> USE DEF FInv
<1>1. HInv'
  BY HInvNext
<1>2. CASE Begin
  <2>1. EntryInv'
    <3>1. ASSUME NEW e \in Entries, BeginSet(e[1], e[2]) PROVE EntryInv'
      <4>1. e[1] \in Keys /\ e[2] \in Values
        BY TableAssumption
      <4>2. QED
        BY <3>1, <4>1, EntryBeginSet
    <3>2. QED
      BY <1>2, <3>1, EntryBeginRemove DEF Begin
  <2>2. QED
    BY <1>1, <1>2, <2>1, TurnBegin, GetBegin
<1>3. CASE CallStep
  BY <1>1, <1>3, EntryCall, TurnCall, GetCall
<1>4. CASE GetStep \/ \E k \in Keys : BeginGet(k)
  BY <1>1, <1>4, GetSteps, EntryTable, TurnGet, GetGet
<1>5. CASE UNCHANGED vars
  <2>1. /\ UNCHANGED table /\ UNCHANGED <<shared, pc, newCapacity, capacity, freed>>
        /\ UNCHANGED <<at, want, probe, base, answer, moved, could>>
    BY <1>5 DEF vars, table, kind, new, call, gets, seen
  <2>2. EntryInv' /\ TurnInv'
    BY <2>1, EntryTable DEF TurnInv
  <2>3. GetInv'
    BY <2>1, GetStepFacts DEF GetInv, table, items, kind
  <2>4. QED
    BY <1>1, <2>2, <2>3
<1>6. QED
  BY <1>2, <1>3, <1>4, <1>5 DEF Next

THEOREM FullInvariant == Spec => []FInv
BY FInvInit, FInvNext, PTL DEF Spec

\* A get without a lock goes wrong only if the array is freed or replaced while
\* it runs: otherwise it reads no freed memory and no missing key, and answers
\* with a value its key had meanwhile (sniffing.c:70, 240, hashmap.c:179-191).
THEOREM RightUnlessTheArrayMoves == Spec => []RightUnlessMoved
<1>1. FInv => RightUnlessMoved
  BY DEF FInv, GetInv, TurnInv, RightUnlessMoved, HInv, GetType
<1>2. QED
  BY <1>1, FullInvariant, PTL

-----------------------------------------------------------------------------
(* The table implements Dictionary.                                        *)

Dict == [k \in Keys |-> Stored(k)]
Found == IF shared THEN Nothing ELSE answer

\* Steps in which nothing is set or removed.
LEMMA DictKept ==
  ASSUME \A k \in Keys : Stored(k)' = Stored(k)
  PROVE  Dict' = Dict
BY DEF Dict

LEMMA SetMaps ==
  ASSUME FInv, pc \in {"set", "value"}, NEW i \in DOMAIN keys, keys[i] = key,
         StoreValue(i)
  PROVE  Dict' = [Dict EXCEPT ![key] = val] /\ key \in Keys /\ val \in Values
         /\ Found' = Found
<1>1. key \in Keys /\ val \in Values
  BY DEF FInv, HInv, TableInv, StageInv, EntryInv
<1>2. \A k \in Keys : Stored(k)' = IF k = key THEN val ELSE Stored(k)
  BY <1>1, StoreValueStored DEF FInv
<1>3. Dict' = [Dict EXCEPT ![key] = val]
  BY <1>1, <1>2 DEF Dict
<1>4. Found' = Found
  BY DEF StoreValue, Found, kind, gets
<1>5. QED
  BY <1>1, <1>3, <1>4

LEMMA EraseMaps ==
  ASSUME FInv, Erase
  PROVE  Dict' = [Dict EXCEPT ![key] = NoValue] /\ key \in Keys /\ Found' = Found
<1>1. key \in Keys
  BY DEF FInv, HInv, TableInv, StageInv, Erase, FreeSlot
<1>2. \A k \in Keys : Stored(k)' = IF k = key THEN NoValue ELSE Stored(k)
  BY EraseStored DEF FInv
<1>3. Dict' = [Dict EXCEPT ![key] = NoValue]
  BY <1>2 DEF Dict
<1>4. Found' = Found
  BY DEF Erase, FreeSlot, Found, kind, gets
<1>5. QED
  BY <1>1, <1>3, <1>4

\* A get of the owner takes effect where its answer is found.
LEMMA GetMaps ==
  ASSUME FInv, GetStep \/ \E k \in Keys : BeginGet(k)
  PROVE  /\ Dict' = Dict
         /\ \/ Found' = Found
            \/ /\ Found = Nothing
               /\ \E k \in Keys : Found' = [key |-> k, value |-> Dict[k]]
            \/ Found # Nothing /\ Found' = Nothing
<1>1. UNCHANGED table
  BY GetSteps DEF FInv
<1>2. UNCHANGED <<shared, keys, vals>> /\ (at # "idle" => want \in Keys)
  BY <1>1, GetStepFacts
<1>3. Dict' = Dict
  BY <1>2, StoredSame, DictKept
<1>4. CASE shared
  BY <1>2, <1>3, <1>4 DEF Found
<1>5. CASE ~shared /\ (Test \/ Value)
  <2>1. at \in {"test", "value"} /\ ~moved /\ answer = Nothing /\ want \in Keys
    BY <1>2, <1>5 DEF Test, Value, Access, FInv, TurnInv
  <2>2. \/ answer' = answer
        \/ answer' = [key |-> want, value |-> Stored(want)]
    BY <1>5, <2>1, AnswerFacts DEF Test, Value, Access, Answers
  <2>3. Stored(want) = Dict[want]
    BY <2>1 DEF Dict, Stored, Holds
  <2>4. QED
    BY <1>2, <1>3, <1>5, <2>1, <2>2, <2>3 DEF Found
<1>6. CASE Return
  <2>1. at = "done" /\ answer' = Nothing
    BY <1>6 DEF Return
  <2>2. answer # Nothing
    BY <2>1, TableAssumption DEF FInv, TurnInv
  <2>3. QED
    BY <1>2, <1>3, <2>1, <2>2 DEF Found
<1>7. CASE Load \/ Compare \/ Advance \/ Stray \/ \E k \in Keys : BeginGet(k)
  BY <1>2, <1>3, <1>7 DEF Load, Compare, Advance, Stray, BeginGet, Found
<1>8. QED
  BY <1>4, <1>5, <1>6, <1>7 DEF GetStep

LEMMA AbstractInit == Init => Abstract!Init
<1> SUFFICES ASSUME Init PROVE Abstract!Init
  OBVIOUS
<1>1. DOMAIN keys = Range0(InitialCapacity)
      /\ \A i \in Range0(InitialCapacity) : keys[i] = NoKey
  BY EmptyFacts, TableAssumption DEF Init
<1>2. ASSUME NEW k \in Keys PROVE Stored(k) = NoValue
  <2>1. \A i \in DOMAIN keys : keys[i] # k
    BY <1>1, TableAssumption
  <2>2. QED
    BY <2>1, StoredNot, StoredMeans
<1>3. QED
  BY <1>2 DEF Init, Abstract!Init

LEMMA AbstractStep == FInv /\ [Next]_vars => [Abstract!Next]_<<Dict, Found>>
<1> SUFFICES ASSUME FInv, [Next]_vars PROVE [Abstract!Next]_<<Dict, Found>>
  OBVIOUS
<1>1. ASSUME \A k \in Keys : Stored(k)' = Stored(k), UNCHANGED <<shared, answer>>
      PROVE  UNCHANGED <<Dict, Found>>
  BY <1>1, DictKept DEF Found
<1>2. ASSUME UNCHANGED <<shared, answer, keys, vals>>
      PROVE  UNCHANGED <<Dict, Found>>
  BY <1>1, <1>2, StoredSame
<1>3. ASSUME pc \in {"set", "value"}, NEW i \in DOMAIN keys, keys[i] = key, StoreValue(i)
      PROVE  Abstract!Next
  <2>1. Abstract!Set(key, val) /\ key \in Keys /\ val \in Values
    BY <1>3, SetMaps DEF Abstract!Set, Dict, Found
  <2>2. QED
    BY <2>1 DEF Abstract!Next
<1>4. CASE Begin
  BY <1>2, <1>4 DEF Begin, BeginSet, BeginRemove, kind, items, gets
<1>5. CASE Update
  BY <1>3, <1>5 DEF Update
<1>6. CASE InsertValue
  <2>1. index \in DOMAIN keys /\ keys[index] = key
    BY <1>6 DEF InsertValue, FInv, HInv, TableInv, EntryInv, TableType, Size
  <2>2. QED
    BY <1>3, <1>6, <2>1 DEF InsertValue
<1>7. CASE InsertKey
  BY <1>1, <1>7, InsertKeyStored DEF InsertKey, FInv, kind, gets
<1>8. CASE Publish
  BY <1>1, <1>8, PublishStored DEF Publish, FInv, kind, gets
<1>9. CASE Erase
  <2>1. Abstract!Remove(key) /\ key \in Keys
    BY <1>9, EraseMaps DEF Abstract!Remove, Dict, Found
  <2>2. QED
    BY <2>1 DEF Abstract!Next
<1>10. CASE Copy \/ Free \/ SetCapacity \/ Recount \/ SeekEnds
  BY <1>2, <1>10 DEF Copy, CopyNext, Free, SetCapacity, Recount, SeekEnds, kind, items,
     gets
<1>11. CASE GetStep \/ \E k \in Keys : BeginGet(k)
  <2>1. CASE Found' = Found
    BY <1>11, <2>1, GetMaps
  <2>2. ASSUME NEW k \in Keys, Found = Nothing, Found' = [key |-> k, value |-> Dict[k]]
        PROVE  Abstract!Next
    <3>1. Abstract!Get(k)
      BY <1>11, <2>2, GetMaps DEF Abstract!Get, Dict, Found
    <3>2. QED
      BY <3>1 DEF Abstract!Next
  <2>3. CASE Found # Nothing /\ Found' = Nothing
    <3>1. Abstract!Return
      BY <1>11, <2>3, GetMaps DEF Abstract!Return, Dict, Found
    <3>2. QED
      BY <3>1 DEF Abstract!Next
  <2>4. QED
    BY <1>11, <2>1, <2>2, <2>3, GetMaps
<1>12. CASE UNCHANGED vars
  BY <1>2, <1>12 DEF vars, table, kind, items, gets
<1>13. QED
  BY <1>4, <1>5, <1>6, <1>7, <1>8, <1>9, <1>10, <1>11, <1>12 DEF Next, CallStep

\* For its owner the hash table is a map, for every hash function: rehashes
\* and the rebuilding after a removal change nothing, and a get answers with
\* what was set last (hashmap.h:24-37).
THEOREM TableImplementsDictionary == Spec => ImplementsDictionary
<1>1. [Abstract!Next]_<<Dict, Found>> =>
        [Abstract!Next]_<<[k \in Keys |-> Stored(k)], IF shared THEN Nothing ELSE answer>>
  BY DEF Dict, Found
<1>2. QED
  BY <1>1, AbstractInit, AbstractStep, FInvInit, FInvNext, PTL
     DEF Spec, ImplementsDictionary, Abstract!Spec

-----------------------------------------------------------------------------
(* The iterator and the filter.                                            *)

ScanFrom(f, i) ==
  IF i = 0 THEN <<>>
  ELSE IF keys[i - 1] = NoKey THEN f[i - 1]
  ELSE Append(f[i - 1], keys[i - 1])

\* The function that Iterated computes.
Scan == CHOOSE f : f = [i \in 0..capacity |-> ScanFrom(f, i)]

SlotsType == capacity \in Nat /\ keys \in [Range0(capacity) -> Keys \cup {NoKey}]

\* It exists: what is visited next follows from what has been visited.
LEMMA ScanDef ==
  ASSUME SlotsType
  PROVE  \A i \in 0..capacity : Scan[i] = ScanFrom(Scan, i)
<1> DEFINE V == Seq(Keys)
           e == <<>>
           Add(s, k) == IF k = NoKey THEN s ELSE Append(s, k)
           step == [i \in 0..capacity |-> [s \in V |-> IF i = 0 THEN s ELSE Add(s, keys[i - 1])]]
<1>1. e \in V /\ 0 \in Nat /\ capacity \in Nat /\ 0 <= capacity
  BY EmptySeq DEF SlotsType
<1>2. ASSUME NEW i \in 0..capacity, NEW s \in V
      PROVE  /\ step[i][s] = (IF i = 0 THEN s ELSE Add(s, keys[i - 1]))
             /\ step[i][s] \in V
  <2>1. step[i][s] = IF i = 0 THEN s ELSE Add(s, keys[i - 1])
    OBVIOUS
  <2>2. ASSUME i # 0, keys[i - 1] # NoKey
        PROVE  Append(s, keys[i - 1]) \in V
    <3>1. i - 1 \in Range0(capacity)
      BY <1>1, <2>2 DEF Range0
    <3>2. keys[i - 1] \in Keys
      BY <2>2, <3>1 DEF SlotsType
    <3>3. QED
      BY <3>2, AppendProperties
  <2> HIDE DEF V
  <2>3. QED
    BY <2>1, <2>2
<1> HIDE DEF step
<1>3. PICK f \in [0..capacity -> V] : Recursive(f, 0, capacity, e, step)
  <2>1. StepWithin(step, 0, capacity, V)
    <3> HIDE DEF V
    <3> QED
      BY <1>2 DEF StepWithin
  <2> HIDE DEF V, e
  <2>2. QED
    BY <1>1, <2>1, RecursiveFunction
<1> HIDE DEF V
<1>4. ASSUME NEW i \in 0..capacity
      PROVE  f[i] = ScanFrom(f, i)
  <2>1. CASE i = 0
    BY <1>3, <2>1 DEF Recursive, ScanFrom
  <2>2. CASE i # 0
    <3>1. i - 1 \in 0..capacity
      BY <1>1, <2>2
    <3>2. f[i - 1] \in V
      BY <1>3, <3>1
    <3>3. f[i] = step[i][f[i - 1]]
      BY <1>3, <2>2 DEF Recursive
    <3>4. step[i][f[i - 1]] = Add(f[i - 1], keys[i - 1])
      BY <1>2, <2>2, <3>2
    <3>5. QED
      BY <2>2, <3>3, <3>4 DEF ScanFrom
  <2>3. QED
    BY <2>1, <2>2
<1>5. f = [i \in 0..capacity |-> ScanFrom(f, i)]
  <2>1. f = [i \in 0..capacity |-> f[i]]
    BY <1>3
  <2> HIDE DEF ScanFrom
  <2>2. QED
    BY <1>4, <2>1
<1>6. Scan = [i \in 0..capacity |-> ScanFrom(Scan, i)]
  <2> HIDE DEF ScanFrom
  <2> QED
    BY <1>5 DEF Scan
<1>7. PICK g : g = Scan
  OBVIOUS
<1>8. g = [i \in 0..capacity |-> ScanFrom(g, i)]
  BY <1>6, <1>7
<1>9. \A i \in 0..capacity : g[i] = ScanFrom(g, i)
  <2> HIDE DEF ScanFrom
  <2> QED
    BY <1>8
<1>10. QED
  BY <1>7, <1>9

\* The slots before i, and the keys in them.
Before(i) == {s \in Range0(i) : keys[s] # NoKey}

\* After i slots every key in them has been visited once, and nothing else.
ScannedTo(i) ==
  /\ Scan[i] \in Seq(Keys)
  /\ Len(Scan[i]) = Cardinality(Before(i))
  /\ \A n \in 1..Len(Scan[i]) : \E s \in Before(i) : keys[s] = Scan[i][n]
  /\ \A s \in Before(i) : \E n \in 1..Len(Scan[i]) : Scan[i][n] = keys[s]
  /\ \A n, m \in 1..Len(Scan[i]) : Scan[i][n] = Scan[i][m] => n = m

LEMMA ScanFacts ==
  ASSUME SlotsType, Distinct(keys)
  PROVE  ScannedTo(capacity)
<1> DEFINE T == {i \in Nat : i <= capacity => ScannedTo(i)}
<1>1. capacity \in Nat /\ \A s \in Range0(capacity) : keys[s] \in Keys \cup {NoKey}
  BY DEF SlotsType
<1>2. 0 \in T
  <2>1. Scan[0] = <<>>
    BY <1>1, ScanDef DEF ScanFrom
  <2>2. Before(0) = {}
    BY DEF Before, Range0
  <2>3. Scan[0] \in Seq(Keys) /\ Len(Scan[0]) = 0 /\ Cardinality(Before(0)) = 0
    BY <2>1, <2>2, EmptySeq, FS_EmptySet
  <2>4. ScannedTo(0)
    BY <2>2, <2>3 DEF ScannedTo
  <2> HIDE DEF ScannedTo
  <2>5. QED
    BY <2>4
<1>3. ASSUME NEW i \in 0..(capacity - 1), i \in T
      PROVE  i + 1 \in T
  <2>0. i \in Nat /\ i + 1 \in 0..capacity /\ i + 1 # 0 /\ (i + 1) - 1 = i /\ i \in Range0(capacity)
    BY <1>1 DEF Range0
  <2>1. ScannedTo(i)
    <3> HIDE DEF ScannedTo
    <3> QED
      BY <1>1, <1>3, <2>0
  <2>2. Range0(i + 1) = Range0(i) \cup {i} /\ i \notin Range0(i)
    BY <2>0 DEF Range0
  <2>3. Scan[i + 1] = IF keys[i] = NoKey THEN Scan[i] ELSE Append(Scan[i], keys[i])
    <3>1. Scan[i + 1] = ScanFrom(Scan, i + 1)
      BY <2>0, ScanDef
    <3>2. QED
      BY <2>0, <3>1 DEF ScanFrom
  <2>4. ScannedTo(i + 1)
    <3>1. CASE keys[i] = NoKey
      <4>1. Before(i + 1) = Before(i) /\ Scan[i + 1] = Scan[i]
        BY <2>2, <2>3, <3>1 DEF Before
      <4>2. QED
        BY <2>1, <4>1 DEF ScannedTo
    <3>2. CASE keys[i] # NoKey
      <4> DEFINE u == Scan[i]
                 v == Append(u, keys[i])
                 m == Len(u)
      <4>1. /\ u \in Seq(Keys) /\ m = Cardinality(Before(i))
            /\ \A n \in 1..m : \E s \in Before(i) : keys[s] = u[n]
            /\ \A s \in Before(i) : \E n \in 1..m : u[n] = keys[s]
            /\ \A n, k \in 1..m : u[n] = u[k] => n = k
        BY <2>1 DEF ScannedTo
      <4>2. keys[i] \in Keys /\ Scan[i + 1] = v
        BY <1>1, <2>0, <2>3, <3>2
      <4>3. /\ v \in Seq(Keys) /\ m \in Nat /\ Len(v) = m + 1
            /\ \A n \in 1..m : v[n] = u[n]
            /\ v[m + 1] = keys[i]
        <5> HIDE DEF u
        <5> QED
          BY <4>1, <4>2, AppendProperties, LenProperties
      <4> HIDE DEF u, v, m
      <4>4. Before(i + 1) = Before(i) \cup {i} /\ i \notin Before(i)
        BY <2>2, <3>2 DEF Before
      <4>5. Cardinality(Before(i + 1)) = m + 1
        <5>1. IsFiniteSet(Before(i))
          <6>1. Before(i) \subseteq 0..(i - 1)
            BY DEF Before, Range0
          <6>2. IsFiniteSet(0..(i - 1))
            BY <2>0, FS_Interval
          <6>3. QED
            BY <6>1, <6>2, FS_Subset
        <5>2. QED
          BY <4>1, <4>4, <5>1, FS_AddElement
      <4>6. \A n \in 1..(m + 1) : n \in 1..m \/ n = m + 1
        BY <4>3
      <4>7. 1..m \subseteq 1..(m + 1) /\ m + 1 \in 1..(m + 1)
        BY <4>3
      <4>8. \A n \in 1..(m + 1) : \E s \in Before(i + 1) : keys[s] = v[n]
        BY <4>1, <4>3, <4>4, <4>6
      <4>9. \A s \in Before(i + 1) : \E n \in 1..(m + 1) : v[n] = keys[s]
        BY <4>1, <4>3, <4>4, <4>7
      <4>10. \A s \in Before(i) : keys[s] # keys[i]
        <5>1. DOMAIN keys = Range0(capacity)
          BY DEF SlotsType
        <5>2. ASSUME NEW s \in Before(i)
              PROVE  s \in Range0(capacity) /\ keys[s] # NoKey /\ s # i
          <6>1. s \in Range0(i) /\ keys[s] # NoKey
            BY DEF Before
          <6>2. s \in Range0(capacity) /\ s # i
            BY <1>1, <2>0, <6>1 DEF Range0
          <6>3. QED
            BY <6>1, <6>2
        <5>3. QED
          BY <2>0, <5>1, <5>2 DEF Distinct
      <4>11. \A n \in 1..m : v[n] # v[m + 1]
        BY <4>1, <4>3, <4>10
      <4>12. \A n, k \in 1..(m + 1) : v[n] = v[k] => n = k
        BY <4>1, <4>3, <4>6, <4>11
      <4>13. QED
        BY <4>2, <4>3, <4>5, <4>8, <4>9, <4>12 DEF ScannedTo
    <3>3. QED
      BY <3>1, <3>2
  <2> HIDE DEF ScannedTo
  <2>5. QED
    BY <2>0, <2>4
<1>4. 0..capacity \subseteq T
  <2> HIDE DEF T
  <2> QED
    BY <1>1, <1>2, <1>3, IntervalInduction
<1>5. capacity \in 0..capacity /\ capacity <= capacity
  BY <1>1
<1> HIDE DEF ScannedTo
<1>6. QED
  BY <1>4, <1>5

LEMMA FilterFollows == HInv => FilterWellFormed
<1>1. SUFFICES ASSUME HInv, pc = "idle"
               PROVE  /\ {Filter[n].ip : n \in DOMAIN Filter} = {k \in Keys : Holds(k)}
                      /\ \A n \in DOMAIN Filter : Filter[n].then = ")" <=> n = Len(Filter)
                      /\ \A n, m \in DOMAIN Filter : Filter[n].ip = Filter[m].ip => n = m
  BY DEF FilterWellFormed
<1>2. SlotsType /\ Distinct(keys) /\ newCapacity = 0 /\ DOMAIN keys = Range0(capacity)
  BY <1>1 DEF HInv, TableInv, TableType, StageInv, SlotsType, Size
<1>3. Iterated = Scan[capacity]
  BY DEF Iterated, Scan, ScanFrom
<1>4. Before(capacity) = Occupied(keys) /\ count = Cardinality(Occupied(keys))
  <2>1. Before(capacity) = Occupied(keys)
    BY <1>2 DEF Occupied, Before
  <2>2. ~ Rebuilding
    BY <1>1, <1>2 DEF HInv, TableInv, TableType, Rebuilding
  <2>3. Cardinality(Occupied(keys)) \in Nat
    BY <1>2, OccupiedFinite DEF SlotsType
  <2>4. count = Cardinality(Occupied(keys)) + IF Rebuilding THEN 1 ELSE 0
    BY <1>1 DEF HInv, TableInv, HalfFree
  <2>5. QED
    BY <2>1, <2>2, <2>3, <2>4
<1> DEFINE it == Iterated
<1>5. /\ it \in Seq(Keys) /\ Len(it) = count
      /\ \A n \in 1..Len(it) : \E s \in Occupied(keys) : keys[s] = it[n]
      /\ \A s \in Occupied(keys) : \E n \in 1..Len(it) : it[n] = keys[s]
      /\ \A n, m \in 1..Len(it) : it[n] = it[m] => n = m
  BY <1>2, <1>3, <1>4, ScanFacts DEF ScannedTo
<1> HIDE DEF it
<1>6. count \in Nat /\ DOMAIN it = 1..count /\ \A n \in 1..count : it[n] \in Keys
  BY <1>5, LenProperties, ElementOfSeq
<1>7. Filter = [n \in 1..count |->
                  [ip |-> it[n], then |-> IF n = count THEN ")" ELSE "or"]]
  BY <1>6 DEF Filter, it
<1>8. /\ DOMAIN Filter = 1..count
      /\ \A n \in 1..count : Filter[n].ip = it[n] /\ (Filter[n].then = ")" <=> n = count)
  BY <1>7
<1>9. Len(Filter) = count
  <2> DEFINE row(n) == [ip |-> it[n], then |-> IF n = count THEN ")" ELSE "or"]
  <2>1. Filter \in Seq({row(n) : n \in 1..count})
    BY <1>6, <1>7
  <2>2. QED
    BY <1>6, <1>8, <2>1, LenProperties
<1>10. {Filter[n].ip : n \in DOMAIN Filter} = {it[n] : n \in 1..count}
  BY <1>8
<1>11. {it[n] : n \in 1..count} = {k \in Keys : Holds(k)}
  <2>1. ASSUME NEW n \in 1..count
        PROVE  it[n] \in Keys /\ Holds(it[n])
    BY <1>2, <1>5, <1>6, <2>1 DEF Holds, Occupied
  <2>2. ASSUME NEW k \in Keys, Holds(k)
        PROVE  k \in {it[n] : n \in 1..count}
    <3>1. PICK i \in DOMAIN keys : keys[i] = k
      BY <2>2 DEF Holds
    <3>2. i \in Occupied(keys)
      BY <3>1, TableAssumption DEF Occupied
    <3>3. QED
      BY <1>5, <3>1, <3>2
  <2>3. QED
    BY <2>1, <2>2
<1>12. QED
  BY <1>5, <1>8, <1>9, <1>10, <1>11

\* Whatever was set, grown and collided before, the iterator visits each
\* address of the shared table once, and the filter's parenthesis is closed
\* after the last one and nowhere else (sniffing.c:186-195, hashmap.c:202-216).
THEOREM FilterIsWellFormed == Spec => []FilterWellFormed
BY Invariant, FilterFollows, PTL

-----------------------------------------------------------------------------
(* The end of a probe.                                                     *)

\* How many slots a probe from i has passed when it comes to j.
Distance(i, j, cap) == IF i <= j THEN j - i ELSE j + cap - i

\* Of the slots that hold the key or nothing, a probe ends at the first.
LEMMA ProbeEnds ==
  ASSUME NEW cap \in Nat, NEW arr \in [Range0(cap) -> Keys \cup {NoKey}],
         NEW k \in Keys, NEW i \in Range0(cap),
         NEW free \in Range0(cap), arr[free] = NoKey
  PROVE  \E j \in Range0(cap) : Ends(arr, k, i, j)
<1> DEFINE Stops == {j \in Range0(cap) : arr[j] \in {NoKey, k}}
           T == {Distance(i, j, cap) : j \in Stops}
<1>1. Range0(cap) \subseteq Nat /\ \A j \in Range0(cap) : j < cap
  BY DEF Range0
<1>2. \A j \in Range0(cap) : Distance(i, j, cap) \in Nat
  BY <1>1 DEF Distance
<1>3. T \in SUBSET Nat /\ T # {}
  <2>1. free \in Stops
    OBVIOUS
  <2>2. QED
    BY <1>2, <2>1
<1>4. PICK d \in T : \A e \in T : d <= e
  <2> HIDE DEF T
  <2> QED
    BY <1>3, LeastElement
<1>5. PICK j \in Stops : d = Distance(i, j, cap)
  OBVIOUS
<1>6. ASSUME NEW s \in Range0(cap), OnTheWay(i, j, s)
      PROVE  arr[s] \notin {NoKey, k}
  <2>1. Distance(i, s, cap) < d
    <3>1. i \in Nat /\ j \in Nat /\ s \in Nat /\ i < cap /\ s < cap
      BY <1>1
    <3>2. QED
      BY <1>5, <1>6, <3>1 DEF Distance, OnTheWay
  <2>2. d \in Nat /\ Distance(i, s, cap) \in Nat
    BY <1>2, <1>3
  <2>3. Distance(i, s, cap) \notin T
    <3> HIDE DEF T
    <3> QED
      BY <1>4, <2>1, <2>2
  <2>4. s \notin Stops
    BY <2>3
  <2>5. QED
    BY <2>4
<1>7. QED
  BY <1>5, <1>6 DEF Ends

\* Where not every slot is occupied there is a free one to end at.
LEMMA ProbesEndIn ==
  ASSUME NEW cap \in Nat, NEW arr \in [Range0(cap) -> Keys \cup {NoKey}],
         Cardinality(Occupied(arr)) < cap
  PROVE  \A k \in Keys, i \in DOMAIN arr : \E j \in DOMAIN arr : Ends(arr, k, i, j)
<1>1. Cardinality(Range0(cap)) = cap
  <2>1. 0 \in Int /\ cap - 1 \in Int /\ (0 > cap - 1 => cap = 0) /\ (cap - 1) - 0 + 1 = cap
    OBVIOUS
  <2>2. QED
    BY <2>1, FS_Interval DEF Range0
<1>2. PICK free \in Range0(cap) : arr[free] = NoKey
  <2>1. Occupied(arr) # Range0(cap)
    <3>1. Cardinality(Occupied(arr)) \in Nat
      BY OccupiedFinite
    <3>2. QED
      BY <1>1, <3>1
  <2>2. Occupied(arr) \subseteq Range0(cap)
    BY DEF Occupied
  <2>3. QED
    BY <2>1, <2>2 DEF Occupied
<1>3. DOMAIN arr = Range0(cap)
  OBVIOUS
<1>4. QED
  BY <1>2, <1>3, ProbeEnds

\* Half of the slots are free, and the array being filled gets no more entries
\* than the other had.
LEMMA ProbesFollow == HInv => ProbesEnd
<1>1. SUFFICES ASSUME HInv
               PROVE  ProbesEnd
  OBVIOUS
<1>2. /\ Size \in Nat /\ Size >= capacity /\ capacity \in Nat /\ capacity >= 2
      /\ keys \in [Range0(Size) -> Keys \cup {NoKey}] /\ count \in Nat
      /\ newKeys \in [Range0(newCapacity) -> Keys \cup {NoKey}]
      /\ newCapacity \in Nat /\ (newCapacity # 0 => newCapacity >= capacity)
  BY <1>1 DEF HInv, TableInv, TableType, StageInv, Size
<1>3. Cardinality(Occupied(keys)) \in Nat /\ Cardinality(Occupied(newKeys)) \in Nat
  BY <1>2, OccupiedFinite
<1>4. Cardinality(Occupied(keys)) < capacity
  <2>1. 2 * count <= capacity
    BY <1>1 DEF HInv, TableInv, HalfFree
  <2>2. Cardinality(Occupied(keys)) <= count
    BY <1>1, <1>3 DEF HInv, TableInv, HalfFree
  <2> HIDE DEF Size
  <2>3. QED
    BY <1>2, <1>3, <2>1, <2>2
<1>5. newCapacity # 0 => Cardinality(Occupied(newKeys)) < newCapacity
  <2>1. CASE pc \in {"copy", "publish"}
    <3>1. Cardinality(Occupied(newKeys)) = Cardinality(Passed) /\ Size = capacity
      BY <1>1, <2>1 DEF HInv, TableInv, CopyInv, Size
    <3>2. Passed \subseteq Occupied(keys)
      <4>1. cursor \in 0..capacity
        BY <1>1 DEF HInv, TableInv, TableType
      <4>2. Range0(cursor) \subseteq Range0(capacity) /\ DOMAIN keys = Range0(capacity)
        BY <1>2, <3>1, <4>1 DEF Range0
      <4>3. QED
        BY <4>2 DEF Passed, Occupied
    <3>3. Cardinality(Passed) <= Cardinality(Occupied(keys))
      <4>1. IsFiniteSet(Occupied(keys))
        BY <1>2, OccupiedFinite
      <4>2. QED
        BY <3>2, <4>1, FS_Subset
    <3> HIDE DEF Size
    <3>4. QED
      BY <1>2, <1>3, <1>4, <3>1, <3>3
  <2>2. CASE pc \in {"capacity", "recount"}
    <3>1. keys = newKeys
      BY <1>1, <2>2 DEF HInv, TableInv, StageInv
    <3> HIDE DEF Size
    <3>2. QED
      BY <1>2, <1>3, <1>4, <3>1
  <2>3. CASE pc \in {"idle", "set", "value", "seek"}
    BY <1>1, <2>3 DEF HInv, TableInv, StageInv
  <2>4. pc \in Stages
    BY <1>1 DEF HInv, TableInv, TableType
  <2>5. QED
    BY <2>1, <2>2, <2>3, <2>4 DEF Stages
<1> HIDE DEF Size
<1>6. \A k \in Keys, i \in DOMAIN keys : \E j \in DOMAIN keys : Ends(keys, k, i, j)
  <2>1. Cardinality(Occupied(keys)) < Size
    BY <1>2, <1>3, <1>4
  <2>2. QED
    BY <1>2, <2>1, ProbesEndIn
<1>7. \A k \in Keys, i \in DOMAIN newKeys :
        \E j \in DOMAIN newKeys : Ends(newKeys, k, i, j)
  <2>1. CASE newCapacity = 0
    BY <1>2, <2>1 DEF Range0
  <2>2. CASE newCapacity # 0
    BY <1>2, <1>5, <2>2, ProbesEndIn
  <2>3. QED
    BY <2>1, <2>2
<1>8. QED
  BY <1>6, <1>7 DEF ProbesEnd

\* No loop of the table runs around its array for ever, whatever was inserted,
\* grown and removed before (hashmap.c:72, 101, 182).
THEOREM EveryProbeEnds == Spec => []ProbesEnd
BY Invariant, ProbesFollow, PTL
=============================================================================
