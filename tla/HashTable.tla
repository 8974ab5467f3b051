------------------------------ MODULE HashTable ------------------------------
(***************************************************************************)
(* hashmap.c: open addressing with linear probing in an array that doubles *)
(* when it is half full, and is rebuilt when an entry is removed.          *)
(*                                                                         *)
(* Two uses are modelled.  A private table (sessions_table, the tables of  *)
(* test_hashmap.c) has one thread, its owner, which sets, removes and      *)
(* gets.  The shared one (ip_to_domain) is set and iterated by the server  *)
(* thread, its owner, while packet_queue_loop gets from it without a lock; *)
(* nobody removes from it.                                                 *)
(*                                                                         *)
(* Only the owner writes, so what it reads needs no steps of its own: a    *)
(* probe of the owner is one step with its last slot as the result, and one*)
(* that never ends is no step at all.  Each store it makes to the array is  *)
(* a step, and so is each access of ht_get to table->items, to an item or  *)
(* to table->capacity (unoptimised build).  The new array of a rehash is   *)
(* the owner's alone until table->items points to it.                      *)
(*                                                                         *)
(* Left out: allocations that fail (they end the program), and capacities  *)
(* whose double overflows size_t.                                          *)
(***************************************************************************)
EXTENDS Naturals, Sequences, FiniteSets

CONSTANTS Keys, Values,
          NoKey, NoValue,   \* NULL in a slot
          InitialCapacity,  \* INITIAL_CAPACITY, "a power of 2"
          Hashes,           \* the hash functions of the instance
          Entries,          \* the keys and values ht_set is called with
          Nothing           \* no answer is being given

ASSUME TableAssumption ==
  /\ NoKey \notin Keys /\ NoValue \notin Values
  /\ InitialCapacity \in Nat /\ InitialCapacity >= 2 /\ InitialCapacity % 2 = 0
  /\ Hashes \subseteq [Keys -> Nat]
  /\ Entries \subseteq Keys \X Values
  /\ \A k \in Keys, v \in Values \cup {NoValue} : [key |-> k, value |-> v] # Nothing

VARIABLES hash,      \* FNV of each key
          shared,    \* gets are another thread's, and there are no removals
          capacity,  \* table->capacity
          count,     \* table->count
          keys,      \* items[i].key of the array table->items points to
          vals,      \* items[i].value
          freed,     \* that array has been freed
          newCapacity, newKeys, newVals,  \* new_items, during a rehash
          cursor,    \* the slot the rehash has come to
          pc,        \* where the owner stands
          key, val,  \* the arguments of its call
          index,     \* the slot its next probe starts at
          at,        \* where ht_get stands
          want,      \* the key it looks for
          probe,     \* the slot it looks at
          base,      \* the table->items it has loaded
          answer,    \* what it returns
          moved,     \* history: the array moved during this get
          could      \* history: values its key had during this get

kind  == <<hash, shared>>
items == <<keys, vals>>
new   == <<newCapacity, newKeys, newVals, cursor>>
call  == <<pc, key, val, index>>
table == <<kind, capacity, count, items, freed, new, call>>
gets  == <<at, want, probe, base, answer>>
seen  == <<moved, could>>
vars  == <<table, gets, seen>>

\* get_index: capacity is a power of 2, so `h & (capacity - 1)` is h modulo it.
Home(k, cap) == hash[k] % cap

AfterEarly(i, cap) == IF i + 2 >= cap THEN 0 ELSE i + 1  \* variant: never the last

AfterLate(i, cap) == IF i + 1 > cap THEN 0 ELSE i + 1  \* variant: `>` for `>=`

\* The next slot of a probe.
After(i, cap) == IF i + 1 >= cap THEN 0 ELSE i + 1

\* The slots a probe from slot i passes before it comes to j.
OnTheWay(i, j, s) == IF i <= j THEN i <= s /\ s < j ELSE i <= s \/ s < j

\* A probe for k from slot i ends at j, which holds k or nothing.
Ends(arr, k, i, j) ==
  /\ arr[j] \in {NoKey, k}
  /\ \A s \in DOMAIN arr : OnTheWay(i, j, s) => arr[s] \notin {NoKey, k}

MustGrowFull == count >= capacity  \* variant: the table grows when it is full

\* The test of ht_set.
MustGrow == count >= capacity \div 2

Empty(cap, null) == [i \in 0..(cap - 1) |-> null]

\* What the table holds: the value stored with the key, wherever it is.
Holds(k) == \E i \in DOMAIN keys : keys[i] = k
Stored(k) == IF Holds(k) THEN vals[CHOOSE i \in DOMAIN keys : keys[i] = k]
             ELSE NoValue

-----------------------------------------------------------------------------
Init ==  \* ht_create
  /\ hash \in Hashes /\ shared \in BOOLEAN
  /\ capacity = InitialCapacity /\ count = 0
  /\ keys = Empty(InitialCapacity, NoKey) /\ vals = Empty(InitialCapacity, NoValue)
  /\ freed = FALSE
  /\ newCapacity = 0 /\ newKeys = <<>> /\ newVals = <<>> /\ cursor = 0
  /\ pc = "idle" /\ key = NoKey /\ val = NoValue /\ index = 0
  /\ at = "idle" /\ want = NoKey /\ probe = 0 /\ base = "none" /\ answer = Nothing
  /\ moved = FALSE /\ could = {}

-----------------------------------------------------------------------------
(* ht_set.                                                                 *)

Goes(stage) == pc' = stage
Idle == pc = "idle" /\ (shared \/ at = "idle")

\* The end of a call, or of a rehash; what is left in its locals is forgotten.
Returns == pc' = "idle" /\ key' = NoKey /\ val' = NoValue /\ index' = 0
Discard == newCapacity' = 0 /\ newKeys' = <<>> /\ newVals' = <<>> /\ cursor' = 0

\* calloc of new_items, for a loop over the old array to fill.
Allocate(cap) ==
  /\ newCapacity' = cap /\ cursor' = 0
  /\ newKeys' = Empty(cap, NoKey) /\ newVals' = Empty(cap, NoValue)

BeginSet(k, v) ==
  /\ Idle
  /\ key' = k /\ val' = v
  /\ IF MustGrow
     THEN Allocate(2 * capacity) /\ Goes("copy") /\ UNCHANGED index
     ELSE index' = Home(k, capacity) /\ Goes("set") /\ UNCHANGED new
  /\ UNCHANGED <<kind, capacity, count, items, freed, gets, seen>>

\* The call ends with a value stored at slot i.  A get in progress may see it.
StoreValue(i) ==
  /\ vals' = [vals EXCEPT ![i] = val]
  /\ could' = IF at # "idle" /\ want = key THEN could \cup {val} ELSE could
  /\ Returns
  /\ UNCHANGED <<kind, capacity, count, keys, freed, new, gets, moved>>

Update ==
  /\ pc = "set"
  /\ \E i \in DOMAIN keys :
       Ends(keys, key, index, i) /\ keys[i] = key /\ StoreValue(i)

\* The increment of table->count just before the store of the key is part of
\* this step: only main() reads the count from another thread (main.c:65), and
\* what it may see there is in HostRegistry.
InsertKey ==
  /\ pc = "set"
  /\ \E i \in DOMAIN keys :
       /\ Ends(keys, key, index, i) /\ keys[i] = NoKey
       /\ keys' = [keys EXCEPT ![i] = key]
       /\ index' = i
  /\ count' = count + 1
  /\ Goes("value")
  /\ UNCHANGED <<kind, capacity, vals, freed, new, key, val, gets, seen>>

InsertValue == pc = "value" /\ StoreValue(index)

-----------------------------------------------------------------------------
(* The rehash of allocate_memory and of ht_remove_entry.                   *)

\* The loop passes a free slot, or puts the entry of slot `cursor` at i.
PutAt(i) ==
  /\ newKeys' = [newKeys EXCEPT ![i] = keys[cursor]]
  /\ newVals' = [newVals EXCEPT ![i] = vals[cursor]]

CopyNext ==
  /\ pc = "copy" /\ cursor < capacity
  /\ cursor' = cursor + 1
  /\ UNCHANGED <<kind, capacity, count, items, freed, newCapacity, call, gets, seen>>

CopyOver ==  \* variant: no probing, an entry in the way is overwritten
  /\ CopyNext
  /\ IF keys[cursor] = NoKey THEN UNCHANGED <<newKeys, newVals>>
     ELSE PutAt(Home(keys[cursor], newCapacity))

Copy ==
  /\ CopyNext
  /\ IF keys[cursor] = NoKey THEN UNCHANGED <<newKeys, newVals>>
     ELSE \E i \in DOMAIN newKeys :
            /\ Ends(newKeys, keys[cursor], Home(keys[cursor], newCapacity), i)
            /\ PutAt(i)

\* The array goes: a get in progress may be left with a pointer to it.
Moves == moved' = (at # "idle") /\ UNCHANGED could

Free ==
  /\ pc = "copy" /\ cursor = capacity
  /\ freed' = TRUE
  /\ base' = IF base = "live" THEN "freed" ELSE base
  /\ Goes("publish") /\ Moves
  /\ UNCHANGED <<kind, capacity, count, items, new, key, val, index, at, want,
                 probe, answer>>

\* table->items = new_items, then the new capacity or the new count.
Publish ==
  /\ pc = "publish"
  /\ keys' = newKeys /\ vals' = newVals
  /\ freed' = FALSE
  /\ Goes(IF newCapacity > capacity THEN "capacity" ELSE "recount") /\ Moves
  /\ UNCHANGED <<kind, capacity, count, new, key, val, index, gets>>

SetCapacity ==
  /\ pc = "capacity"
  /\ capacity' = newCapacity
  /\ index' = Home(key, newCapacity)
  /\ Discard /\ Goes("set") /\ Moves
  /\ UNCHANGED <<kind, count, items, freed, key, val, gets>>

-----------------------------------------------------------------------------
(* ht_remove_entry.                                                        *)

BeginRemove(k) ==
  /\ Idle /\ ~shared
  /\ key' = k /\ index' = Home(k, capacity)
  /\ Goes("seek")
  /\ UNCHANGED <<kind, capacity, count, items, freed, new, val, gets, seen>>

\* The probe has found the entry.  Its slot becomes a hole.
FreeSlot(i) ==
  /\ pc = "seek" /\ Ends(keys, key, index, i) /\ keys[i] = key
  /\ keys' = [keys EXCEPT ![i] = NoKey]
  /\ vals' = [vals EXCEPT ![i] = NoValue]
  /\ UNCHANGED <<kind, capacity, freed, gets, seen>>

EraseOnly ==  \* variant: the entries behind the hole are not put elsewhere
  /\ \E i \in DOMAIN keys : FreeSlot(i)
  /\ count' = count - 1 /\ Returns
  /\ UNCHANGED new

\* The hole is in the way of other probes, so the array is rebuilt.
Erase ==
  /\ \E i \in DOMAIN keys : FreeSlot(i) /\ index' = i
  /\ Allocate(capacity) /\ Goes("copy")
  /\ UNCHANGED <<count, key, val>>

\* The loop goes on from the slot after the one it emptied.
Recount ==
  /\ pc = "recount"
  /\ count' = count - 1
  /\ index' = After(index, capacity)
  /\ Discard /\ Goes("seek")
  /\ UNCHANGED <<kind, capacity, items, freed, key, val, gets, seen>>

SeekEnds ==
  /\ pc = "seek"
  /\ \E i \in DOMAIN keys : Ends(keys, key, index, i) /\ keys[i] = NoKey
  /\ Returns
  /\ UNCHANGED <<kind, capacity, count, items, freed, new, gets, seen>>

-----------------------------------------------------------------------------
(* ht_iterator and ht_next, as build_filter_from_ip_to_domain uses them.   *)

\* The keys in the order of their slots; the n-th has `visited` = n.
Iterated ==
  LET upto[i \in 0..capacity] ==  \* what ht_next has returned when _index is i
        IF i = 0 THEN <<>>
        ELSE IF keys[i - 1] = NoKey THEN upto[i - 1]
        ELSE Append(upto[i - 1], keys[i - 1])
  IN  upto[capacity]

FilterEarly ==  \* variant: visited is compared before it is incremented
  [n \in DOMAIN Iterated |->
     [ip |-> Iterated[n], then |-> IF n - 1 = count THEN ")" ELSE "or"]]

\* Each address, followed by the closing parenthesis if it is the last.
Filter ==
  [n \in DOMAIN Iterated |->
     [ip |-> Iterated[n], then |-> IF n = count THEN ")" ELSE "or"]]

-----------------------------------------------------------------------------
(* ht_get: the owner's in a private table, another thread's in a shared one.*)

\* get_index reads the capacity.
BeginGet(k) ==
  /\ at = "idle" /\ (shared \/ pc = "idle")
  /\ want' = k
  /\ probe' = Home(k, capacity)
  /\ at' = "test"
  /\ moved' = (pc \in {"publish", "capacity"})
  /\ could' = {Stored(k)}
  /\ UNCHANGED <<table, base, answer>>

Load ==
  /\ at \in {"test", "compare", "value"} /\ base = "none"
  /\ base' = IF freed THEN "freed" ELSE "live"
  /\ UNCHANGED <<table, at, want, probe, answer, seen>>

\* An item of the array loaded last, which is then loaded anew.
Access(stage) == at = stage /\ base = "live" /\ base' = "none"

Answers(v) == answer' = [key |-> want, value |-> v] /\ at' = "done"

\* while (table->items[index].key != NULL)
Test ==
  /\ Access("test")
  /\ IF keys[probe] = NoKey THEN Answers(NoValue)
     ELSE at' = "compare" /\ UNCHANGED answer
  /\ UNCHANGED <<table, want, probe, seen>>

CompareOnce ==  \* variant: `if` in place of `while`
  /\ Access("compare")
  /\ IF keys[probe] = want THEN at' = "value" /\ UNCHANGED answer
     ELSE Answers(NoValue)
  /\ UNCHANGED <<table, want, probe, seen>>

\* strcmp; in an array that was not there before there may be no key.
Compare ==
  /\ Access("compare")
  /\ at' = CASE keys[probe] = NoKey -> "wild"
             [] keys[probe] = want -> "value"
             [] OTHER -> "next"
  /\ UNCHANGED <<table, want, probe, answer, seen>>

Advance ==
  /\ at = "next"
  /\ probe' = After(probe, capacity)
  /\ at' = "test"
  /\ UNCHANGED <<table, want, base, answer, seen>>

Value ==
  /\ Access("value")
  /\ Answers(vals[probe])
  /\ UNCHANGED <<table, want, probe, seen>>

\* An access to freed memory: nothing more is said of the thread.
Stray ==
  /\ base = "freed"
  /\ at' = "wild" /\ base' = "none"
  /\ UNCHANGED <<table, want, probe, answer, seen>>

Return ==
  /\ at = "done"
  /\ at' = "idle" /\ want' = NoKey /\ probe' = 0 /\ answer' = Nothing
  /\ moved' = FALSE /\ could' = {}
  /\ UNCHANGED <<table, base>>

-----------------------------------------------------------------------------
Begin == \/ \E e \in Entries : BeginSet(e[1], e[2])
         \/ \E k \in Keys : BeginRemove(k)

CallStep ==
  \/ Update \/ InsertKey \/ InsertValue
  \/ Copy \/ Free \/ Publish \/ SetCapacity
  \/ Erase \/ Recount \/ SeekEnds

GetStep == Load \/ Test \/ Compare \/ Advance \/ Value \/ Stray \/ Return

Next ==
  \/ Begin \/ CallStep
  \/ GetStep \/ \E k \in Keys : BeginGet(k)

Spec == Init /\ [][Next]_vars

\* A thread inside one of these functions keeps running; nothing obliges it
\* to call one.
FairSpec == Spec /\ WF_vars(CallStep) /\ WF_vars(GetStep)

-----------------------------------------------------------------------------
(* Properties.                                                             *)

Stages == {"idle", "set", "value", "copy", "publish", "capacity", "recount", "seek"}
GetStages == {"idle", "test", "compare", "value", "next", "done", "wild"}

TypeOK ==
  /\ hash \in Hashes /\ shared \in BOOLEAN /\ freed \in BOOLEAN
  /\ capacity \in Nat /\ capacity >= 2 /\ capacity % 2 = 0
  /\ count \in Nat
  /\ LET size == IF pc = "capacity" THEN newCapacity ELSE capacity IN
       /\ keys \in [0..(size - 1) -> Keys \cup {NoKey}]
       /\ vals \in [0..(size - 1) -> Values \cup {NoValue}]
  /\ newCapacity \in {0, capacity, 2 * capacity}
  /\ newKeys \in [0..(newCapacity - 1) -> Keys \cup {NoKey}]
  /\ newVals \in [0..(newCapacity - 1) -> Values \cup {NoValue}]
  /\ pc \in Stages
  /\ key \in Keys \cup {NoKey} /\ val \in Values \cup {NoValue}
  /\ index \in 0..(capacity - 1) /\ cursor \in 0..capacity
  /\ at \in GetStages
  /\ want \in Keys \cup {NoKey}
  /\ probe \in 0..(capacity - 1)
  /\ base \in {"none", "live", "freed"}
  /\ answer \in {Nothing} \cup [key : Keys, value : Values \cup {NoValue}]
  /\ moved \in BOOLEAN /\ could \subseteq Values \cup {NoValue}

\* No hole between where a key belongs and where it is, and no key twice.
Probeable(arr, cap) ==
  /\ \A i, j \in DOMAIN arr :
       arr[i] # NoKey /\ OnTheWay(Home(arr[i], cap), i, j) => arr[j] # NoKey
  /\ \A i, j \in DOMAIN arr : arr[i] # NoKey /\ arr[i] = arr[j] => i = j

\* A removal rebuilds the array: there is a hole in the old one.
Rebuilding == newCapacity = capacity

\* Every key can be found by probing from its home slot, through all
\* insertions, collisions, wrap-arounds, rehashes and removals; and so it can
\* in the array being filled (hashmap.c:61-91, 93-131, 150-157).
FoundByProbing ==
  /\ ~Rebuilding /\ pc # "capacity" => Probeable(keys, capacity)
  /\ newCapacity # 0 => Probeable(newKeys, newCapacity)

Occupied(arr) == {i \in DOMAIN arr : arr[i] # NoKey}

\* At least half of the slots are free and count is the number of the others,
\* plus the entry being removed, so that every probe has a free slot to end at
\* (hashmap.c:87, 127, 171-173).
HalfFree ==
  /\ 2 * count <= capacity
  /\ count = Cardinality(Occupied(keys)) + IF Rebuilding THEN 1 ELSE 0

\* From every slot a probe for any key, present or not, comes to an end, in the
\* table and in the array being filled; nothing else stops the loops of
\* ht_set_entry, ht_remove_entry and ht_get (hashmap.c:72, 101, 182).
ProbesEnd ==
  \A arr \in {keys, newKeys}, k \in Keys :
    \A i \in DOMAIN arr : \E j \in DOMAIN arr : Ends(arr, k, i, j)

\* The filter names each address of the table once, and its parenthesis is
\* closed after the last one and nowhere else (sniffing.c:186-195).
FilterWellFormed ==
  shared /\ pc = "idle" =>
    /\ {Filter[n].ip : n \in DOMAIN Filter} = {k \in Keys : Holds(k)}
    /\ \A n \in DOMAIN Filter : Filter[n].then = ")" <=> n = Len(Filter)
    /\ \A n, m \in DOMAIN Filter : Filter[n].ip = Filter[m].ip => n = m

\* A get without a lock is right as long as the array does not move under it:
\* it reads no freed memory and no missing key, and answers with a value its
\* key had meanwhile.  Growing is the only thing ht_set does that it does not
\* survive (sniffing.c:70, 240, hashmap.c:157-161, 181-190).
RightUnlessMoved ==
  ~moved => /\ at # "wild"
            /\ at = "done" => answer.value \in could

\* For its owner the table is a map: each set and each removal takes effect at
\* one store, whatever the rehash does meanwhile, and each get of the owner
\* finds what was set last (hashmap.h:24-37).
Abstract == INSTANCE Dictionary
              WITH dict <- [k \in Keys |-> Stored(k)],
                   found <- IF shared THEN Nothing ELSE answer

ImplementsDictionary == Abstract!Spec

\* Every call ends: no probe runs around the array for ever, not even that of
\* a get while the owner inserts (hashmap.c:72-83, 97-128, 184-192).
CallsEnd ==
  /\ pc # "idle" ~> pc = "idle"
  /\ at # "idle" ~> at \in {"idle", "wild"}
=============================================================================
