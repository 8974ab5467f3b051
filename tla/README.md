# A TLA+ model of `sniffing`

`sniffing` is a packet sniffer in C. A server captures, through libpcap, the
packets sent to a set of monitored hosts and adds up, in SQLite, the seconds
spent on each; a command-line client adds hosts, starts and stops the capture
and shows the statistics. This directory holds TLA+ modules of its core logic,
the configurations that check them with TLC, and proofs checked by TLAPS. Line
numbers refer to `src/`; `PROJECT.json` lists, for every definition, the lines it
stands for.

## 1. Inventory

| Part | Source | State | Operations | What makes it correct |
|---|---|---|---|---|
| Capture control | `sniffing.c` 106-128, 352-379, `main.c` 65-68 | `paused`, `mutex2`, `condition2` | `start_pcap`, `stop_pcap`, `pcap_runner_loop` | no start is lost, a stop takes effect, no call blocks behind a dispatch |
| Packet queue | `queue.c`, `sniffing.c` 57-61, 130-141 | `head`, `tail`, `next`, `pck_cond` | `enqueue`, `dequeue`, `is_empty`, signal, wait | no packet lost, none twice, none out of order, never emptied under the reader |
| Accounting | `sniffing.c` 62-102, `db.c` 88-151 | `sessions_table`, `host_stats` | create, same second, re-init, edit, store | each second spent on a host counted exactly once |
| Host registry | `sniffing.c` 144-325, 401-453, `db.c` 33-54, `ip.c` | `ip_to_domain`, filter, names of `host_stats` | boot, `hostname add`, filter installation | names, addresses and filter agree; every packet captured can be looked up |
| Hash table | `hashmap.c` | items, capacity, count | get, set, rehash, remove, iterate | it is a map; probing ends; a get beside a set reads no freed memory |
| Server loop, protocol | `server_loop.c`, `protocol.c`, `socket_server.c` | connection, `req`, `res` | accept, read, verify, run, write, close | one answer per request, the right one |
| Commands | `cmd_handler.c`, `cmd_serializer.c` | none of its own | the five commands, serialisation | an accepted command had its effect; answers fit |
| Client | `client_loop.c`, `socket_client.c`, `command.c`, `session.c` | `received_req` | type, send, read, show | shows the answer of the command typed, and rows the server has |
| Command builder, strings | `cmd_builder.c`, `string_helpers.c`, `dynamic_string.c` | none | words to command | round trip with the serialiser |
| Start-up | `main.c`, `threads_init.c` | the context | create everything, start threads | order of creation |
| Printer, tests, `request_handler.c` | | | | output; tests; commented out |

Four threads share one `context_t`: main, the **capture thread**
(`pcap_runner_loop`), the **draining thread** (`packet_queue_loop`) and the
**server thread** (`server_loop`).

```
 client --socket--> server thread --start/stop--> capture thread (mutex2, condition2)
                        |  hostname add                | packet_handler
                        v                              v
          ip_to_domain, host_stats, filter       packet_queue (pck_cond)
                        |                              |
                        +----lookup, upsert----- draining thread
```

What is hard: the queue and `ip_to_domain` are shared without a lock;
`pck_cond` is waited for without a predicate; `mutex2` is released around
`pcap_dispatch`; two threads write the same rows of `host_stats`, and failures
of those writes are ignored; a packet is captured under one filter and looked
up in a later table; `hostname add` can fail half way; the process can die
anywhere, and only `host_stats` survives it; request buffers keep what the last
request left; a socket read is taken for a message. The list, line by line, is
`hazards` in `PROJECT.json`.

## 2. Plan

Done so far, in the order of importance to the system:

1. `CaptureSwitch` (abstract) and `CaptureControl`, which implements it.
2. `Channel` (abstract) and `PacketQueue`, which implements it: the sharing of the queue
   without a lock.
3. `Accounting`: time, database, crashes.
4. `HostRegistry`: names, addresses, filter.
5. `CommandIpc`: clients, sockets, server loop.
6. `Dictionary` (abstract) and `HashTable`, which implements it for its owner, with
   a concurrent reader.
7. `CommandCodec`: words, commands and statistics as they travel, used by
   `CommandIpc`.
8. `HashTableProofs`: reachability, load factor, the unlocked get and the refinement
   of `Dictionary`, for every capacity and hash.
9. `SetInduction`, which makes induction over data available, and with it
   `IntactUntilRaced` and `FilterWellFormed` proved for any number of packets and
   addresses.
10. `CommandCodecProofs` and `CommandIpcProofs`: the text and the statistics as they
   travel, and all the safety of `CommandIpc`.

Every safety property that a passing run checks is now a theorem as well. Next:

11. A composition of `PacketQueue` and `CaptureControl` (what is still handled
    after a stop), with the life of libpcap's packet buffer.

## 3. Modules

### CaptureSwitch, CaptureControl

`CaptureSwitch` is what the rest of the program may believe: a switch, and
batches (calls of `pcap_dispatch`) that the capture thread commits to only while
the switch is on. Turning it off does not recall a batch already committed to,
which is what the code does since `pcap_breakloop` is commented out (line 377).

`CaptureControl` has one step per lock, unlock, wait, signal and access of the
flag. `caller[c]` is the place of main or the server thread inside `start_pcap`
or `stop_pcap`, `runner` that of the capture thread, `owner` the holder of
`mutex2`. `pthread_cond_wait` is two steps, the release with the sleep and the
later reacquisition; wake-ups without a signal are allowed. The refinement maps
`enabled` to `~paused` and a batch to `runner`: it is committed to from the test
of the flag that let the thread out of the critical section.

### Channel, PacketQueue

`Channel` is what the queue is for: packets are sent and received at one instant each,
one after the other and without a gap, until the channel is spoilt; then some may be
missing, but none comes twice or after a later one.

One step per load or store of `head`, `tail` or a `next`, since the two threads
share them without a lock. Nodes are numbered by arrival; `dequeue` frees none,
so no address is reused. `exit(0)` in `dequeue` and the null dereferences at
`queue.c:28`, 39 and 41 are steps of their own. `raced` records the one overlap
that damages the queue: `dequeue` has found no successor while `enqueue` is
between its test of `head` and the store that links the packet. The refinement maps
`sent` to the packets linked (`Published`), `taken` to the packet that `dequeue` loaded last,
and `spoilt` to `raced`.

Memory is sequentially consistent and each C access is one memory access, as in
the build of the Makefile (no optimisation) on one core; a weaker memory adds
behaviours to a program that already has a race here. `ctx->mutex` is left out
because one thread only uses it. The draining thread's first wait is made on a
mutex it has not locked, which POSIX leaves undefined; what it does is covered
by `SpuriousWakeup`.

### Accounting

`Create`, `SameSecond`, `Reinit` and `Edit` are the four branches of
`packet_queue_loop`; `Store` and `StoreFails` the write that ends the first and
the last; `Register`, `LookupFails`, `MapHost` and `InsertDefault` the server
thread adding a host meanwhile, also one that has a row (the names are read before, and
perhaps not all of them); `Restart` a crash anywhere. `visits` and `lost` are
history: the seconds at which packets of a host were handled in each life of the
process, and the seconds that a failed write or a crash dropped. `Watched`
defines the time spent on a host without reference to sessions; `Conservation`
says that the table, the pending time and the losses add up to exactly that.

`Spec` lets the packets' clock only advance, which is what in-order handling
(`PacketQueue!InOrder`) and an undisturbed clock give. `AdjustedSpec` lets it be
set back. Packets still queued when the process dies are no visits: the model
starts where a packet is taken from the queue. The integer widths of
`time_to_save` and `TOTAL_DURATION` are not modelled.

### HostRegistry

`Launch`, `BootResolves`, `BootLookupFails`, `InitPcap` and `MainChecks` are the
boot; `BeginAdd` to `InstallFilter` the steps of `hostname add`, between which the
draining thread acts (the addresses of one host are mapped in one step: no packet of
theirs passes before the filter is installed); `AddFails` is every early return of it. `Answers` says what
the resolver may return, so hosts may share addresses. `Off` is the state of a
process that is not running, `Dies` a step to it; `rows` is all that survives.

From libpcap it takes: an open device buffers packets that pass the filter of
the moment, even while nobody dispatches; installing a filter drops the buffer;
the filter of a null expression passes everything. A filter such as
`ip or ip6 and (dst host ...)` passes exactly the listed addresses, because `and`
and `or` have the same precedence there and group to the left.

### Dictionary, HashTable

`Dictionary` is what `hashmap.h` promises: a map on which sets and removals take
effect at one instant. `HashTable` has a step for each store its owner makes to the array and for
each access `ht_get` makes to it; the increment of `count` is part of the store of the
key that follows it. A probe of the owner (`Ends`) is part of the
step that uses its result, since nobody else writes; the new array of a rehash is
filled one slot of the old one at a time. `pc` is the place of the owner in `ht_set`
or `ht_remove_entry`, `at` that of `ht_get`. A private table (`shared` is false; as
`sessions_table` is used, with removals, of which only the tests make any) has one
thread; in a shared one (`ip_to_domain`) the gets are the draining thread's, at any
time, while the server thread sets and iterates. The refinement takes a key's
value from the slot that holds the key: a set happens at its last store, a
removal when the slot is emptied, a rehash nowhere.

For the thread that does not own the table only this is left: `RightUnlessMoved`.
A get that runs while nothing is rehashed answers with a value its key had
meanwhile, NULL if the key was being inserted. `moved` records the exception: the
array was freed or replaced during the get. Then the get may read freed memory
(`Stray`) or, with an index of one capacity in the array of another, compare with
a NULL key or miss its key. Without `~moved` TLC finds the
freed memory and the missed key in eleven steps; `HostRegistry`, where the table is a function, describes the program up to
that race.

`FilterWellFormed` is about `build_filter_from_ip_to_domain`, which closes the
parenthesis at the address whose number equals the count of the table. The server
thread iterates between two calls of `ht_set`, so the walk is an operator on the
table (`Filter`), with a step per slot as a recursive function (`Iterated`).

### CommandCodec, CommandIpc

`CommandCodec` holds the pure part: `extract_words`, `string_list_to_string` and
`words_to_cmd` on texts made of pieces (verbs, host names, spaces), where pieces
that no space separates are one word; and the entries of the statistics as units
that `deserialize_sessions` reads back with nothing but the lengths in them.

In `CommandIpc` clients are runs of the client program; the server serves the
head of the backlog until it leaves. An answer is a sequence of units in a stream,
a read takes what there is up to the buffer size, and `Valid` is `verify_packet`.
`body` and `args` are the locals of the server that keep the previous request's
values; `Unset` is their content before the first, and `args` after `hostname add` is
its first word, because `strtok` cuts it in place. A line that gives no command is
the request `None`, a bare header. `RunStart` to `RunUnknown` are the commands;
`RunAddUnset` is `hostname add` with a pointer nobody set. `hostname add` adds hosts
up to the first that fails, and reports as the length of its message what
`strlen` finds in an uninitialised buffer (`Junk`). A write to a client that has
left ends the server (`WriteToNobody`), for SIGPIPE is not ignored. `Overrun` and
`Write` are the two outcomes of an answer longer than `res.body`.

`RunAsTyped` compares the line a client typed with what the server is about to
run, across building, joining, sending and splitting; `StatsAreRows` compares what
the client reads back with the table, across selecting, serialising, cutting off
and deserialising. Entries do not cross the socket one by one: an answer travels with
its rows, and only how much room they take decides how it is cut. `AnswerHolds` is about lines that are commands: a line
that is none is answered as well, with the code that an earlier request left in
`req`, and after a left-over `hostname add` the server may accept it although no
host on the line was added (`RefusedDoesNothing` is the violation).

## 4. Runs

| Run | Shows | Bounds |
|---|---|---|
| `capture_control` | `LockDiscipline`, `NoLostStart`, `ImplementsSwitch`, `StartTakesEffect`, `StopQuiesces`, `CallsReturn` | none: three threads are all there are |
| `packet_queue` | `DequeueFindsPacket`, `InOrder`, `IntactUntilRaced`, `ImplementsChannel`, `WakeupDrains` | 4 packets |
| `packet_queue_race` | violation of `NothingLost` | 3 packets |
| `packet_queue_wakeup` | violation of `NoPacketLeftAsleep` | 2 packets |
| `accounting` | `Conservation`, `TotalsGrow`, `LossBounded` | 2 hosts, 5 seconds, interval 3, 1 restart |
| `accounting_clock` | violation of `NeverNegative` | 1 host, 4 seconds |
| `host_registry` | `KnownUntilUnfiltered`, `AcceptedMeansInStep`, `FilterGrows` | 2 hosts, 3 addresses, 3 requests, any number of lives |
| `host_registry_add` | violation of `AddedIsMonitored` | same |
| `host_registry_start` | violation of `OnlyKnownPackets` | same |
| `command_ipc` | `AnswerInStep`, `AnswerHolds`, `StatsAreRows`, `RunAsTyped`, `WaitsEnd` | 2 clients, 2 lines each of 9, 3 hosts, 2 words to `hostname add`, backlog 1, body of 8 units |
| `command_ipc_refused` | violation of `RefusedDoesNothing` | same |
| `hash_table` | `FoundByProbing`, `HalfFree`, `ProbesEnd`, `FilterWellFormed`, `RightUnlessMoved`, `ImplementsDictionary`, `CallsEnd` | 3 keys, capacity 2 growing to 8, 3 hash functions |

Every passing run also checks its module's `TypeOK`. Where types alone say little it says
more: in `CaptureControl` that main never stops the capture, that the server thread never
ends and that only a start signals; in `CommandIpc` that never are more requests of a
client run than it typed. The bounds are enough for
what they bound: the queue can empty, refill and lose a packet and still go on
with four packets; gaps below, at and above the interval occur in a row with
five seconds and an interval of three (the code's is 20; only comparisons with
it matter); two hosts share one of three addresses; the entries of three hosts
give answers of one and two rows that fit, one that overruns and some that are
cut off, and lines have too few words, too many, no verb at all and spare spaces
(`MAX_WORDS` is two there, four in the code); three keys make the table grow twice, collide in
the first, the middle and the last slot, wrap around and leave holes. The runs of `PacketQueue`,
`Accounting` and `CommandIpc` end when their bound is used up or the process is
dead, so deadlock is not checked there; it is in the other three.

The violations are disagreements between the code and what it says of itself,
and are listed with their lines under `findings`: a packet linked behind a node
being removed is lost; a signal before the wait is lost, and its packet waits
for the next one; a clock set back makes a total negative; an accepted
`hostname add` may leave its host unmonitored; the capture may run with no filter
and then reads through a null host name; a line the client refuses makes the
server run an old command again.

### Fairness

Fairness is assumed only of threads that have something to do: a thread in the
middle of `start_pcap`, `stop_pcap`, `enqueue`, `dequeue`, the hash table or the server
loop keeps running (weak fairness), and one that waits for `mutex2` gets it eventually
(strong fairness: the holders keep it for a few instructions, and the capture
thread gives it up for each dispatch). No fairness is assumed of packets, of
`pcap_dispatch`, of clients, of spurious wake-ups or of failures. Where a
property needs more it says so: `StopQuiesces` supposes that dispatches return
(the 1000 ms timeout of line 269) and `WaitsEnd` that the other clients leave some
day.

`WakeupDrains` speaks of the packets in the queue at the wake-up, each of which is
handled, and not of an empty queue, which endless traffic need never bring about;
that arrivals end at `MaxPackets` makes no difference to it. `WaitsEnd` is about the end
of a wait, not about an answer. The wait ends with the client's own answer as long as
the client stays, the answers fit and the server lives; but a client that leaves while
its command runs kills the server with SIGPIPE (`WriteToNobody`), although
`server_loop.c` 47-51 means to report the error and go on, and then the clients behind it
read nothing. That the server survives its clients is therefore no property here.

## 5. Proofs

Each theorem holds for all values of the constants that satisfy the named
assumptions of its module; they keep the names of hosts, threads and
special values apart and bounds in `Nat`. Some say more: the hash table starts with an
even capacity of two at least (`INITIAL_CAPACITY` is a power of two); the interval of a
session and the backlog are not zero; a lookup that succeeds returns some address; and
in a line no two pieces stand side by side without a space, which only says that a
piece is a whole word.

- `CaptureControlProofs`: `TypeCorrect`, `MutualExclusion`, `NoStartIsLost`,
  `ControlImplementsSwitch`. The invariant is the conjunction of `TypeOK`,
  `LockDiscipline` and `NoLostStart`. The last is inductive only with mutual exclusion:
  the flag cannot change between the test and the wait because the tester holds
  the lock. The refinement needs it as well: the flag read at the last test is
  still the flag when the batch is committed to.
- `PacketQueueProofs`: `TypeCorrect`, `DequeueIsSafe`, `HandledInOrder`, `QueueIntact`,
  `QueueImplementsChannel`. The invariant
  adds: the head does not become null while `dequeue` is between its test and
  its store; every node either thread can reach is at most `count`; links and the
  packet in hand only lead forward. It holds with or without the race, which is
  why a damaged queue still hands out packets in order. `QueueIntact` proves
  `IntactUntilRaced` from a second invariant, `Intact`: until the race, the nodes from the
  head on are consecutive, the last is the tail or the one `enqueue` is about to
  make the tail, and what precedes the head has been handled or is in hand. That
  the chain of nodes is this interval is induction along the list. The refinement
  rests on both invariants: at the load of the head in `dequeue` all packets before it
  have been handled, and none after the one taken last, so the head is the next.
- `AccountingProofs`: `TypeCorrect`, `SecondsConserved`, `TotalsNeverFall`,
  `LossIsBounded`. The invariant ties `last` to the greatest visit of this life and
  `save` to the session being stored. The core is the lemma that adding a visit
  `t` after the last one `v` adds the seconds `v` to `t - 1` to `Watched` if the gap is
  below the interval and none otherwise.
- `HostRegistryProofs`: `TypeCorrect`, `QueuedPacketsKnown`, `AcceptedInStep`,
  `FilterNeverShrinks`. The invariant says that the filter, unless it is the null one,
  is contained in the mapped addresses, that buffered and queued addresses came
  through it, and which hosts of a request have rows at each stage.
- `HashTableProofs`: `TypeCorrect`, `KeysAreReachable`, `HalfStaysFree`,
  `RightUnlessTheArrayMoves`, `TableImplementsDictionary`, `FilterIsWellFormed`,
  `EveryProbeEnds`. They depend on each other:
  `count` is right only if an insertion never meets its key again, which needs
  reachability (`AbsentKey`: of two slots of a probe one is on the way to the other),
  and a rehash keeps it only if no key is in two slots of the old array, even while
  that has a hole. The invariant (`HInv`) therefore joins types, the stages of a
  call, reachability, distinct keys and the number of entries copied so far.
  `FInv` adds the values: a rehash has copied the values with the keys, a slot
  without a key has none, and the slots a get has passed hold other keys as long as
  the array stays where it is. From it follow the answer of the get and the map.
  `EveryProbeEnds` is the safe half of `CallsEnd`: since half of the slots are free,
  every probe, also one of the array being filled, comes to a slot that holds its
  key or nothing; of these it ends at the one with the least distance.
  `FilterIsWellFormed` follows the iterator slot by slot: after `i` slots it has
  returned their keys, each once, and as many as are occupied, so the number of
  the last is `count`.
- `CommandCodecProofs`: `ExtractKeeps`, `SplitUndoesJoin`, `WordsAsTyped`,
  `StatisticsRoundTrip`. They say what the operators of `CommandCodec` compute for texts,
  lists and rows of any length. The lemmas show first that each recursive
  definition (`extract_words`, `deserialize_sessions`, `FlattenSeq`) has the function it
  stands for, then what one more piece, word or row adds to it. The round trip of
  the statistics needs that the length in each entry leads to the next one; it
  holds for any sizes of names.
- `CommandIpcProofs`: `TypeCorrect`, `AnswersAreInStep`, `AnswersHold`,
  `StatisticsAreRows`, `CommandsRunAsTyped`. The invariant is `Types`, which holds
  always (its `Counted` weighs the requests in the socket, being run and run against
  those typed, and gives `runs[c] <= id[c]`), and `InStep`: while the server runs and no answer overran its buffer,
  `Standing` holds of every client. It says that a request typed and not yet shown
  its answer is in one place only, the client's socket, the command being run, the
  answer being written or the socket back (`Asked`, `InRun`, `Answering`, `Sent`); that in
  each the identifier, the command and the answer are those of the line; and that
  whoever is at its prompt after an answer is still the one served. None of the
  properties is inductive: `AnswerInStep` speaks of the prompt alone, and is true
  there because of where the request was before. `AnswersHold` needs that the one
  served is the one told, for no command changes the table or the capture between.
  `CommandsRunAsTyped` needs the codec's theorems, and that `args` is always the text of
  words joined (`Joined`): then splitting it gives those words, and it has a first
  word for `strtok` to leave.
- `SetInduction` holds no theorem about the program. The library's induction takes
  a predicate as a parameter, which the provers cannot instantiate; a set in its
  place does, and its induction follows from the well-foundedness of inclusion
  between finite sets. `RecursiveFunction` says that a function defined by a first
  value and a step exists.

### Only model-checked

Liveness: `StartTakesEffect`, `StopQuiesces`, `CallsReturn`, `WakeupDrains`,
`WaitsEnd`, and `CallsEnd` of the hash table. Fairness speaks of enabled steps,
and the prover does not reason about `ENABLED`. The invariants they rest on are
proved (`NoLostStart`, `DequeueFindsPacket`, `AnswerInStep`, `ProbesEnd`). Every other
property of a passing run is a theorem.

## 6. Not modelled

- What is printed: the table of the statistics (`printer.c`, `dynamic_string.c`,
  `format_duration`), the wording of messages, `print_hash_table`.
- The heap: memory that is never freed, failures to allocate except the one
  `enqueue` handles, the byte that `deserialize_sessions` writes past a name, the
  one-byte string `print_sessions` starts from. A read of freed items by a get is
  modelled up to the point where it happens.
- `ht_destroy`, which only tests and the end of `main()`, never reached, call.
- libpcap's buffer: `packet_handler` queues pointers that are valid during the
  callback only; their contents are taken to be intact. When libpcap reuses the
  memory is not in this repository.
- Addresses as text, packets that are neither IPv4 nor IPv6, integer widths of
  times and totals.
- `request_handler.c`, which is commented out, and the tests.
