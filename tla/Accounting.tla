----------------------------- MODULE Accounting -----------------------------
(***************************************************************************)
(* Time accounting: how packet_queue_loop turns the packets of a host into *)
(* a session and adds its seconds to the host's row of host_stats, while   *)
(* the server thread registers hosts in the same table and the process may *)
(* die between any two steps.                                              *)
(*                                                                         *)
(* The sessions table (live, last, save) dies with the process; host_stats *)
(* (rows, total) survives it.  A call of sqlite3_step is one step, between *)
(* the steps of its caller.  Packets reach the loop in the order of their  *)
(* timestamps: PacketQueue!InOrder, and a clock that is not set back (see  *)
(* AdjustedSpec for one that is).                                          *)
(***************************************************************************)
EXTENDS Integers, FiniteSets

CONSTANTS Hosts,
          None,      \* no host
          Interval,  \* SESSION_REINIT_INTERVAL, in seconds
          MaxTime,   \* bound of the instance: the last second
          MaxBoots   \* bound of the instance: restarts of the process

ASSUME NoneAssumption == None \notin Hosts

ASSUME BoundsAssumption ==
  /\ Interval \in Nat \ {0}
  /\ MaxTime \in Nat
  /\ MaxBoots \in Nat

Time == 0..MaxTime
Boot == 0..MaxBoots

VARIABLES clock,   \* timestamp of the latest packet handled
          mapped,  \* hosts some address of ip_to_domain leads to
          live,    \* hosts with a session in sessions_table
          last,    \* session->last_visit
          save,    \* session->time_to_save
          storing, \* the host whose session insert_session stores, or None
          rows,    \* hosts with a row in host_stats
          total,   \* TOTAL_DURATION of each row
          stage,   \* the server thread in update_ip_domain_table
          target,  \* the host it registers, or None
          boot,    \* history: restarts so far
          visits,  \* history: <<boot, second>> of every packet of a host
          lost     \* history: seconds a failed write or a crash dropped

memory  == <<mapped, live, last, save>>
table   == <<rows, total>>
server  == <<stage, target>>
history == <<boot, visits, lost>>
vars == <<clock, memory, storing, table, server, history>>

-----------------------------------------------------------------------------
\* An empty database, or a row left by an earlier life of the program: what
\* matters of a row is what is added to it, so totals count from zero.
Init ==
  /\ clock = 0
  /\ rows \in SUBSET Hosts
  /\ mapped \in SUBSET rows
  /\ live = {}
  /\ last = [h \in Hosts |-> 0]
  /\ save = [h \in Hosts |-> 0]
  /\ storing = None
  /\ total = [h \in Hosts |-> 0]
  /\ stage = "idle"
  /\ target = None
  /\ boot = 0
  /\ visits = [h \in Hosts |-> {}]
  /\ lost = [h \in Hosts |-> 0]

-----------------------------------------------------------------------------
(* The draining thread: one packet of host h with timestamp t.             *)

\* Common to the four branches.
Packet(h, t) ==
  /\ storing = None /\ h \in mapped
  /\ clock' = t
  /\ visits' = [visits EXCEPT ![h] = @ \cup {<<boot, t>>}]
  /\ UNCHANGED <<mapped, table, server, boot, lost>>

Create(h, t) ==
  /\ Packet(h, t)
  /\ h \notin live
  /\ live' = live \cup {h}
  /\ last' = [last EXCEPT ![h] = t]
  /\ save' = [save EXCEPT ![h] = 0]
  /\ storing' = h

SameSecond(h, t) ==
  /\ Packet(h, t)
  /\ h \in live /\ t = last[h]
  /\ UNCHANGED <<live, last, save, storing>>

Reinit(h, t) ==
  /\ Packet(h, t)
  /\ h \in live /\ t - last[h] >= Interval
  /\ last' = [last EXCEPT ![h] = t]
  /\ UNCHANGED <<live, save, storing>>

EditLate(h, t) ==  \* variant: `>` for `>=` in the test of the interval
  /\ Packet(h, t)
  /\ h \in live /\ t # last[h] /\ t - last[h] <= Interval
  /\ save' = [save EXCEPT ![h] = @ + (t - last[h])]
  /\ last' = [last EXCEPT ![h] = t]
  /\ storing' = h
  /\ UNCHANGED live

EditUnsaved(h, t) ==  \* variant: the time is kept for a later insert_session
  /\ Packet(h, t)
  /\ h \in live /\ t # last[h] /\ t - last[h] < Interval
  /\ save' = [save EXCEPT ![h] = @ + (t - last[h])]
  /\ last' = [last EXCEPT ![h] = t]
  /\ UNCHANGED <<live, storing>>

Edit(h, t) ==
  /\ Packet(h, t)
  /\ h \in live /\ t # last[h] /\ t - last[h] < Interval
  /\ save' = [save EXCEPT ![h] = @ + (t - last[h])]
  /\ last' = [last EXCEPT ![h] = t]
  /\ storing' = h
  /\ UNCHANGED live

StoreKeepsSave ==  \* variant: time_to_save is not reset after the write
  /\ storing # None
  /\ rows' = rows \cup {storing}
  /\ total' = [total EXCEPT ![storing] = @ + save[storing]]
  /\ storing' = None
  /\ UNCHANGED <<clock, memory, server, history>>

\* INSERT ... ON CONFLICT DO UPDATE adds to the row or makes one, and the
\* loop resets time_to_save.
Store ==
  /\ storing # None
  /\ rows' = rows \cup {storing}
  /\ total' = [total EXCEPT ![storing] = @ + save[storing]]
  /\ save' = [save EXCEPT ![storing] = 0]
  /\ storing' = None
  /\ UNCHANGED <<clock, mapped, live, last, server, history>>

\* sqlite3_prepare or sqlite3_step fails: the loop ignores the return code
\* and resets time_to_save all the same.
StoreFails ==
  /\ storing # None
  /\ save' = [save EXCEPT ![storing] = 0]
  /\ lost' = [lost EXCEPT ![storing] = @ + save[storing]]
  /\ storing' = None
  /\ UNCHANGED <<clock, mapped, live, last, table, server, boot, visits>>

-----------------------------------------------------------------------------
(* The server thread: `hostname add` for one host.                         *)

\* The host is not among the names read from host_stats.  It may have a row all
\* the same: a SELECT that breaks off early returns what it read, unreported.
Register(h) ==
  /\ stage = "idle"
  /\ stage' = "resolve" /\ target' = h
  /\ UNCHANGED <<clock, memory, storing, table, history>>

\* getaddrinfo fails.
LookupFails ==
  /\ stage = "resolve"
  /\ stage' = "idle" /\ target' = None
  /\ UNCHANGED <<clock, memory, storing, table, history>>

\* Its addresses go into ip_to_domain: its packets now reach its session.
MapHost ==
  /\ stage = "resolve"
  /\ mapped' = mapped \cup {target}
  /\ stage' = "insert"
  /\ UNCHANGED <<clock, live, last, save, storing, table, target, history>>

InsertDefaultReplaces ==  \* variant: INSERT OR REPLACE
  /\ stage = "insert"
  /\ rows' = rows \cup {target}
  /\ total' = [total EXCEPT ![target] = 0]
  /\ stage' = "idle" /\ target' = None
  /\ UNCHANGED <<clock, memory, storing, history>>

\* A plain INSERT: it fails on the UNIQUE constraint if the host has a row, which
\* the draining thread may have made since the names were read.  Any other failure of the
\* write has the same effect on the table.
InsertDefault ==
  /\ stage = "insert"
  /\ rows' \in {rows, rows \cup {target}}
  /\ stage' = "idle" /\ target' = None
  /\ UNCHANGED <<clock, memory, storing, total, history>>

-----------------------------------------------------------------------------
\* The process dies and is started again: main() maps the hosts of host_stats
\* that it can resolve.
Restart ==
  /\ boot < MaxBoots
  /\ boot' = boot + 1
  /\ lost' = [h \in Hosts |-> lost[h] + save[h]]
  /\ mapped' \in SUBSET rows
  /\ live' = {}
  /\ last' = [h \in Hosts |-> 0]
  /\ save' = [h \in Hosts |-> 0]
  /\ storing' = None
  /\ stage' = "idle" /\ target' = None
  /\ UNCHANGED <<clock, table, visits>>

Branch(h, t) == Create(h, t) \/ SameSecond(h, t) \/ Reinit(h, t) \/ Edit(h, t)

ServerStep ==
  (\E h \in Hosts : Register(h)) \/ LookupFails \/ MapHost \/ InsertDefault

Next ==
  \/ \E h \in Hosts, t \in clock..MaxTime : Branch(h, t)
  \/ Store
  \/ StoreFails
  \/ ServerStep
  \/ Restart

Spec == Init /\ [][Next]_vars

\* The wall clock pcap stamps packets with may be set back between packets.
AdjustedNext ==
  \/ \E h \in Hosts, t \in Time : Branch(h, t)
  \/ Store
  \/ StoreFails
  \/ ServerStep
  \/ Restart

AdjustedSpec == Init /\ [][AdjustedNext]_vars

-----------------------------------------------------------------------------
(* Properties.                                                             *)

TypeOK ==
  /\ clock \in Time
  /\ mapped \subseteq Hosts
  /\ live \subseteq Hosts
  /\ last \in [Hosts -> Time]
  /\ save \in [Hosts -> 0..(Interval - 1)]
  /\ storing \in Hosts \cup {None}
  /\ rows \subseteq Hosts
  /\ total \in [Hosts -> Nat]
  /\ stage \in {"idle", "resolve", "insert"}
  /\ target \in Hosts \cup {None}
  /\ stage # "idle" => target \in Hosts
  /\ boot \in Boot
  /\ visits \in [Hosts -> SUBSET (Boot \X Time)]
  /\ lost \in [Hosts -> Nat]

\* The time spent on a host, by definition: the seconds between two packets
\* of the host, with none in between, that one life of the process saw less
\* than Interval apart.
Adjacent(V, b, v, w) ==
  /\ <<b, v>> \in V /\ <<b, w>> \in V
  /\ \A u \in Time : v < u /\ u < w => <<b, u>> \notin V

Watched(V) ==
  {s \in Time : \E b \in Boot, v, w \in Time :
                   /\ v <= s /\ s < w /\ w - v < Interval
                   /\ Adjacent(V, b, v, w)}

\* Every watched second is in the table, about to be written, or was dropped
\* by a write that failed or a crash; none is counted twice, whatever the
\* registrations that ran meanwhile (sniffing.c:72-99, db.c:88-151).
Conservation ==
  \A h \in Hosts :
    total[h] + save[h] + lost[h] = Cardinality(Watched(visits[h]))

\* Rows of host_stats never go away and totals never go down (db.c:90-93,
\* 124-125).
TotalsGrow ==
  [][rows \subseteq rows' /\ \A h \in Hosts : total'[h] >= total[h]]_vars

\* A failed write or a crash costs less than Interval seconds, of the one
\* host whose session was being stored (sniffing.c:94-98).
LossBounded ==
  [][\A h \in Hosts :
       /\ lost'[h] - lost[h] < Interval
       /\ lost'[h] # lost[h] => storing = h]_vars

\* The time spent on a host is not negative.
NeverNegative == \A h \in Hosts : total[h] >= 0
=============================================================================
