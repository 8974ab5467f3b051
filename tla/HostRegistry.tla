---------------------------- MODULE HostRegistry ----------------------------
(***************************************************************************)
(* Which hosts are monitored: the names in host_stats, the addresses in    *)
(* ip_to_domain and the capture filter, kept in step by init_pcap at boot  *)
(* and by add_hosts_to_listen, while packets are captured with the filter  *)
(* of one moment and looked up in the table of a later one.                *)
(*                                                                         *)
(* The server thread runs `hostname add` in the steps between which the    *)
(* draining thread can look up an address or make a row: read the names,   *)
(* then for each host put its addresses in the table and insert its row,   *)
(* then install the filter.  Name resolution is any answer in Answers, or  *)
(* none.  libpcap drops what it has buffered when a filter is installed.   *)
(***************************************************************************)
EXTENDS Naturals, Sequences

CONSTANTS Hosts,
          Addrs,     \* destination addresses on the network
          NoHost,    \* an address that is not in ip_to_domain
          All,       \* the filter compiled from a null expression
          Answers,   \* what getaddrinfo may return for each host
          Requests   \* the argument lists of `hostname add`

ASSUME RegistryAssumption ==
  /\ NoHost \notin Hosts
  /\ \A f \in SUBSET Addrs : f # All
  /\ Answers \in [Hosts -> SUBSET (SUBSET Addrs \ {{}})]
  /\ Requests \subseteq Seq(Hosts)

VARIABLES up,         \* the server process runs
          rows,       \* names in host_stats
          domain,     \* ip_to_domain: the host of each address, or NoHost
          filter,     \* addresses the capture lets through, or All
          capturing,  \* ctx->paused is 0
          main,       \* main(): before or after its test of ip_to_domain
          unresolved, \* hosts main() still has to resolve
          buffer,     \* addresses of the packets libpcap has buffered
          queue,      \* addresses of the packets in packet_queue
          stage,      \* the server thread in add_hosts_to_listen
          todo,       \* hosts of the request still to be treated
          asked,      \* the hosts of the current or the last request
          names,      \* hostnames, as read from host_stats for this request
          reply,      \* outcome of the last request
          unfiltered  \* history: a packet was captured without a filter

capture  == <<filter, capturing, main, buffer, unfiltered>>
server   == <<stage, todo, asked, names, reply>>
vars == <<up, rows, domain, capture, unresolved, queue, server>>

Mapped == {a \in Addrs : domain[a] # NoHost}

\* ht_set of every address of an answer.
MapTo(table, answer, h) == [a \in Addrs |-> IF a \in answer THEN h ELSE table[a]]

FilterUngrouped(table) ==  \* variant: the addresses restrict ip6 only, not ip
  IF \A a \in Addrs : table[a] = NoHost THEN All ELSE Addrs

\* build_filter_from_ip_to_domain, compiled: an empty table gives a null
\* expression, which lets everything through.
FilterOf(table) == IF \A a \in Addrs : table[a] = NoHost THEN All
                   ELSE {a \in Addrs : table[a] # NoHost}

Passes(a, f) == IF f = All THEN TRUE ELSE a \in f

-----------------------------------------------------------------------------
\* Everything but host_stats starts afresh with the process.
Off ==
  /\ up = FALSE
  /\ domain = [a \in Addrs |-> NoHost]
  /\ filter = All /\ capturing = FALSE /\ main = "boot" /\ unresolved = {}
  /\ buffer = {} /\ queue = {}
  /\ stage = "idle" /\ todo = <<>> /\ asked = {} /\ names = {}
  /\ reply = "none"
  /\ unfiltered = FALSE

Init == Off /\ rows = {}

\* The process dies, for whatever reason.
Dies ==
  /\ up' = FALSE
  /\ domain' = [a \in Addrs |-> NoHost]
  /\ filter' = All /\ capturing' = FALSE /\ main' = "boot" /\ unresolved' = {}
  /\ buffer' = {} /\ queue' = {}
  /\ stage' = "idle" /\ todo' = <<>> /\ asked' = {} /\ names' = {}
  /\ reply' = "none"
  /\ unfiltered' = FALSE

-----------------------------------------------------------------------------
(* main(), before it waits for its threads.                                *)

\* The process starts and reads the names of host_stats.
Launch ==
  /\ ~up
  /\ up' = TRUE
  /\ main' = "resolve"
  /\ unresolved' = rows
  /\ UNCHANGED <<rows, domain, filter, capturing, buffer, unfiltered, queue, server>>

\* The hosts are resolved in the order of the table, which is any order here.
BootResolves(h) ==
  /\ main = "resolve" /\ h \in unresolved
  /\ \E answer \in Answers[h] : domain' = MapTo(domain, answer, h)
  /\ unresolved' = unresolved \ {h}
  /\ UNCHANGED <<up, rows, capture, queue, server>>

\* The first failure ends the resolution, and main() ignores it.
BootLookupFails ==
  /\ main = "resolve" /\ unresolved # {}
  /\ unresolved' = {}
  /\ UNCHANGED <<up, rows, domain, capture, queue, server>>

\* init_pcap installs the filter, and the threads start.
InitPcap ==
  /\ main = "resolve" /\ unresolved = {}
  /\ filter' = FilterOf(domain)
  /\ main' = "check"
  /\ UNCHANGED <<up, rows, domain, capturing, buffer, unfiltered, unresolved,
                 queue, server>>

\* main() starts the capture if the table has an address by now.
MainChecks ==
  /\ main = "check"
  /\ capturing' = (capturing \/ Mapped # {})
  /\ main' = "joined"
  /\ UNCHANGED <<up, rows, domain, filter, buffer, unfiltered, unresolved,
                 queue, server>>

-----------------------------------------------------------------------------
(* The server thread: `hostname add`.                                      *)

Running == main \in {"check", "joined"}

Answer(r) == stage' = "idle" /\ todo' = <<>> /\ names' = {} /\ reply' = r

BeginAdd(request) ==
  /\ Running /\ stage = "idle"
  /\ stage' = "names"
  /\ todo' = request
  /\ asked' = {request[i] : i \in DOMAIN request}
  /\ reply' = "none"
  /\ UNCHANGED <<up, rows, domain, capture, unresolved, queue, names>>

\* get_hostnames_from_db: a read that breaks off early is not reported and
\* returns the names it got.
ReadNames ==
  /\ stage = "names"
  /\ names' \in SUBSET rows
  /\ stage' = "host"
  /\ UNCHANGED <<up, rows, domain, capture, unresolved, queue, todo, asked, reply>>

AlreadyHere == todo # <<>> /\ Head(todo) \in names

\* "is already here": nothing is resolved or mapped for this host.
SkipHost ==
  /\ stage = "host" /\ AlreadyHere
  /\ todo' = Tail(todo)
  /\ UNCHANGED <<up, rows, domain, capture, unresolved, queue, stage, asked,
                 names, reply>>

ResolveHostAdvances ==  \* variant: the index moves on before the row is made
  /\ stage = "host" /\ todo # <<>> /\ Head(todo) \notin names
  /\ \E answer \in Answers[Head(todo)] :
       domain' = MapTo(domain, answer, Head(todo))
  /\ todo' = Tail(todo)
  /\ stage' = "row"
  /\ UNCHANGED <<up, rows, capture, unresolved, queue, asked, names, reply>>

\* The addresses of one answer go into the table one by one; here in one step,
\* since the filter that lets their packets through is installed only later.
ResolveHost ==
  /\ stage = "host" /\ todo # <<>> /\ Head(todo) \notin names
  /\ \E answer \in Answers[Head(todo)] :
       domain' = MapTo(domain, answer, Head(todo))
  /\ stage' = "row"
  /\ UNCHANGED <<up, rows, capture, unresolved, queue, todo, asked, names, reply>>

InsertRowSkipped ==  \* variant: update_ip_domain_table makes no row
  /\ stage = "row" /\ Head(todo) \notin rows
  /\ todo' = Tail(todo)
  /\ stage' = "host"
  /\ UNCHANGED <<up, rows, domain, capture, unresolved, queue, asked, names, reply>>

\* The plain INSERT of insert_default_session_in_db.
InsertRow ==
  /\ stage = "row" /\ Head(todo) \notin rows
  /\ rows' = rows \cup {Head(todo)}
  /\ todo' = Tail(todo)
  /\ stage' = "host"
  /\ UNCHANGED <<up, domain, capture, unresolved, queue, asked, names, reply>>

\* The names cannot be read, the host cannot be resolved, its row exists by
\* now or cannot be written, or libpcap refuses the filter: the request ends
\* there, and what it did so far stays done.
AddFails ==
  /\ stage # "idle" /\ ~(stage = "host" /\ AlreadyHere)
  /\ Answer("error")
  /\ UNCHANGED <<up, rows, domain, capture, unresolved, queue, asked>>

InstallOwnFilter ==  \* variant: the filter is built from this request's hosts
  /\ stage = "host" /\ todo = <<>>
  /\ filter' = {a \in Addrs : domain[a] \in asked}
  /\ buffer' = {}
  /\ Answer("ok")
  /\ UNCHANGED <<up, rows, domain, capturing, main, unfiltered, unresolved,
                 queue, asked>>

InstallFilter ==
  /\ stage = "host" /\ todo = <<>>
  /\ filter' = FilterOf(domain)
  /\ buffer' = {}
  /\ Answer("ok")
  /\ UNCHANGED <<up, rows, domain, capturing, main, unfiltered, unresolved,
                 queue, asked>>

\* `server start`, refused while host_stats is empty, and `server stop`.
StartCapture ==
  /\ Running /\ stage = "idle" /\ rows # {}
  /\ capturing' = TRUE
  /\ UNCHANGED <<up, rows, domain, filter, main, buffer, unfiltered, unresolved,
                 queue, server>>

StopCapture ==
  /\ Running /\ stage = "idle"
  /\ capturing' = FALSE
  /\ UNCHANGED <<up, rows, domain, filter, main, buffer, unfiltered, unresolved,
                 queue, server>>

-----------------------------------------------------------------------------
(* Packets.                                                                *)

\* The device is open: packets are buffered even while the capture is paused.
Arrive(a) ==
  /\ Running /\ Passes(a, filter)
  /\ buffer' = buffer \cup {a}
  /\ UNCHANGED <<up, rows, domain, filter, capturing, main, unfiltered,
                 unresolved, queue, server>>

\* pcap_dispatch gives a packet to packet_handler.
Dispatch(a) ==
  /\ capturing /\ a \in buffer
  /\ buffer' = buffer \ {a}
  /\ queue' = queue \cup {a}
  /\ unfiltered' = (unfiltered \/ filter = All)
  /\ UNCHANGED <<up, rows, domain, filter, capturing, main, unresolved, server>>

\* The draining thread finds the host, and may make a row for its session.
HandlePacket(a) ==
  /\ a \in queue /\ domain[a] # NoHost
  /\ queue' = queue \ {a}
  /\ rows' \in {rows, rows \cup {domain[a]}}
  /\ UNCHANGED <<up, domain, capture, unresolved, server>>

\* The address is unknown: ht_get(sessions_table, NULL) reads through the
\* null key.
HandleUnknown(a) ==
  /\ a \in queue /\ domain[a] = NoHost
  /\ Dies /\ UNCHANGED rows

Killed == up /\ Dies /\ UNCHANGED rows

-----------------------------------------------------------------------------
Boot == (\E h \in Hosts : BootResolves(h)) \/ BootLookupFails \/ InitPcap
          \/ MainChecks

ServerStep ==
  \/ \E request \in Requests : BeginAdd(request)
  \/ ReadNames \/ SkipHost \/ ResolveHost \/ InsertRow \/ AddFails
  \/ InstallFilter \/ StartCapture \/ StopCapture

PacketStep(a) == Arrive(a) \/ Dispatch(a) \/ HandlePacket(a) \/ HandleUnknown(a)

Next ==
  \/ Launch
  \/ Boot
  \/ ServerStep
  \/ \E a \in Addrs : PacketStep(a)
  \/ Killed

Spec == Init /\ [][Next]_vars

-----------------------------------------------------------------------------
(* Properties.                                                             *)

TypeOK ==
  /\ up \in BOOLEAN
  /\ rows \subseteq Hosts
  /\ domain \in [Addrs -> Hosts \cup {NoHost}]
  /\ filter = All \/ filter \subseteq Addrs
  /\ capturing \in BOOLEAN
  /\ main \in {"boot", "resolve", "check", "joined"}
  /\ buffer \subseteq Addrs /\ queue \subseteq Addrs
  /\ unfiltered \in BOOLEAN
  /\ unresolved \subseteq Hosts
  /\ stage \in {"idle", "names", "host", "row"}
  /\ todo \in Seq(Hosts)
  /\ stage = "row" => todo # <<>>
  /\ asked \subseteq Hosts /\ names \subseteq Hosts
  /\ reply \in {"none", "ok", "error"}

\* Unless packets were captured without a filter, every queued packet leads
\* to a host, however the table and the filter changed since it was captured:
\* the null hostname of sniffing.c:70-72 needs a null filter (sniffing.c:
\* 177-199, 238-240, 306-318).
KnownUntilUnfiltered == ~unfiltered => queue \subseteq Mapped

\* An accepted `hostname add` leaves every host it named in host_stats and the
\* filter in step with the table, whatever earlier requests left half done
\* (sniffing.c:218-252, 306-318).
AcceptedMeansInStep ==
  reply = "ok" => asked \subseteq rows /\ filter = FilterOf(domain)

\* While the process lives, an address once captured stays captured: no
\* request, failed or not, narrows the filter (sniffing.c:238-240, 306-318).
FilterGrows ==
  [][up /\ up' /\ filter # All => filter' # All /\ filter \subseteq filter']_vars

\* A host whose `hostname add` was accepted is monitored: some address of its
\* is captured and counted for it (README.md:67-71).
AddedIsMonitored ==
  reply = "ok" =>
    \A h \in asked : \E a \in Addrs : domain[a] = h /\ Passes(a, filter)

\* The address of every queued packet leads to a host, so that the lookup of
\* its session has a key (hashmap.h:26-28, sniffing.c:70-72).
OnlyKnownPackets == queue \subseteq Mapped
=============================================================================
