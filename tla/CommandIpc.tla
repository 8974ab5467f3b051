----------------------------- MODULE CommandIpc -----------------------------
(***************************************************************************)
(* Commands between the clients and the server: server_loop serves one     *)
(* connection at a time and answers each read with one write; a client     *)
(* types a command, writes one request, reads once and shows what it got.  *)
(*                                                                         *)
(* The socket is a stream, and a read takes what is there up to the size   *)
(* of its buffer, so answers are streams of UNITS: a header, the return    *)
(* code, the command code, and the entries of the statistics.  A request   *)
(* is one unit of the other direction: a line is short (INPUT_MAX_SIZE).   *)
(*                                                                         *)
(* `req` and the arguments of a command are locals that the server does    *)
(* not clear: they keep what the previous request left (the build is not   *)
(* optimised), and before the first request they hold anything.            *)
(*                                                                         *)
(* A client is one run of the client program.  main() has joined: its own  *)
(* start of the capture is in CaptureControl.  Left out: the row that the  *)
(* draining thread adds for a host whose own INSERT failed (HostRegistry). *)
(***************************************************************************)
EXTENDS CommandCodec

CONSTANTS Clients,
          Nobody,      \* no connection is being served
          Lines,       \* what is typed, neither empty nor INPUT_MAX_SIZE long
          MaxWords,    \* MAX_WORDS
          Junk,        \* lengths a string in uninitialised memory may have
          Backlog,     \* BACKLOG
          MaxRequests  \* bound of the instance: commands typed per client

ASSUME NamesAssumption == Nobody \notin Clients

ASSUME BoundsAssumption ==
  /\ Lines \subseteq Text
  /\ MaxWords \in Nat /\ Junk \subseteq Nat
  /\ Backlog \in Nat \ {0} /\ MaxRequests \in Nat

\* Between two pieces of a line there is a space: a piece is a whole word.
ASSUME LinesAssumption ==
  \A line \in Lines : \A i \in 1..(Len(line) - 1) : Space \in {line[i], line[i + 1]}

\* What a client sends: serialize_cmd of the command, or a header only.
Requests == [code : Codes \cup {"none"}, args : Text]

VARIABLES up,       \* the server process runs
          paused,   \* ctx->paused
          table,    \* the hosts of host_stats, in the order of a SELECT
          backlog,  \* connections not accepted yet
          served,   \* the connection of server_loop, or Nobody
          stage,    \* where server_loop stands with a request
          body,     \* command code in req.body
          args,     \* the text in cmd.raw_args
          fresh,    \* the command being run came with the current request
          reply,    \* the answer to be written
          client,   \* where each client stands
          typed,    \* the line it typed last
          id,       \* history: commands it has typed
          request,  \* requests in the socket of each client
          stream,   \* units of answers in the socket of each client
          shown,    \* received_req: the answer shown last
          runs,     \* history: requests of each client that were run
          overran   \* history: an answer did not fit its buffer

state   == <<paused, table>>
loop    == <<backlog, served, stage, body, args, fresh, reply>>
clients == <<client, typed, id, shown>>
sockets == <<request, stream>>
history == <<runs, overran>>
vars == <<up, state, loop, clients, sockets, history>>

-----------------------------------------------------------------------------
(* Answers.                                                                *)

ReturnCodes == {"ok", "error"}

AnswerSet == [id : 0..MaxRequests, code : Codes \cup {Unset}, rc : ReturnCodes,
              rows : Seq(Hosts), body_len : Nat]

\* What was never written is told apart from every value.
ASSUME UnsetAssumption == Unset \notin Codes \cup Text \cup AnswerSet

\* A header, the return code, the command code, then entries, or what
\* `hostname add` counts as a message.  The entries may fill all of DATA_SIZE
\* but one code.
HeaderSize == 1
CodesSize == 2
BodySize == Room + 1
Units(a) == [k \in 1..(HeaderSize + a.body_len) |-> [answer |-> a, part |-> k]]

\* One read of the client, and whether it is one whole answer (verify_packet).
Chunk(s) == SubSeq(s, 1, IF Len(s) < HeaderSize + BodySize
                         THEN Len(s) ELSE HeaderSize + BodySize)
Valid(chunk) == chunk = Units(chunk[1].answer)

-----------------------------------------------------------------------------
\* The first launch of the server, its socket listening: no host is known and
\* main() has not started the capture.  Rows come from `hostname add`.
Init ==
  /\ up = TRUE
  /\ paused = TRUE
  /\ table = <<>>
  /\ backlog = <<>> /\ served = Nobody /\ stage = "idle"
  /\ body = Unset /\ args = Unset /\ fresh = FALSE /\ reply = Unset
  /\ client = [c \in Clients |-> "new"]
  /\ typed = [c \in Clients |-> <<>>]
  /\ id = [c \in Clients |-> 0]
  /\ shown = [c \in Clients |-> Unset]
  /\ request = [c \in Clients |-> <<>>]
  /\ stream = [c \in Clients |-> <<>>]
  /\ runs = [c \in Clients |-> 0]
  /\ overran = FALSE

-----------------------------------------------------------------------------
(* A client.                                                               *)

Moves(c, pc) == client' = [client EXCEPT ![c] = pc]

\* The process ends: its memory and what it had not read go with it.
Leaves(c) ==
  /\ Moves(c, "gone")
  /\ shown' = [shown EXCEPT ![c] = Unset]
  /\ stream' = [stream EXCEPT ![c] = <<>>]

Connect(c) ==
  /\ client[c] = "new" /\ up /\ Len(backlog) < Backlog
  /\ backlog' = Append(backlog, c)
  /\ Moves(c, "prompt")
  /\ UNCHANGED <<up, state, served, stage, body, args, fresh, reply, typed, id,
                 shown, sockets, history>>

\* No server, or too many connections waiting: exit(EXIT_FAILURE).
ConnectFails(c) ==
  /\ client[c] = "new" /\ (~up \/ Len(backlog) >= Backlog)
  /\ Leaves(c)
  /\ UNCHANGED <<up, state, loop, typed, id, request, history>>

\* A command, or a line no command can be built from: the request is written
\* in either case.
Type(c, line) ==
  /\ client[c] = "prompt" /\ up /\ id[c] < MaxRequests
  /\ typed' = [typed EXCEPT ![c] = line]
  /\ id' = [id EXCEPT ![c] = @ + 1]
  /\ request' = [request EXCEPT ![c] = Append(@, build_cmd_from_str(line))]
  /\ Moves(c, "waiting")
  /\ UNCHANGED <<up, state, loop, shown, stream, history>>

\* Writing to a connection the server has lost ends the client (SIGPIPE).
TypeToNobody(c) ==
  /\ client[c] = "prompt" /\ ~up
  /\ Leaves(c)
  /\ UNCHANGED <<up, state, loop, typed, id, request, history>>

\* What is shown may be printed from memory that was never written:
\* deserialize_sessions sets nothing when there is no entry.
MayCrash(a) == IF a = Unset THEN TRUE
               ELSE a.code = "stats" /\ a.rc = "ok" /\ a.rows = <<>>

\* One read.  If it is no whole answer, received_req keeps the answer before
\* it, and that one is shown again.
ReadAnswer(c) ==
  /\ client[c] = "waiting" /\ stream[c] # <<>>
  /\ LET chunk == Chunk(stream[c])
         answer == IF Valid(chunk) THEN chunk[1].answer ELSE shown[c]
     IN  \/ /\ Moves(c, "prompt")
            /\ stream' = [stream EXCEPT ![c] = SubSeq(@, Len(chunk) + 1, Len(@))]
            /\ shown' = [shown EXCEPT ![c] = answer]
         \/ MayCrash(answer) /\ Leaves(c)
  /\ UNCHANGED <<up, state, loop, typed, id, request, history>>

\* The server is gone: the read returns nothing, and is taken for an answer.
ReadNothing(c) ==
  /\ client[c] = "waiting" /\ stream[c] = <<>> /\ ~up
  /\ \/ Moves(c, "prompt") /\ UNCHANGED <<shown, stream>>
     \/ MayCrash(shown[c]) /\ Leaves(c)
  /\ UNCHANGED <<up, state, loop, typed, id, request, history>>

\* End of input, or an interrupt at any time.
Quit(c) ==
  /\ client[c] \in {"prompt", "waiting"}
  /\ Leaves(c)
  /\ UNCHANGED <<up, state, loop, typed, id, request, history>>

-----------------------------------------------------------------------------
(* The server thread.                                                      *)

\* The process ends, with its connections.
ServerDies ==
  /\ up' = FALSE
  /\ backlog' = <<>> /\ served' = Nobody /\ stage' = "idle"
  /\ body' = Unset /\ args' = Unset /\ fresh' = FALSE /\ reply' = Unset
  /\ request' = [c \in Clients |-> <<>>]
  /\ UNCHANGED <<state, clients, stream, history>>

Accept ==
  /\ up /\ served = Nobody /\ backlog # <<>>
  /\ served' = Head(backlog)
  /\ backlog' = Tail(backlog)
  /\ UNCHANGED <<up, state, stage, body, args, fresh, reply, clients, sockets,
                 history>>

Reading == up /\ stage = "idle" /\ served # Nobody

HangupForgotten ==  \* variant: the connection is not given up at its end
  /\ Reading /\ request[served] = <<>> /\ client[served] = "gone"
  /\ UNCHANGED vars

\* read returns 0, or an error: close, and back to accept.
Hangup ==
  /\ Reading /\ request[served] = <<>> /\ client[served] = "gone"
  /\ served' = Nobody
  /\ UNCHANGED <<up, state, backlog, stage, body, args, fresh, reply, clients,
                 sockets, history>>

ReadRequestNoCopy ==  \* variant: only the header is copied into req
  /\ Reading /\ request[served] # <<>>
  /\ LET r == Head(request[served]) IN
       /\ body' = IF body = Unset THEN r.code ELSE body
       /\ args' = IF r.args = <<>> THEN args ELSE r.args
  /\ fresh' = TRUE
  /\ request' = [request EXCEPT ![served] = <<>>]
  /\ stage' = "run"
  /\ UNCHANGED <<up, state, backlog, served, reply, clients, stream, history>>

\* One request with a body replaces body and, if it has arguments, args.  A
\* header only, or two requests in one read (verify_packet refuses them),
\* leave a length of 0 and the body of the request before.
ReadRequest ==
  /\ Reading /\ request[served] # <<>>
  /\ LET r == Head(request[served]) IN
       IF Len(request[served]) = 1 /\ r # None
       THEN /\ body' = r.code
            /\ args' = IF r.args = <<>> THEN args ELSE r.args
            /\ fresh' = TRUE
       ELSE /\ body' \in (IF body = Unset THEN Codes \cup {Unset} ELSE {body})
            /\ fresh' = FALSE
            /\ UNCHANGED args
  /\ request' = [request EXCEPT ![served] = <<>>]
  /\ stage' = "run"
  /\ UNCHANGED <<up, state, backlog, served, reply, clients, stream, history>>

Running(code) == up /\ stage = "run" /\ body = code

Answers(rc, rows, size) ==
  /\ reply' = [id |-> id[served], code |-> body, rc |-> rc, rows |-> rows,
               body_len |-> CodesSize + size]
  /\ runs' = [runs EXCEPT ![served] = @ + 1]
  /\ stage' = "write"
  /\ UNCHANGED <<up, backlog, served, body, fresh, clients, sockets, overran>>

Replies(rc) == Answers(rc, <<>>, 0) /\ UNCHANGED args

RunStartFallsThrough ==  \* variant: no break after the case of `server start`
  /\ Running("start")
  /\ paused' = TRUE
  /\ Replies("ok")
  /\ UNCHANGED table

\* Refused while host_stats is empty, or seems to be.
RunStart ==
  /\ Running("start")
  /\ \/ table # <<>> /\ paused' = FALSE /\ Replies("ok")
     \/ UNCHANGED paused /\ Replies("error")
  /\ UNCHANGED table

RunStop ==
  /\ Running("stop")
  /\ paused' = TRUE
  /\ Replies("ok")
  /\ UNCHANGED table

\* The return code is never set.
RunList ==
  /\ Running("list")
  /\ \E rc \in ReturnCodes : Replies(rc)
  /\ UNCHANGED state

\* The hosts among the first n words that are not in the table yet.
New(words, n) ==
  FlattenSeq([i \in 1..n |-> IF words[i][1] \in ToSet(table) THEN <<>> ELSE words[i]])

RunAddTwice ==  \* variant: HOSTNAME is not UNIQUE
  /\ Running("add") /\ args # Unset
  /\ \E rc \in ReturnCodes, junk \in Junk :
       /\ table' = Append(table, extract_words(args)[1][1])
       /\ args' = extract_words(args)[1]
       /\ Answers(rc, <<>>, junk)
  /\ UNCHANGED paused

\* The hosts are added in turn, up to the first that fails: one that does not
\* resolve, or a new one named twice, which INSERT refuses; installing the
\* filter may fail after the last (HostRegistry).  strtok ends raw_args behind
\* its first word.  The answer counts as a message what strlen finds in a
\* buffer that nobody wrote, or that holds a name without its NUL.
RunAdd ==
  /\ Running("add") /\ args # Unset
  /\ \E words \in {extract_words(args)} :
       /\ \E rc \in ReturnCodes, junk \in Junk, n \in 0..Len(words) :
            /\ Len(words) > MaxWords => n = 0
            /\ \A i \in 1..n : words[i] \in {<<h>> : h \in Hosts}
            /\ IsInjective(New(words, n))
            /\ rc = "ok" => n = Len(words)
            /\ table' = table \o New(words, n)
            /\ Answers(rc, <<>>, junk)
       /\ args' = words[1]
  /\ UNCHANGED paused

\* Without arguments of its own the command reads a pointer that is not set:
\* what was there may be no string, or an empty one.
RunAddUnset ==
  /\ Running("add") /\ ~fresh
  /\ \/ ServerDies
     \/ /\ \E junk \in Junk : Answers("error", <<>>, junk)
        /\ UNCHANGED <<state, args>>

\* The read of the table may break off early, unreported, or fail.
RunStats ==
  /\ Running("stats")
  /\ \/ \E n \in 0..Len(table) :
          LET rows == SubSeq(table, 1, n)
              fit == Serialized(rows)
          IN  Answers(IF fit = n THEN "ok" ELSE "error", SubSeq(rows, 1, fit),
                      Size(SubSeq(rows, 1, fit)))
     \/ Answers("error", <<>>, 0)
  /\ UNCHANGED <<state, args>>

RunUnknown ==
  /\ Running(Unset)
  /\ Replies("error")
  /\ UNCHANGED state

TooLong == stage = "write" /\ reply.body_len > BodySize

\* An answer longer than res.body is copied over what follows it on the stack:
\* nothing may come of it, or the end of the process.
Overrun ==
  /\ up /\ TooLong
  /\ ServerDies

Write ==
  /\ up /\ stage = "write" /\ client[served] # "gone"
  /\ stream' = [stream EXCEPT ![served] = @ \o Units(reply)]
  /\ overran' = (overran \/ TooLong)
  /\ stage' = "idle" /\ reply' = Unset
  /\ UNCHANGED <<up, state, backlog, served, body, args, fresh, clients,
                 request, runs>>

\* SIGPIPE: nobody ignores it, and the process ends before write returns.
WriteToNobody ==
  /\ up /\ stage = "write" /\ client[served] = "gone"
  /\ ServerDies

-----------------------------------------------------------------------------
Run == RunStart \/ RunStop \/ RunList \/ RunAdd \/ RunAddUnset \/ RunStats
         \/ RunUnknown

ServerStep == Accept \/ Hangup \/ ReadRequest \/ Run \/ Overrun \/ Write
                \/ WriteToNobody

ClientReads(c) == ReadAnswer(c) \/ ReadNothing(c)

ClientStep(c) ==
  \/ Connect(c) \/ ConnectFails(c)
  \/ \E line \in Lines : Type(c, line)
  \/ TypeToNobody(c) \/ ClientReads(c) \/ Quit(c)

Next == ServerStep \/ \E c \in Clients : ClientStep(c)

Spec == Init /\ [][Next]_vars

\* The server thread keeps running (start_pcap and stop_pcap return, see
\* CaptureControl; name resolution and SQLite do), and so does a client that
\* has something to read.  Nothing obliges a client to type, or to leave.
Fairness == WF_vars(ServerStep) /\ \A c \in Clients : WF_vars(ClientReads(c))

FairSpec == Spec /\ Fairness

-----------------------------------------------------------------------------
(* Properties.                                                             *)

\* Every variable keeps to its values; no host is listed twice, no connection
\* waits twice, nothing is run for nobody, and never are more requests of a
\* client run than it typed, whoever quits, dies or overruns
\* (server_loop.c:30-60, cmd_handler.c:77-126).
TypeOK ==
  /\ up \in BOOLEAN
  /\ paused \in BOOLEAN
  /\ table \in Seq(Hosts) /\ IsInjective(table)
  /\ backlog \in Seq(Clients) /\ IsInjective(backlog) /\ Len(backlog) <= Backlog
  /\ served \in Clients \cup {Nobody}
  /\ stage \in {"idle", "run", "write"}
  /\ stage # "idle" => served # Nobody
  /\ body \in Codes \cup {Unset}
  /\ args \in Text \cup {Unset}
  /\ fresh \in BOOLEAN
  /\ reply \in AnswerSet \cup {Unset}
  /\ stage = "write" <=> reply # Unset
  /\ client \in [Clients -> {"new", "prompt", "waiting", "gone"}]
  /\ typed \in [Clients -> Lines \cup {<<>>}]
  /\ id \in [Clients -> 0..MaxRequests]
  /\ shown \in [Clients -> AnswerSet \cup {Unset}]
  /\ request \in [Clients -> Seq(Requests)]
  /\ \A c \in Clients :
       \A i \in DOMAIN stream[c] : stream[c][i].answer \in AnswerSet
  /\ runs \in [Clients -> 0..MaxRequests]
  /\ \A c \in Clients : runs[c] <= id[c]
  /\ overran \in BOOLEAN

\* As long as every answer fitted its buffer, a client back at its prompt has
\* been shown the answer to the very request it sent last, and that request
\* was run exactly once: nothing of an earlier request or of another client is
\* left in the socket or in received_req (server_loop.c:36-51, client_loop.c:
\* 81-91, protocol.c:58-69).
AnswerInStep ==
  \A c \in Clients :
    (up /\ ~overran /\ client[c] = "prompt" /\ id[c] > 0) =>
      /\ shown[c] # Unset
      /\ shown[c].id = id[c]
      /\ LET cmd == build_cmd_from_str(typed[c])
         IN  cmd # None => shown[c].code = cmd.code
      /\ runs[c] = id[c]
      /\ request[c] = <<>> /\ stream[c] = <<>>

\* What a client has been told still holds when it is back at its prompt,
\* because no other client is served before it leaves: an accepted stop or
\* start has the capture stopped or started, and after an accepted `hostname
\* add` every host on the typed line is in the table (server_loop.c:30-60,
\* cmd_handler.c:81-94).  A line that is no command is answered with a code
\* too, that of the command left in req: it says nothing of the line.
Told(c) == up /\ ~overran /\ client[c] = "prompt" /\ id[c] > 0 /\ shown[c].rc = "ok"

AnswerHolds ==
  \A c \in Clients : Told(c) =>
    /\ shown[c].code = "stop"  => paused
    /\ shown[c].code = "start" => ~paused
    /\ shown[c].code = "add" /\ build_cmd_from_str(typed[c]) # None =>
         ToSet(typed[c]) \cap Hosts \subseteq ToSet(table)

\* The statistics a client prints are rows the server has, from the first on:
\* reading the entries back never goes astray, whatever part of the table was
\* read and fitted (cmd_handler.c:9-51, session.c:6-48).
StatsAreRows ==
  \A c \in Clients : Told(c) /\ shown[c].code = "stats" =>
    IsPrefix(deserialize_sessions(Entries(shown[c].rows)), table)

\* The command the server runs is the one on the client's line, word for word
\* and whatever the spaces: splitting, building, joining, sending and splitting
\* again lose and merge nothing (cmd_builder.c:45-110, string_helpers.c:18-77,
\* cmd_serializer.c:8-50, cmd_handler.c:53-75).
WordsOf(line) ==
  FlattenSeq([i \in DOMAIN line |-> IF line[i] = Space THEN <<>> ELSE <<line[i]>>])
VerbsOf(code) == CASE code = "start" -> <<"server", "start">>
                   [] code = "stop"  -> <<"server", "stop">>
                   [] code = "list"  -> <<"hostname", "list">>
                   [] code = "add"   -> <<"hostname", "add">>
                   [] code = "stats" -> <<"stats">>

RunAsTyped ==
  up /\ ~overran /\ stage = "run" /\ fresh =>
    LET words == WordsOf(typed[served]) IN
      /\ IsPrefix(VerbsOf(body), words)
      /\ body = "add" => [i \in 1..(Len(words) - 2) |-> <<words[i + 2]>>] = extract_words(args)

\* Nobody waits for ever once the other clients have left: the loop gives a
\* connection up at its end, and no mix of requests leaves client and server
\* waiting for each other (server_loop.c:30-60, client_loop.c:69-92).  What ends
\* the wait is the answer to the client's own request only if it does not quit,
\* no answer overran its buffer and the server lives.  The last is not promised:
\* a client that leaves while its command runs kills the server (WriteToNobody),
\* and those behind it then read nothing.
LeavesForGood(d) == <>[](client[d] \in {"new", "gone"})

GotAnswer(c) == shown[c] # Unset /\ shown[c].id = id[c]

WaitsEnd ==
  \A c \in Clients :
    (\A d \in Clients \ {c} : LeavesForGood(d)) =>
      ((client[c] = "waiting")
         ~> \/ client[c] = "gone"
            \/ client[c] = "prompt" /\ (~up \/ overran \/ GotAnswer(c)))

\* A line the client refused ("Unknown command", cmd_builder.c:30; an error in
\* test_cmd_builder.c:82-87) changes nothing at the server.
RefusedDoesNothing ==
  [][\A c \in Clients :
       runs'[c] # runs[c] /\ build_cmd_from_str(typed[c]) = None => UNCHANGED state]_vars
=============================================================================
