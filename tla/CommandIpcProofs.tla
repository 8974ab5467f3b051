-------------------------- MODULE CommandIpcProofs --------------------------
(***************************************************************************)
(* What CommandIpc promises for every number of clients, requests, hosts   *)
(* and lines.  While the server runs and every answer has fitted, each     *)
(* request of a client is in one place: its socket, the loop of the server,*)
(* or the socket of its answer; Standing says so, and what the command and *)
(* the answer have to do with the line.                                    *)
(***************************************************************************)
EXTENDS CommandIpc, CommandCodecProofs

-----------------------------------------------------------------------------
(* The inductive invariant.                                                *)

Built(c) == build_cmd_from_str(typed[c])

Busy(c) == served = c /\ stage # "idle"

InRunning(c) == served = c /\ stage = "run"

Parts == [answer : AnswerSet, part : Nat]

\* Requests are what build_cmd_from_str makes of a line.
Asking == {build_cmd_from_str(line) : line \in Lines}

\* The text of the arguments is never blank once there was one.
Joined(text) == \E list \in Seq(Word) \ {<<>>} : text = string_list_to_string(list)

LoopTypes ==
  /\ up \in BOOLEAN
  /\ served \in Clients \cup {Nobody}
  /\ stage \in {"idle", "run", "write"}
  /\ stage # "idle" => served # Nobody
  /\ body \in Codes \cup {Unset}
  /\ args \in Text \cup {Unset}
  /\ args # Unset => Joined(args)
  /\ fresh \in BOOLEAN
  /\ reply \in AnswerSet \cup {Unset}
  /\ stage = "write" <=> reply # Unset

TableTypes ==
  /\ paused \in BOOLEAN
  /\ table \in Seq(Hosts) /\ IsInjective(table)

\* A connection waits once.
BacklogTypes ==
  /\ backlog \in Seq(Clients) /\ IsInjective(backlog) /\ Len(backlog) <= Backlog
  /\ \A i \in 1..Len(backlog) : client[backlog[i]] # "new"

ClientTypes ==
  /\ client \in [Clients -> {"new", "prompt", "waiting", "gone"}]
  /\ typed \in [Clients -> Lines \cup {<<>>}]
  /\ id \in [Clients -> 0..MaxRequests]
  /\ shown \in [Clients -> AnswerSet \cup {Unset}]

SocketTypes ==
  /\ request \in [Clients -> Seq(Asking)]
  /\ stream \in [Clients -> Seq(Parts)]

\* No request is run that was not typed.
Counted(c) ==
  Len(request[c]) + (IF InRunning(c) THEN 1 ELSE 0) + runs[c] <= id[c]

HistoryTypes ==
  /\ runs \in [Clients -> Nat] /\ overran \in BOOLEAN
  /\ \A c \in Clients : Counted(c)

Types ==
  LoopTypes /\ TableTypes /\ BacklogTypes /\ ClientTypes /\ SocketTypes /\ HistoryTypes

\* The command being run is the one on the line, if there is one.
Ours(c) ==
  /\ fresh <=> Built(c) # None
  /\ fresh => /\ body = Built(c).code
              /\ Built(c).args # <<>> => args = Built(c).args

\* What an accepted answer says holds.
Holds(a, c) ==
  /\ a.code = "stop"  => paused
  /\ a.code = "start" => ~paused
  /\ a.code = "add" /\ Built(c) # None => ToSet(typed[c]) \cap Hosts \subseteq ToSet(table)
  /\ a.code = "stats" => IsPrefix(a.rows, table)

Matches(a, c) ==
  /\ a.id = id[c]
  /\ Built(c) # None => a.code = Built(c).code
  /\ a.rc = "ok" => Holds(a, c)

Empty(c) == request[c] = <<>> /\ stream[c] = <<>>

AtRest(c) == Empty(c) /\ ~Busy(c) /\ runs[c] = id[c]

Asked(c) ==
  /\ request[c] = <<Built(c)>> /\ stream[c] = <<>> /\ ~Busy(c) /\ runs[c] = id[c] - 1

InRun(c) == Empty(c) /\ InRunning(c) /\ runs[c] = id[c] - 1 /\ Ours(c)

Answering(c) ==
  Empty(c) /\ served = c /\ stage = "write" /\ runs[c] = id[c] /\ Matches(reply, c)

Sent(c) ==
  /\ request[c] = <<>> /\ served = c /\ stage = "idle" /\ runs[c] = id[c]
  /\ \E a \in AnswerSet :
       stream[c] = Units(a) /\ a.body_len <= BodySize /\ Matches(a, c)

Standing(c) ==
  /\ client[c] = "new" => AtRest(c) /\ id[c] = 0
  /\ client[c] = "prompt" =>
       /\ AtRest(c)
       /\ id[c] > 0 => served = c /\ shown[c] # Unset /\ Matches(shown[c], c)
  /\ client[c] = "waiting" => id[c] > 0 /\ (Asked(c) \/ InRun(c) \/ Answering(c) \/ Sent(c))
  /\ client[c] = "gone" =>
       request[c] \in {<<>>, <<Built(c)>>} /\ (InRunning(c) => Ours(c))

InStep == up /\ ~overran => \A c \in Clients : Standing(c)

IInv == Types /\ InStep
-----------------------------------------------------------------------------
(* What the steps share.                                                   *)

LEMMA NextCases ==
  ASSUME Next
  PROVE  \/ Accept \/ Hangup \/ ReadRequest
         \/ RunStart \/ RunStop \/ RunList \/ RunAdd \/ RunAddUnset \/ RunStats \/ RunUnknown
         \/ Overrun \/ Write \/ WriteToNobody
         \/ \E c \in Clients : ClientStep(c)
BY DEF Next, ServerStep, Run

\* A step of a client that is none of its typing, reading or leaving.
LEMMA ClientCases ==
  ASSUME NEW c \in Clients, ClientStep(c)
  PROVE  \/ Connect(c) \/ ConnectFails(c)
         \/ \E line \in Lines : Type(c, line)
         \/ TypeToNobody(c) \/ ReadAnswer(c) \/ ReadNothing(c) \/ Quit(c)
BY DEF ClientStep, ClientReads

\* Clients leave the server alone.
LEMMA ClientKeeps ==
  ASSUME NEW c \in Clients, ClientStep(c)
  PROVE  /\ up' = up /\ paused' = paused /\ table' = table /\ served' = served
         /\ stage' = stage /\ body' = body /\ args' = args /\ fresh' = fresh
         /\ reply' = reply /\ runs' = runs /\ overran' = overran
BY ClientCases DEF Connect, ConnectFails, Type, TypeToNobody, ReadAnswer, ReadNothing, Quit,
     state, loop, history

\* What the server does with the sockets and the table is no client's step.
LEMMA ServerKeeps ==
  ASSUME ServerStep
  PROVE  client' = client /\ typed' = typed /\ id' = id /\ shown' = shown
BY DEF ServerStep, Run, Accept, Hangup, ReadRequest, RunStart, RunStop, RunList, RunAdd,
     RunAddUnset, RunStats, RunUnknown, Overrun, Write, WriteToNobody, ServerDies,
     Replies, Answers, clients

LEMMA JoinedType ==
  ASSUME NEW text, Joined(text)
  PROVE  text \in Text /\ extract_words(text) \in Seq(Word) \ {<<>>}
BY SplitUndoesJoin DEF Joined

LEMMA WordJoined ==
  ASSUME NEW w \in Word
  PROVE  Joined(w)
<1>1. <<w>> \in Seq(Word) \ {<<>>}
  OBVIOUS
<1>2. string_list_to_string(<<w>>) = w
  BY JoinOne
<1>3. QED
  BY <1>1, <1>2 DEF Joined

\* What may be read from a socket of requests.
LEMMA AskingType ==
  ASSUME NEW r \in Asking
  PROVE  /\ r \in Requests
         /\ r # None => r.code \in Codes
         /\ r.args # <<>> => Joined(r.args)
<1>1. PICK line \in Lines : r = build_cmd_from_str(line)
  BY DEF Asking
<1>2. line \in Text
  BY BoundsAssumption
<1>3. /\ r \in [code : Codes \cup {"none"}, args : Text]
      /\ r.code = "none" <=> r = None
      /\ r.args # <<>> => \E list \in Seq(Word) \ {<<>>} : r.args = string_list_to_string(list)
  BY <1>1, <1>2, BuildType
<1>4. QED
  BY <1>3 DEF Requests, Joined

LEMMA UnitsProperties ==
  ASSUME NEW a \in AnswerSet
  PROVE  /\ a.body_len \in Nat
         /\ Units(a) \in Seq(Parts) /\ Len(Units(a)) = 1 + a.body_len
         /\ \A k \in 1..(1 + a.body_len) : Units(a)[k].answer = a
<1> DEFINE n == 1 + a.body_len
<1>1. n \in Nat /\ n >= 1 /\ a.body_len \in Nat
  BY DEF AnswerSet
<1>2. Units(a) = [k \in 1..n |-> [answer |-> a, part |-> k]]
  BY DEF Units, HeaderSize
<1> HIDE DEF n
<1>3. Units(a) \in [1..n -> Parts]
  BY <1>1, <1>2 DEF Parts
<1>4. Units(a) \in Seq(Parts) /\ Len(Units(a)) = n
  BY <1>1, <1>2, <1>3
<1>5. \A k \in 1..n : Units(a)[k].answer = a
  BY <1>2
<1>6. QED
  BY <1>1, <1>4, <1>5 DEF n

LEMMA ReplyType ==
  ASSUME Types, NEW rc \in ReturnCodes, NEW rows \in Seq(Hosts), NEW size \in Nat,
         served # Nobody
  PROVE  [id |-> id[served], code |-> body, rc |-> rc, rows |-> rows,
          body_len |-> CodesSize + size] \in AnswerSet
BY DEF Types, LoopTypes, ClientTypes, AnswerSet, CodesSize

\* An answer to the command being run.
LEMMA AnswerStep ==
  ASSUME Types, stage = "run", up, NEW rc \in ReturnCodes, NEW rows \in Seq(Hosts),
         NEW size \in Nat, Answers(rc, rows, size),
         args' \in Text \cup {Unset}, args' # Unset => Joined(args')
  PROVE  LoopTypes' /\ BacklogTypes' /\ SocketTypes' /\ HistoryTypes'
<1>1. served \in Clients
  BY DEF Types, LoopTypes
<1>2. reply' \in AnswerSet /\ reply' # Unset
  BY <1>1, ReplyType, UnsetAssumption, NamesAssumption DEF Answers
<1>3. /\ stage' = "write" /\ up' = up /\ backlog' = backlog /\ served' = served
      /\ body' = body /\ fresh' = fresh /\ client' = client /\ id' = id
      /\ request' = request /\ stream' = stream /\ overran' = overran
      /\ runs' = [runs EXCEPT ![served] = @ + 1]
  BY DEF Answers, clients, sockets
<1>4. LoopTypes'
  <2>1. LoopTypes
    BY DEF Types
  <2>2. served' \in Clients \cup {Nobody} /\ served' # Nobody
    BY <1>1, <1>3, NamesAssumption
  <2>3. (args' # Unset => Joined(args)')
    BY DEF Joined
  <2>4. QED
    BY <1>2, <1>3, <2>1, <2>2, <2>3 DEF LoopTypes
<1>5. BacklogTypes'
  BY <1>3 DEF Types, BacklogTypes
<1>6. SocketTypes'
  BY <1>3 DEF Types, SocketTypes
<1>7. HistoryTypes'
  <2>1. runs \in [Clients -> Nat] /\ overran \in BOOLEAN /\ \A c \in Clients : Counted(c)
    BY DEF Types, HistoryTypes
  <2>2. runs' \in [Clients -> Nat] /\ overran' \in BOOLEAN
    BY <1>1, <1>3, <2>1
  <2>3. ASSUME NEW c \in Clients
        PROVE  Counted(c)'
    <3>1. Counted(c) /\ runs[c] \in Nat
      BY <2>1
    <3>2. Len(request[c]) \in Nat /\ id[c] \in Nat
      BY LenProperties DEF Types, SocketTypes, ClientTypes
    <3>3. CASE c = served
      <4>1. runs'[c] = runs[c] + 1
        BY <1>1, <1>3, <2>1, <3>3
      <4>2. InRunning(c) /\ ~ InRunning(c)'
        BY <1>3, <3>3 DEF InRunning
      <4>3. QED
        BY <1>3, <3>1, <3>2, <4>1, <4>2 DEF Counted
    <3>4. CASE c # served
      <4>1. runs'[c] = runs[c]
        BY <1>1, <1>3, <2>1, <3>4
      <4>2. ~ InRunning(c) /\ ~ InRunning(c)'
        BY <1>3, <3>4 DEF InRunning
      <4>3. QED
        BY <1>3, <3>1, <3>2, <4>1, <4>2 DEF Counted
    <3>5. QED
      BY <3>3, <3>4
  <2>4. QED
    BY <2>2, <2>3 DEF HistoryTypes
<1>8. QED
  BY <1>4, <1>5, <1>6, <1>7

\* The end of the process.
LEMMA DieStep ==
  ASSUME Types, ServerDies
  PROVE  Types'
<1>1. /\ up' = FALSE /\ backlog' = <<>> /\ served' = Nobody /\ stage' = "idle"
      /\ body' = Unset /\ args' = Unset /\ fresh' = FALSE /\ reply' = Unset
      /\ request' = [c \in Clients |-> <<>>]
      /\ paused' = paused /\ table' = table /\ client' = client /\ typed' = typed
      /\ id' = id /\ shown' = shown /\ stream' = stream /\ runs' = runs /\ overran' = overran
  BY DEF ServerDies, state, clients, history
<1>2. LoopTypes'
  BY <1>1 DEF LoopTypes
<1>3. TableTypes' /\ ClientTypes'
  BY <1>1 DEF Types, TableTypes, ClientTypes
<1>4. BacklogTypes'
  <2>1. <<>> \in Seq(Clients) /\ Len(<<>>) = 0 /\ 0 <= Backlog /\ IsInjective(<<>>)
    BY EmptySeq, BoundsAssumption DEF IsInjective
  <2>2. QED
    BY <1>1, <2>1 DEF BacklogTypes
<1>5. SocketTypes'
  <2>1. <<>> \in Seq(Asking)
    BY EmptySeq
  <2>2. QED
    BY <1>1, <2>1 DEF Types, SocketTypes
<1>6. HistoryTypes'
  <2>1. ASSUME NEW c \in Clients
        PROVE  Counted(c)'
    <3>1. Counted(c) /\ runs[c] \in Nat /\ id[c] \in Nat /\ Len(request[c]) \in Nat
      BY LenProperties DEF Types, HistoryTypes, SocketTypes, ClientTypes
    <3>2. Len(request'[c]) = 0 /\ ~ InRunning(c)'
      BY <1>1 DEF InRunning
    <3>3. runs[c] <= id[c]
      <4> DEFINE waiting == Len(request[c])
                 running == IF InRunning(c) THEN 1 ELSE 0
      <4>1. waiting \in Nat /\ running \in Nat /\ waiting + running + runs[c] <= id[c]
        BY <3>1 DEF Counted
      <4> HIDE DEF waiting, running
      <4>2. QED
        BY <3>1, <4>1
    <3>4. QED
      BY <1>1, <3>1, <3>2, <3>3 DEF Counted
  <2>2. QED
    BY <1>1, <2>1 DEF Types, HistoryTypes
<1>7. QED
  BY <1>2, <1>3, <1>4, <1>5, <1>6 DEF Types

\* A client's end.
LEMMA LeaveStep ==
  ASSUME Types, NEW c \in Clients, Leaves(c), UNCHANGED <<typed, id, request, backlog>>
  PROVE  ClientTypes' /\ SocketTypes' /\ BacklogTypes'
<1>1. /\ client' = [client EXCEPT ![c] = "gone"]
      /\ shown' = [shown EXCEPT ![c] = Unset]
      /\ stream' = [stream EXCEPT ![c] = <<>>]
      /\ typed' = typed /\ id' = id /\ request' = request /\ backlog' = backlog
  BY DEF Leaves, Moves
<1>2. ClientTypes'
  BY <1>1 DEF Types, ClientTypes
<1>3. SocketTypes'
  <2>1. <<>> \in Seq(Parts)
    BY EmptySeq
  <2>2. QED
    BY <1>1, <2>1 DEF Types, SocketTypes
<1>4. BacklogTypes'
  <2>1. ASSUME NEW i \in 1..Len(backlog)
        PROVE  client'[backlog[i]] # "new"
    <3>1. backlog[i] \in Clients /\ client[backlog[i]] # "new"
      BY ElementOfSeq DEF Types, BacklogTypes
    <3>2. QED
      BY <1>1, <3>1 DEF Types, ClientTypes
  <2>2. QED
    BY <1>1, <2>1 DEF Types, BacklogTypes
<1>5. QED
  BY <1>2, <1>3, <1>4

-----------------------------------------------------------------------------
(* The types.                                                              *)

LEMMA TypesInit == Init => Types
<1> SUFFICES ASSUME Init
             PROVE  Types
  OBVIOUS
<1>1. <<>> \in Seq(Hosts) /\ <<>> \in Seq(Clients) /\ <<>> \in Seq(Asking)
      /\ <<>> \in Seq(Parts) /\ Len(<<>>) = 0 /\ IsInjective(<<>>)
  BY EmptySeq DEF IsInjective
<1>2. LoopTypes
  BY DEF Init, LoopTypes
<1>3. TableTypes
  BY <1>1 DEF Init, TableTypes
<1>4. BacklogTypes
  BY <1>1, BoundsAssumption DEF Init, BacklogTypes
<1>5. ClientTypes
  BY BoundsAssumption DEF Init, ClientTypes
<1>6. SocketTypes
  BY <1>1 DEF Init, SocketTypes
<1>7. HistoryTypes
  <2>1. ASSUME NEW c \in Clients
        PROVE  Counted(c)
    <3>1. Len(request[c]) = 0 /\ runs[c] = 0 /\ id[c] = 0 /\ ~ InRunning(c)
      BY DEF Init, InRunning
    <3>2. QED
      BY <3>1 DEF Counted
  <2>2. QED
    BY <2>1 DEF Init, HistoryTypes
<1>8. QED
  BY <1>2, <1>3, <1>4, <1>5, <1>6, <1>7 DEF Types

\* Hosts are added once, in the order of their first mention.
LEMMA NewProperties ==
  ASSUME TableTypes, NEW words \in Seq(Word), NEW n \in 0..Len(words),
         \A i \in 1..n : words[i] \in {<<h>> : h \in Hosts},
         IsInjective(New(words, n))
  PROVE  /\ New(words, n) \in Seq(Hosts)
         /\ table \o New(words, n) \in Seq(Hosts)
         /\ IsInjective(table \o New(words, n))
         /\ \A i \in 1..n : words[i][1] \in ToSet(table \o New(words, n))
<1> DEFINE A == Seq(Hosts)
           e == <<>>
           parts == [i \in 1..n |-> IF words[i][1] \in ToSet(table) THEN e ELSE words[i]]
           new == New(words, n)
<1>1. n \in Nat
  BY LenProperties
<1>2. \A i \in 1..n : words[i] \in A /\ words[i][1] \in Hosts /\ ToSet(words[i]) = {words[i][1]}
  <2>1. ASSUME NEW i \in 1..n
        PROVE  words[i] \in A /\ words[i][1] \in Hosts /\ ToSet(words[i]) = {words[i][1]}
    <3>1. PICK h \in Hosts : words[i] = <<h>>
      OBVIOUS
    <3>2. ToSet(<<h>>) = {h} /\ <<h>> \in Seq(Hosts)
      BY DEF ToSet
    <3>3. QED
      BY <3>1, <3>2
  <2>2. QED
    BY <2>1
<1>3. e \in A /\ ToSet(e) = {}
  BY EmptySeq DEF ToSet
<1>4. new = FlattenSeq(parts)
  BY DEF New
<1> HIDE DEF A, e, new
<1>5. parts \in [1..n -> A] /\ \A i \in 1..n :
        parts[i] = IF words[i][1] \in ToSet(table) THEN e ELSE words[i]
  BY <1>2, <1>3
<1> HIDE DEF parts
<1>6. parts \in Seq(A) /\ Len(parts) = n
  BY <1>1, <1>5
<1>7. new \in A
  BY <1>4, <1>6, FlattenSeqType DEF A
<1>8. ToSet(new) = UNION {ToSet(parts[i]) : i \in 1..n}
  BY <1>4, <1>6, FlattenSeqHolds DEF A
<1>9. ToSet(new) \cap ToSet(table) = {}
  <2>1. ASSUME NEW i \in 1..n
        PROVE  ToSet(parts[i]) \cap ToSet(table) = {}
    <3>1. CASE words[i][1] \in ToSet(table)
      BY <1>3, <1>5, <3>1
    <3>2. CASE words[i][1] \notin ToSet(table)
      BY <1>2, <1>5, <3>2
    <3>3. QED
      BY <3>1, <3>2
  <2>2. QED
    BY <1>8, <2>1
<1>10. \A i \in 1..n : words[i][1] \in ToSet(table) \cup ToSet(new)
  BY <1>2, <1>5, <1>8
<1>11. table \in A /\ IsInjective(table)
  BY DEF TableTypes, A
<1>12. ToSet(table \o new) = ToSet(table) \cup ToSet(new)
  BY <1>7, <1>11, ToSetConcat DEF A
<1>13. table \o new \in A
  BY <1>7, <1>11, ConcatProperties DEF A
<1>14. IsInjective(table \o new)
  <2> DEFINE l == Len(table)
             k == Len(new)
             all == table \o new
  <2>1. /\ l \in Nat /\ k \in Nat /\ DOMAIN table = 1..l /\ DOMAIN new = 1..k
        /\ DOMAIN all = 1..(l + k)
        /\ \A i \in 1..(l + k) : all[i] = IF i <= l THEN table[i] ELSE new[i - l]
    BY <1>7, <1>11, ConcatProperties, LenProperties DEF A
  <2>2. IsInjective(new)
    BY DEF new
  <2> HIDE DEF l, k, all
  <2>3. \A i \in 1..l, j \in 1..k : table[i] # new[j]
    BY <1>9, <2>1 DEF ToSet
  <2>4. ASSUME NEW i \in 1..(l + k), NEW j \in 1..(l + k), all[i] = all[j]
        PROVE  i = j
    <3>1. CASE i <= l /\ j <= l
      <4>1. table[i] = table[j] /\ i \in 1..l /\ j \in 1..l
        BY <2>1, <2>4, <3>1
      <4>2. QED
        BY <1>11, <2>1, <4>1 DEF IsInjective
    <3>2. CASE i <= l /\ ~ (j <= l)
      <4>1. table[i] = new[j - l] /\ i \in 1..l /\ j - l \in 1..k
        BY <2>1, <2>4, <3>2
      <4>2. QED
        BY <2>3, <4>1
    <3>3. CASE ~ (i <= l) /\ j <= l
      <4>1. table[j] = new[i - l] /\ j \in 1..l /\ i - l \in 1..k
        BY <2>1, <2>4, <3>3
      <4>2. QED
        BY <2>3, <4>1
    <3>4. CASE ~ (i <= l) /\ ~ (j <= l)
      <4>1. new[i - l] = new[j - l] /\ i - l \in 1..k /\ j - l \in 1..k
        BY <2>1, <2>4, <3>4
      <4>2. i - l = j - l
        BY <2>1, <2>2, <4>1 DEF IsInjective
      <4>3. QED
        BY <2>1, <4>2
    <3>5. QED
      BY <3>1, <3>2, <3>3, <3>4
  <2>5. QED
    BY <2>1, <2>4 DEF IsInjective, all
<1>15. QED
  BY <1>7, <1>10, <1>12, <1>13, <1>14 DEF A, new

LEMMA ConnectTypes ==
  ASSUME Types, NEW c \in Clients, Connect(c)
  PROVE  Types'
<1>1. /\ client[c] = "new" /\ Len(backlog) < Backlog
      /\ backlog' = Append(backlog, c) /\ client' = [client EXCEPT ![c] = "prompt"]
      /\ up' = up /\ paused' = paused /\ table' = table /\ served' = served /\ stage' = stage
      /\ body' = body /\ args' = args /\ fresh' = fresh /\ reply' = reply /\ typed' = typed
      /\ id' = id /\ shown' = shown /\ request' = request /\ stream' = stream
      /\ runs' = runs /\ overran' = overran
  BY DEF Connect, Moves, state, sockets, history
<1>2. LoopTypes' /\ TableTypes' /\ SocketTypes'
  BY <1>1 DEF Types, LoopTypes, TableTypes, SocketTypes, Joined
<1>3. HistoryTypes'
  <2>1. \A d \in Clients : Counted(d)' <=> Counted(d)
    BY <1>1 DEF Counted, InRunning
  <2>2. QED
    BY <1>1, <2>1 DEF Types, HistoryTypes
<1>4. ClientTypes'
  BY <1>1 DEF Types, ClientTypes
<1>5. BacklogTypes'
  <2> DEFINE m == Len(backlog)
             more == Append(backlog, c)
  <2>1. /\ backlog \in Seq(Clients) /\ m \in Nat /\ m < Backlog /\ DOMAIN backlog = 1..m
        /\ \A i \in 1..m : backlog[i] \in Clients /\ client[backlog[i]] # "new"
        /\ IsInjective(backlog)
    BY <1>1, LenProperties, ElementOfSeq DEF Types, BacklogTypes
  <2>2. /\ more \in Seq(Clients) /\ Len(more) = m + 1 /\ DOMAIN more = 1..(m + 1)
        /\ \A i \in 1..m : more[i] = backlog[i]
        /\ more[m + 1] = c
    BY <2>1, AppendProperties, LenProperties
  <2>3. client \in [Clients -> {"new", "prompt", "waiting", "gone"}]
    BY DEF Types, ClientTypes
  <2> HIDE DEF m, more
  <2>4. \A i \in 1..(m + 1) : i \in 1..m \/ i = m + 1
    BY <2>1
  <2>5. \A i \in 1..(m + 1) : client'[more[i]] # "new"
    BY <1>1, <2>1, <2>2, <2>3, <2>4
  <2>6. \A i \in 1..m : more[i] # c
    BY <1>1, <2>1, <2>2
  <2>7. IsInjective(more)
    <3>1. ASSUME NEW i \in 1..(m + 1), NEW j \in 1..(m + 1), more[i] = more[j]
          PROVE  i = j
      <4>1. CASE i \in 1..m /\ j \in 1..m
        BY <2>1, <2>2, <3>1, <4>1 DEF IsInjective
      <4>2. CASE ~ (i \in 1..m /\ j \in 1..m)
        BY <2>2, <2>4, <2>6, <3>1, <4>2
      <4>3. QED
        BY <4>1, <4>2
    <3>2. QED
      BY <2>2, <3>1 DEF IsInjective
  <2>8. backlog' = more
    BY <1>1 DEF more
  <2>9. m + 1 <= Backlog
    BY <2>1, BoundsAssumption
  <2>10. QED
    BY <2>2, <2>5, <2>7, <2>8, <2>9 DEF BacklogTypes
<1>6. QED
  BY <1>2, <1>3, <1>4, <1>5 DEF Types

LEMMA TypeTypes ==
  ASSUME Types, NEW c \in Clients, NEW line \in Lines, Type(c, line)
  PROVE  Types'
<1> DEFINE r == build_cmd_from_str(line)
           queue == request[c]
<1>1. /\ client' = [client EXCEPT ![c] = "waiting"]
      /\ id[c] < MaxRequests /\ typed' = [typed EXCEPT ![c] = line]
      /\ id' = [id EXCEPT ![c] = @ + 1]
      /\ request' = [request EXCEPT ![c] = Append(@, r)]
      /\ up' = up /\ paused' = paused /\ table' = table /\ served' = served /\ stage' = stage
      /\ body' = body /\ args' = args /\ fresh' = fresh /\ reply' = reply
      /\ shown' = shown /\ stream' = stream /\ backlog' = backlog
      /\ runs' = runs /\ overran' = overran
  BY DEF Type, Moves, state, loop, history
<1>2. LoopTypes' /\ TableTypes'
  BY <1>1 DEF Types, LoopTypes, TableTypes, Joined
<1>3. BacklogTypes'
  <2>1. ASSUME NEW i \in 1..Len(backlog)
        PROVE  client'[backlog[i]] # "new"
    <3>1. backlog[i] \in Clients /\ client[backlog[i]] # "new"
      BY ElementOfSeq DEF Types, BacklogTypes
    <3>2. QED
      BY <1>1, <3>1 DEF Types, ClientTypes
  <2>2. QED
    BY <1>1, <2>1 DEF Types, BacklogTypes
<1>4. ClientTypes'
  BY <1>1, BoundsAssumption DEF Types, ClientTypes
<1>5. r \in Asking /\ queue \in Seq(Asking)
  BY DEF Asking, Types, SocketTypes
<1> HIDE DEF r
<1>6. Append(queue, r) \in Seq(Asking) /\ Len(Append(queue, r)) = Len(queue) + 1
  BY <1>5, AppendProperties
<1>7. SocketTypes'
  BY <1>1, <1>6 DEF Types, SocketTypes
<1>8. HistoryTypes'
  <2>1. ASSUME NEW d \in Clients
        PROVE  Counted(d)'
    <3>1. Counted(d) /\ InRunning(d)' = InRunning(d) /\ runs' = runs
      BY <1>1 DEF Types, HistoryTypes, InRunning
    <3>2. /\ Len(request[d]) \in Nat /\ runs[d] \in Nat /\ id[d] \in Nat
      BY LenProperties DEF Types, SocketTypes, HistoryTypes, ClientTypes
    <3>3. \/ Len(request'[d]) = Len(request[d]) /\ id'[d] = id[d]
          \/ Len(request'[d]) = Len(request[d]) + 1 /\ id'[d] = id[d] + 1
      BY <1>1, <1>6 DEF Types, SocketTypes, ClientTypes
    <3> DEFINE before == Len(request[d])
               after == Len(request'[d])
               running == IF InRunning(d) THEN 1 ELSE 0
    <3>4. /\ before + running + runs[d] <= id[d] /\ before \in Nat /\ running \in Nat
          /\ \/ after = before /\ id'[d] = id[d]
             \/ after = before + 1 /\ id'[d] = id[d] + 1
      BY <3>1, <3>2, <3>3 DEF Counted
    <3> HIDE DEF before, after, running
    <3>5. after + running + runs[d] <= id'[d]
      BY <3>2, <3>4
    <3>6. QED
      BY <3>1, <3>5 DEF Counted, before, after, running
  <2>2. QED
    BY <1>1, <2>1 DEF Types, HistoryTypes
<1>9. QED
  BY <1>2, <1>3, <1>4, <1>7, <1>8 DEF Types

LEMMA LeavingTypes ==
  ASSUME Types, NEW c \in Clients, Leaves(c),
         UNCHANGED <<up, state, loop, typed, id, request, history>>
  PROVE  Types'
<1>1. /\ up' = up /\ paused' = paused /\ table' = table /\ served' = served /\ stage' = stage
      /\ body' = body /\ args' = args /\ fresh' = fresh /\ reply' = reply /\ typed' = typed
      /\ id' = id /\ request' = request /\ backlog' = backlog
      /\ runs' = runs /\ overran' = overran
  BY DEF state, loop, history
<1>2. LoopTypes' /\ TableTypes'
  BY <1>1 DEF Types, LoopTypes, TableTypes, Joined
<1>3. HistoryTypes'
  <2>1. \A d \in Clients : Counted(d)' <=> Counted(d)
    BY <1>1 DEF Counted, InRunning
  <2>2. QED
    BY <1>1, <2>1 DEF Types, HistoryTypes
<1>4. ClientTypes' /\ SocketTypes' /\ BacklogTypes'
  BY <1>1, LeaveStep
<1>5. QED
  BY <1>2, <1>3, <1>4 DEF Types

\* A read takes at least one unit, and no more than there are.
LEMMA ChunkProperties ==
  ASSUME NEW s \in Seq(Parts), s # <<>>
  PROVE  /\ Chunk(s)[1].answer \in AnswerSet
         /\ SubSeq(s, Len(Chunk(s)) + 1, Len(s)) \in Seq(Parts)
<1> DEFINE n == IF Len(s) < HeaderSize + BodySize THEN Len(s) ELSE HeaderSize + BodySize
<1>1. Len(s) \in Nat /\ Len(s) >= 1 /\ \A i \in 1..Len(s) : s[i] \in Parts
  BY EmptySeq, LenProperties, ElementOfSeq
<1>2. n \in 1..Len(s)
  BY <1>1, SizeAssumption DEF HeaderSize, BodySize
<1>3. Chunk(s) = SubSeq(s, 1, n)
  BY DEF Chunk
<1> HIDE DEF n
<1>4. /\ 1 \in Int /\ n \in Int /\ 1 <= n /\ n - 1 + 1 = n
      /\ \A i \in 1..n : s[i] \in Parts
  BY <1>1, <1>2
<1>5. Len(Chunk(s)) = n /\ Chunk(s) \in Seq(Parts)
  <2>1. /\ SubSeq(s, 1, n) \in Seq(Parts)
        /\ Len(SubSeq(s, 1, n)) = IF 1 <= n THEN n - 1 + 1 ELSE 0
    BY <1>4, SubSeqProperties
  <2>2. QED
    BY <1>3, <1>4, <2>1
<1>6. Chunk(s)[1] \in Parts
  <2>1. 1 \in 1..Len(Chunk(s))
    BY <1>2, <1>5
  <2>2. QED
    BY <1>5, <2>1, ElementOfSeq
<1>7. SubSeq(s, n + 1, Len(s)) \in Seq(Parts)
  <2>1. n + 1 \in Int /\ Len(s) \in Int /\ \A i \in (n + 1)..Len(s) : s[i] \in Parts
    BY <1>1, <1>2
  <2>2. QED
    BY <2>1, SubSeqProperties
<1>8. QED
  BY <1>5, <1>6, <1>7 DEF Parts

LEMMA ReadAnswerTypes ==
  ASSUME Types, NEW c \in Clients, ReadAnswer(c)
  PROVE  Types'
<1> DEFINE s == stream[c]
           chunk == Chunk(s)
           answer == IF Valid(chunk) THEN chunk[1].answer ELSE shown[c]
           rest == SubSeq(s, Len(chunk) + 1, Len(s))
<1>1. s # <<>> /\ UNCHANGED <<up, state, loop, typed, id, request, history>>
  BY DEF ReadAnswer
<1>2. \/ /\ client' = [client EXCEPT ![c] = "prompt"]
         /\ stream' = [stream EXCEPT ![c] = SubSeq(@, Len(chunk) + 1, Len(@))]
         /\ shown' = [shown EXCEPT ![c] = answer]
      \/ Leaves(c)
  BY DEF ReadAnswer, Moves
<1>3. CASE Leaves(c)
  BY <1>1, <1>3, LeavingTypes
<1>4. CASE /\ client' = [client EXCEPT ![c] = "prompt"]
           /\ stream' = [stream EXCEPT ![c] = SubSeq(@, Len(chunk) + 1, Len(@))]
           /\ shown' = [shown EXCEPT ![c] = answer]
  <2>1. /\ up' = up /\ paused' = paused /\ table' = table /\ served' = served /\ stage' = stage
        /\ body' = body /\ args' = args /\ fresh' = fresh /\ reply' = reply /\ typed' = typed
        /\ id' = id /\ request' = request /\ backlog' = backlog
        /\ runs' = runs /\ overran' = overran
    BY <1>1 DEF state, loop, history
  <2>2. s \in Seq(Parts) /\ shown[c] \in AnswerSet \cup {Unset}
    BY DEF Types, SocketTypes, ClientTypes
  <2>3. chunk[1].answer \in AnswerSet /\ rest \in Seq(Parts)
    BY <1>1, <2>2, ChunkProperties
  <2>4. answer \in AnswerSet \cup {Unset}
    BY <2>2, <2>3
  <2>5. stream' = [stream EXCEPT ![c] = rest]
    BY <1>4
  <2> HIDE DEF s, chunk, answer, rest
  <2>6. LoopTypes' /\ TableTypes'
    BY <2>1 DEF Types, LoopTypes, TableTypes, Joined
  <2>7. HistoryTypes'
    <3>1. \A d \in Clients : Counted(d)' <=> Counted(d)
      BY <2>1 DEF Counted, InRunning
    <3>2. QED
      BY <2>1, <3>1 DEF Types, HistoryTypes
  <2>8. ClientTypes'
    BY <1>4, <2>1, <2>4 DEF Types, ClientTypes
  <2>9. SocketTypes'
    BY <2>1, <2>3, <2>5 DEF Types, SocketTypes
  <2>10. BacklogTypes'
    <3>1. ASSUME NEW i \in 1..Len(backlog)
          PROVE  client'[backlog[i]] # "new"
      <4>1. backlog[i] \in Clients /\ client[backlog[i]] # "new"
        BY ElementOfSeq DEF Types, BacklogTypes
      <4>2. QED
        BY <1>4, <4>1 DEF Types, ClientTypes
    <3>2. QED
      BY <2>1, <3>1 DEF Types, BacklogTypes
  <2>11. QED
    BY <2>6, <2>7, <2>8, <2>9, <2>10 DEF Types
<1>5. QED
  BY <1>2, <1>3, <1>4

LEMMA ReadNothingTypes ==
  ASSUME Types, NEW c \in Clients, ReadNothing(c)
  PROVE  Types'
<1>1. UNCHANGED <<up, state, loop, typed, id, request, history>>
  BY DEF ReadNothing
<1>2. CASE Leaves(c)
  BY <1>1, <1>2, LeavingTypes
<1>3. CASE client' = [client EXCEPT ![c] = "prompt"] /\ UNCHANGED <<shown, stream>>
  <2>1. /\ up' = up /\ paused' = paused /\ table' = table /\ served' = served /\ stage' = stage
        /\ body' = body /\ args' = args /\ fresh' = fresh /\ reply' = reply /\ typed' = typed
        /\ id' = id /\ request' = request /\ backlog' = backlog
        /\ runs' = runs /\ overran' = overran /\ shown' = shown /\ stream' = stream
    BY <1>1, <1>3 DEF state, loop, history
  <2>2. LoopTypes' /\ TableTypes' /\ SocketTypes'
    BY <2>1 DEF Types, LoopTypes, TableTypes, SocketTypes, Joined
  <2>3. HistoryTypes'
    <3>1. \A d \in Clients : Counted(d)' <=> Counted(d)
      BY <2>1 DEF Counted, InRunning
    <3>2. QED
      BY <2>1, <3>1 DEF Types, HistoryTypes
  <2>4. ClientTypes'
    BY <1>3, <2>1 DEF Types, ClientTypes
  <2>5. BacklogTypes'
    <3>1. ASSUME NEW i \in 1..Len(backlog)
          PROVE  client'[backlog[i]] # "new"
      <4>1. backlog[i] \in Clients /\ client[backlog[i]] # "new"
        BY ElementOfSeq DEF Types, BacklogTypes
      <4>2. QED
        BY <1>3, <4>1 DEF Types, ClientTypes
    <3>2. QED
      BY <2>1, <3>1 DEF Types, BacklogTypes
  <2>6. QED
    BY <2>2, <2>3, <2>4, <2>5 DEF Types
<1>4. QED
  BY <1>2, <1>3 DEF ReadNothing, Moves

LEMMA ClientStepTypes ==
  ASSUME Types, NEW c \in Clients, ClientStep(c)
  PROVE  Types'
<1>1. CASE Connect(c)
  BY <1>1, ConnectTypes
<1>2. ASSUME NEW line \in Lines, Type(c, line)
      PROVE  Types'
  BY <1>2, TypeTypes
<1>3. CASE ConnectFails(c) \/ TypeToNobody(c) \/ Quit(c)
  <2>1. Leaves(c) /\ UNCHANGED <<up, state, loop, typed, id, request, history>>
    BY <1>3 DEF ConnectFails, TypeToNobody, Quit
  <2>2. QED
    BY <2>1, LeavingTypes
<1>4. CASE ReadAnswer(c)
  BY <1>4, ReadAnswerTypes
<1>5. CASE ReadNothing(c)
  BY <1>5, ReadNothingTypes
<1>6. QED
  BY <1>1, <1>2, <1>3, <1>4, <1>5, ClientCases

LEMMA AcceptTypes ==
  ASSUME Types, Accept
  PROVE  Types'
<1>1. /\ served = Nobody /\ backlog # <<>>
      /\ served' = Head(backlog) /\ backlog' = Tail(backlog)
      /\ up' = up /\ paused' = paused /\ table' = table /\ stage' = stage
      /\ body' = body /\ args' = args /\ fresh' = fresh /\ reply' = reply /\ typed' = typed
      /\ client' = client /\ shown' = shown /\ id' = id
      /\ request' = request /\ stream' = stream /\ runs' = runs /\ overran' = overran
  BY DEF Accept, state, clients, sockets, history
<1> DEFINE m == Len(backlog)
           rest == Tail(backlog)
<1>2. /\ backlog \in Seq(Clients) /\ m \in Nat /\ m <= Backlog /\ m # 0 /\ DOMAIN backlog = 1..m
      /\ \A i \in 1..m : client[backlog[i]] # "new"
      /\ IsInjective(backlog)
  BY <1>1, LenProperties, EmptySeq DEF Types, BacklogTypes
<1>3. /\ Head(backlog) \in Clients /\ rest \in Seq(Clients) /\ Len(rest) = m - 1
      /\ \A i \in 1..(m - 1) : rest[i] = backlog[i + 1]
      /\ DOMAIN rest = 1..(m - 1)
  <2>1. /\ Head(backlog) \in Clients /\ rest \in Seq(Clients) /\ Len(rest) = m - 1
        /\ \A i \in 1..Len(rest) : rest[i] = backlog[i + 1]
    BY <1>1, <1>2, HeadTailProperties
  <2>2. DOMAIN rest = 1..Len(rest)
    BY <2>1, LenProperties
  <2>3. QED
    BY <2>1, <2>2
<1> HIDE DEF m, rest
<1>4. BacklogTypes'
  <2>1. \A i \in 1..(m - 1) : i + 1 \in 1..m
    BY <1>2
  <2>2. IsInjective(rest)
    <3>1. ASSUME NEW i \in 1..(m - 1), NEW j \in 1..(m - 1), rest[i] = rest[j]
          PROVE  i = j
      <4>1. backlog[i + 1] = backlog[j + 1]
        BY <1>3, <3>1
      <4>2. i + 1 = j + 1
        BY <1>2, <2>1, <4>1 DEF IsInjective
      <4>3. QED
        BY <4>2
    <3>2. QED
      BY <1>3, <3>1 DEF IsInjective
  <2>3. \A i \in 1..(m - 1) : client[rest[i]] # "new"
    BY <1>2, <1>3, <2>1
  <2>4. m - 1 <= Backlog
    BY <1>2, BoundsAssumption
  <2>5. QED
    BY <1>1, <1>3, <2>2, <2>3, <2>4 DEF BacklogTypes, rest
<1>5. LoopTypes'
  <2>1. served' \in Clients /\ served' # Nobody
    BY <1>1, <1>3, NamesAssumption
  <2>2. QED
    BY <1>1, <2>1 DEF Types, LoopTypes, Joined
<1>6. TableTypes' /\ ClientTypes' /\ SocketTypes'
  BY <1>1 DEF Types, TableTypes, ClientTypes, SocketTypes
<1>7. HistoryTypes'
  <2>1. stage # "run"
    BY <1>1 DEF Types, LoopTypes
  <2>2. \A d \in Clients : Counted(d)' <=> Counted(d)
    BY <1>1, <2>1 DEF Counted, InRunning
  <2>3. QED
    BY <1>1, <2>2 DEF Types, HistoryTypes
<1>8. QED
  BY <1>4, <1>5, <1>6, <1>7 DEF Types

LEMMA HangupTypes ==
  ASSUME Types, Hangup
  PROVE  Types'
<1>1. /\ stage = "idle" /\ served' = Nobody /\ backlog' = backlog
      /\ up' = up /\ paused' = paused /\ table' = table /\ stage' = stage
      /\ body' = body /\ args' = args /\ fresh' = fresh /\ reply' = reply /\ typed' = typed
      /\ client' = client /\ shown' = shown /\ id' = id
      /\ request' = request /\ stream' = stream /\ runs' = runs /\ overran' = overran
  BY DEF Hangup, Reading, state, clients, sockets, history
<1>2. LoopTypes'
  BY <1>1 DEF Types, LoopTypes, Joined
<1>3. BacklogTypes' /\ TableTypes' /\ ClientTypes' /\ SocketTypes'
  BY <1>1 DEF Types, BacklogTypes, TableTypes, ClientTypes, SocketTypes
<1>4. HistoryTypes'
  <2>1. \A d \in Clients : Counted(d)' <=> Counted(d)
    BY <1>1 DEF Counted, InRunning
  <2>2. QED
    BY <1>1, <2>1 DEF Types, HistoryTypes
<1>5. QED
  BY <1>2, <1>3, <1>4 DEF Types

LEMMA ReadRequestTypes ==
  ASSUME Types, ReadRequest
  PROVE  Types'
<1> DEFINE c == served
           r == Head(request[c])
<1>1. /\ up /\ stage = "idle" /\ c # Nobody /\ request[c] # <<>> /\ stage' = "run"
      /\ served' = served /\ request' = [request EXCEPT ![c] = <<>>]
      /\ up' = up /\ paused' = paused /\ table' = table /\ backlog' = backlog
      /\ reply' = reply /\ typed' = typed
      /\ client' = client /\ shown' = shown /\ id' = id
      /\ stream' = stream /\ runs' = runs /\ overran' = overran
  BY DEF ReadRequest, Reading, state, clients, history
<1>2. c \in Clients /\ request[c] \in Seq(Asking)
  BY <1>1 DEF Types, LoopTypes, SocketTypes
<1>3. r \in Asking
  BY <1>1, <1>2, HeadTailProperties
<1>4. \/ /\ r # None /\ body' = r.code /\ fresh' = TRUE
         /\ args' = IF r.args = <<>> THEN args ELSE r.args
      \/ /\ body' \in (IF body = Unset THEN Codes \cup {Unset} ELSE {body})
         /\ fresh' = FALSE /\ args' = args
  BY <1>1 DEF ReadRequest
<1>5. /\ r # None => r.code \in Codes
      /\ r.args # <<>> => Joined(r.args) /\ r.args \in Text
  BY <1>3, AskingType, JoinedType
<1> HIDE DEF r
<1>6. body' \in Codes \cup {Unset} /\ fresh' \in BOOLEAN
  BY <1>4, <1>5 DEF Types, LoopTypes
<1>7. args' \in Text \cup {Unset} /\ (args' # Unset => Joined(args)')
  <2>1. args \in Text \cup {Unset} /\ (args # Unset => Joined(args))
    BY DEF Types, LoopTypes
  <2>2. args' = args \/ (args' = r.args /\ r.args # <<>>)
    BY <1>4
  <2>3. CASE args' = args
    BY <2>1, <2>3 DEF Joined
  <2>4. CASE args' = r.args /\ r.args # <<>>
    BY <1>5, <2>4 DEF Joined
  <2>5. QED
    BY <2>2, <2>3, <2>4
<1>8. LoopTypes'
  <2>1. up \in BOOLEAN /\ reply \in AnswerSet \cup {Unset} /\ reply = Unset
    BY <1>1 DEF Types, LoopTypes
  <2>2. QED
    BY <1>1, <1>2, <1>6, <1>7, <2>1 DEF LoopTypes
<1>9. TableTypes' /\ BacklogTypes' /\ ClientTypes'
  BY <1>1 DEF Types, TableTypes, BacklogTypes, ClientTypes
<1>10. SocketTypes'
  <2>1. <<>> \in Seq(Asking)
    BY EmptySeq
  <2>2. QED
    BY <1>1, <2>1 DEF Types, SocketTypes
<1>11. HistoryTypes'
  <2>1. ASSUME NEW d \in Clients
        PROVE  Counted(d)'
    <3>1. Counted(d) /\ runs[d] \in Nat /\ id[d] \in Nat
      BY DEF Types, HistoryTypes, ClientTypes
    <3>2. CASE d = c
      <4>1. Len(request[d]) \in Nat /\ Len(request[d]) >= 1
        BY <1>1, <1>2, <3>2, EmptySeq, LenProperties
      <4>2. ~ InRunning(d) /\ InRunning(d)'
        BY <1>1, <3>2 DEF InRunning
      <4>3. Len(request[d]) + 0 + runs[d] <= id[d]
        BY <3>1, <4>2 DEF Counted
      <4>4. Len(request'[d]) = 0
        BY <1>1, <3>2 DEF Types, SocketTypes
      <4>5. 0 + 1 + runs[d] <= id[d]
        BY <3>1, <4>1, <4>3
      <4>6. QED
        BY <1>1, <4>2, <4>4, <4>5 DEF Counted
    <3>3. CASE d # c
      <4>1. request'[d] = request[d] /\ ~ InRunning(d) /\ ~ InRunning(d)'
        BY <1>1, <3>3 DEF Types, SocketTypes, InRunning
      <4>2. QED
        BY <1>1, <3>1, <4>1 DEF Counted
    <3>4. QED
      BY <3>2, <3>3
  <2>2. QED
    BY <1>1, <2>1 DEF Types, HistoryTypes
<1>12. QED
  BY <1>8, <1>9, <1>10, <1>11 DEF Types

\* How much of the table is read, and how much of that fits.
LEMMA RowsType ==
  ASSUME NEW rows \in Seq(Hosts), NEW n \in 0..Len(rows)
  PROVE  /\ SubSeq(rows, 1, n) \in Seq(Hosts) /\ Len(SubSeq(rows, 1, n)) = n
         /\ \A i \in 1..n : SubSeq(rows, 1, n)[i] = rows[i]
<1>1. Len(rows) \in Nat /\ \A i \in 1..Len(rows) : rows[i] \in Hosts
  BY LenProperties, ElementOfSeq
<1>2. n \in Nat /\ \A i \in 1..n : rows[i] \in Hosts
  BY <1>1
<1>3. /\ SubSeq(rows, 1, n) \in Seq(Hosts)
      /\ Len(SubSeq(rows, 1, n)) = IF 1 <= n THEN n - 1 + 1 ELSE 0
      /\ \A i \in 1..(n - 1 + 1) : SubSeq(rows, 1, n)[i] = rows[1 + i - 1]
  BY <1>2, SubSeqProperties
<1> DEFINE sub == SubSeq(rows, 1, n)
<1> HIDE DEF sub
<1>4. /\ Len(sub) = IF 1 <= n THEN n - 1 + 1 ELSE 0
      /\ \A i \in 1..(n - 1 + 1) : sub[i] = rows[1 + i - 1]
  BY <1>3 DEF sub
<1>5. Len(sub) = n /\ \A i \in 1..n : sub[i] = rows[i]
  <2>1. /\ n - 1 + 1 = n /\ (~ (1 <= n) => n = 0)
        /\ \A i \in 1..n : 1 + i - 1 = i
    BY <1>2
  <2>2. QED
    BY <1>4, <2>1
<1>6. QED
  BY <1>3, <1>5 DEF sub

\* Every command is answered with a text of arguments that may be split again,
\* over a table that lists no host twice; or the process ends.
Answered ==
  \E rc \in ReturnCodes, rows \in Seq(Hosts), size \in Nat : Answers(rc, rows, size)

LEMMA RunTypes ==
  ASSUME Types, Run
  PROVE  \/ ServerDies
         \/ Answered /\ TableTypes' /\ args' \in Text \cup {Unset} /\ (args' # Unset => Joined(args)')
<1>0. <<>> \in Seq(Hosts) /\ 0 \in Nat /\ ReturnCodes = {"ok", "error"}
  BY EmptySeq DEF ReturnCodes
<1>1. TableTypes /\ args \in Text \cup {Unset} /\ (args # Unset => Joined(args))
  BY DEF Types, LoopTypes
<1> DEFINE Typed == args' \in Text \cup {Unset} /\ (args' # Unset => Joined(args)')
<1>2. args' = args => Typed
  BY <1>1 DEF Joined
<1>3. ASSUME NEW rc \in ReturnCodes, Replies(rc)
      PROVE  Answered /\ Typed
  <2>1. Answers(rc, <<>>, 0) /\ args' = args
    BY <1>3 DEF Replies
  <2> HIDE DEF Typed
  <2>2. QED
    BY <1>0, <1>2, <2>1 DEF Answered
<1> HIDE DEF Typed
<1>4. CASE RunStart
  <2>1. TableTypes'
    BY <1>1, <1>4 DEF RunStart, TableTypes
  <2>2. QED
    BY <1>0, <1>3, <1>4, <2>1 DEF RunStart, Typed
<1>5. CASE RunStop
  <2>1. TableTypes'
    BY <1>1, <1>5 DEF RunStop, TableTypes
  <2>2. QED
    BY <1>0, <1>3, <1>5, <2>1 DEF RunStop, Typed
<1>6. CASE RunList
  <2>1. TableTypes'
    BY <1>1, <1>6 DEF RunList, TableTypes, state
  <2>2. QED
    BY <1>0, <1>3, <1>6, <2>1 DEF RunList, Typed
<1>7. CASE RunUnknown
  <2>1. TableTypes'
    BY <1>1, <1>7 DEF RunUnknown, TableTypes, state
  <2>2. QED
    BY <1>0, <1>3, <1>7, <2>1 DEF RunUnknown, Typed
<1>8. CASE RunAdd
  <2>1. args # Unset
    BY <1>8 DEF RunAdd
  <2> DEFINE words == extract_words(args)
  <2>2. PICK rc \in ReturnCodes, junk \in Junk, n \in 0..Len(words) :
          /\ \A i \in 1..n : words[i] \in {<<h>> : h \in Hosts}
          /\ IsInjective(New(words, n))
          /\ table' = table \o New(words, n)
          /\ Answers(rc, <<>>, junk)
    BY <1>8 DEF RunAdd
  <2>3. args' = words[1] /\ paused' = paused
    BY <1>8 DEF RunAdd
  <2>4. words \in Seq(Word) \ {<<>>}
    BY <1>1, <2>1, JoinedType
  <2> HIDE DEF words
  <2>5. TableTypes'
    BY <1>1, <2>2, <2>3, <2>4, NewProperties DEF TableTypes
  <2>6. words[1] \in Word
    <3>1. 1 \in 1..Len(words)
      BY <2>4, EmptySeq
    <3>2. QED
      BY <2>4, <3>1, ElementOfSeq
  <2>7. Typed
    <3>1. Joined(words[1]) /\ words[1] \in Text
      BY <2>6, WordJoined, JoinedType
    <3>2. QED
      BY <2>3, <3>1 DEF Typed, Joined
  <2>8. Answered
    BY <1>0, <2>2, BoundsAssumption DEF Answered
  <2>9. QED
    BY <2>5, <2>7, <2>8 DEF Typed
<1>9. CASE RunAddUnset
  <2>1. ServerDies \/ ((\E junk \in Junk : Answers("error", <<>>, junk)) /\ UNCHANGED <<state, args>>)
    BY <1>9 DEF RunAddUnset
  <2>2. CASE (\E junk \in Junk : Answers("error", <<>>, junk)) /\ UNCHANGED <<state, args>>
    <3>1. TableTypes' /\ args' = args
      BY <1>1, <2>2 DEF TableTypes, state
    <3>2. Answered
      BY <1>0, <2>2, BoundsAssumption DEF Answered
    <3>3. QED
      BY <1>2, <3>1, <3>2 DEF Typed
  <2>3. QED
    BY <2>1, <2>2
<1>10. CASE RunStats
  <2>1. TableTypes' /\ args' = args
    BY <1>1, <1>10 DEF RunStats, TableTypes, state
  <2>2. \/ \E n \in 0..Len(table) :
             LET rows == SubSeq(table, 1, n)
                 fit == Serialized(rows)
             IN  Answers(IF fit = n THEN "ok" ELSE "error", SubSeq(rows, 1, fit),
                         Size(SubSeq(rows, 1, fit)))
        \/ Answers("error", <<>>, 0)
    BY <1>10 DEF RunStats
  <2>3. Answered
    <3>1. CASE Answers("error", <<>>, 0)
      BY <1>0, <3>1 DEF Answered
    <3>2. ASSUME NEW n \in 0..Len(table),
                 LET rows == SubSeq(table, 1, n)
                     fit == Serialized(rows)
                 IN  Answers(IF fit = n THEN "ok" ELSE "error", SubSeq(rows, 1, fit),
                             Size(SubSeq(rows, 1, fit)))
          PROVE  Answered
      <4> DEFINE rows == SubSeq(table, 1, n)
                 fit == Serialized(rows)
                 sent == SubSeq(rows, 1, fit)
      <4>1. rows \in Seq(Hosts)
        BY <1>1, RowsType DEF TableTypes
      <4>2. fit \in 0..Len(rows)
        BY <4>1, SerializedType
      <4>3. sent \in Seq(Hosts)
        <5> HIDE DEF rows, fit
        <5> QED
          BY <4>1, <4>2, RowsType
      <4>4. Size(sent) \in Nat
        BY <4>3, SizeType
      <4>5. \E rc \in ReturnCodes : Answers(rc, sent, Size(sent))
        BY <1>0, <3>2
      <4> HIDE DEF sent
      <4>6. QED
        BY <4>3, <4>4, <4>5 DEF Answered
    <3>3. QED
      BY <2>2, <3>1, <3>2
  <2>4. QED
    BY <1>2, <2>1, <2>3 DEF Typed
<1>11. QED
  BY <1>4, <1>5, <1>6, <1>7, <1>8, <1>9, <1>10 DEF Run

LEMMA RunStepTypes ==
  ASSUME Types, Run
  PROVE  Types'
<1>1. stage = "run" /\ up
  BY DEF Run, RunStart, RunStop, RunList, RunAdd, RunAddUnset, RunStats, RunUnknown, Running
<1>2. CASE ServerDies
  BY <1>2, DieStep
<1>3. CASE Answered /\ TableTypes' /\ args' \in Text \cup {Unset} /\ (args' # Unset => Joined(args)')
  <2>1. PICK rc \in ReturnCodes, rows \in Seq(Hosts), size \in Nat : Answers(rc, rows, size)
    BY <1>3 DEF Answered
  <2>2. args' # Unset => Joined(args')
    BY <1>3 DEF Joined
  <2>3. LoopTypes' /\ BacklogTypes' /\ SocketTypes' /\ HistoryTypes'
    BY <1>1, <1>3, <2>1, <2>2, AnswerStep
  <2>4. ClientTypes'
    BY <2>1 DEF Types, ClientTypes, Answers, clients
  <2>5. QED
    BY <1>3, <2>3, <2>4 DEF Types
<1>4. QED
  BY <1>2, <1>3, RunTypes

LEMMA WriteTypes ==
  ASSUME Types, Write
  PROVE  Types'
<1> DEFINE c == served
           s == stream[c]
<1>1. /\ stage = "write" /\ stage' = "idle" /\ reply' = Unset
      /\ stream' = [stream EXCEPT ![c] = @ \o Units(reply)]
      /\ overran' = (overran \/ TooLong)
      /\ up' = up /\ paused' = paused /\ table' = table /\ served' = served /\ backlog' = backlog
      /\ body' = body /\ args' = args /\ fresh' = fresh /\ typed' = typed
      /\ client' = client /\ shown' = shown /\ id' = id
      /\ request' = request /\ runs' = runs
  BY DEF Write, state, clients
<1>2. reply \in AnswerSet /\ c \in Clients /\ s \in Seq(Parts) /\ stream \in [Clients -> Seq(Parts)]
  BY <1>1 DEF Types, LoopTypes, SocketTypes
<1>3. LoopTypes'
  BY <1>1 DEF Types, LoopTypes, Joined
<1>4. BacklogTypes' /\ TableTypes' /\ ClientTypes'
  BY <1>1 DEF Types, BacklogTypes, TableTypes, ClientTypes
<1>5. SocketTypes'
  <2>1. Units(reply) \in Seq(Parts)
    BY <1>2, UnitsProperties
  <2>2. s \o Units(reply) \in Seq(Parts)
    BY <1>2, <2>1, ConcatProperties
  <2>3. QED
    BY <1>1, <1>2, <2>2 DEF Types, SocketTypes
<1>6. HistoryTypes'
  <2>1. \A d \in Clients : Counted(d)' <=> Counted(d)
    BY <1>1 DEF Counted, InRunning
  <2>2. overran' \in BOOLEAN
    BY <1>1 DEF Types, HistoryTypes, TooLong
  <2>3. QED
    BY <1>1, <2>1, <2>2 DEF Types, HistoryTypes
<1>7. QED
  BY <1>3, <1>4, <1>5, <1>6 DEF Types

LEMMA TypesStep == Types /\ [Next]_vars => Types'
<1> SUFFICES ASSUME Types, [Next]_vars
             PROVE  Types'
  OBVIOUS
<1>1. CASE Accept \/ Hangup \/ ReadRequest \/ Run \/ Write
  BY <1>1, AcceptTypes, HangupTypes, ReadRequestTypes, RunStepTypes, WriteTypes
<1>2. CASE Overrun \/ WriteToNobody
  BY <1>2, DieStep DEF Overrun, WriteToNobody
<1>3. ASSUME NEW c \in Clients, ClientStep(c)
      PROVE  Types'
  BY <1>3, ClientStepTypes
<1>4. CASE UNCHANGED vars
  BY <1>4 DEF vars, state, loop, clients, sockets, history, Types, LoopTypes, TableTypes,
     BacklogTypes, ClientTypes, SocketTypes, HistoryTypes, Counted, InRunning, Joined
<1>5. QED
  BY <1>1, <1>2, <1>3, <1>4 DEF Next, ServerStep

LEMMA TypesGiveTypeOK == Types => TypeOK
<1> SUFFICES ASSUME Types
             PROVE  TypeOK
  OBVIOUS
<1>1. request \in [Clients -> Seq(Requests)]
  <2>1. Asking \subseteq Requests
    BY AskingType
  <2>2. ASSUME NEW c \in Clients
        PROVE  request[c] \in Seq(Requests)
    <3>1. request[c] \in Seq(Asking)
      BY DEF Types, SocketTypes
    <3>2. QED
      BY <2>1, <3>1, SeqMonotonic
  <2>3. QED
    BY <2>2 DEF Types, SocketTypes
<1>2. ASSUME NEW c \in Clients, NEW i \in DOMAIN stream[c]
      PROVE  stream[c][i].answer \in AnswerSet
  <2>1. stream[c] \in Seq(Parts)
    BY DEF Types, SocketTypes
  <2>2. stream[c][i] \in Parts
    BY <2>1, LenProperties, ElementOfSeq
  <2>3. QED
    BY <2>2 DEF Parts
<1>3. /\ runs \in [Clients -> 0..MaxRequests]
      /\ \A c \in Clients : runs[c] <= id[c]
  <2>1. ASSUME NEW c \in Clients
        PROVE  runs[c] \in 0..MaxRequests /\ runs[c] <= id[c]
    <3> DEFINE waiting == Len(request[c])
               running == IF InRunning(c) THEN 1 ELSE 0
    <3>1. waiting \in Nat /\ running \in Nat
      BY LenProperties DEF Types, SocketTypes
    <3>2. waiting + running + runs[c] <= id[c] /\ runs[c] \in Nat /\ id[c] \in 0..MaxRequests
      BY DEF Types, HistoryTypes, ClientTypes, Counted
    <3> HIDE DEF waiting, running
    <3>3. QED
      BY <3>1, <3>2, BoundsAssumption
  <2>2. QED
    BY <2>1 DEF Types, HistoryTypes
<1>4. QED
  BY <1>1, <1>2, <1>3
     DEF Types, LoopTypes, TableTypes, BacklogTypes, ClientTypes, SocketTypes, HistoryTypes, TypeOK

\* Every variable keeps to its values: no host is listed twice, no connection
\* waits twice, and never are more requests of a client run than it typed
\* (runs[c] <= id[c]), because each is in one place until it is run (Counted;
\* server_loop.c:30-60, cmd_handler.c:77-126).
THEOREM TypeCorrect == Spec => []TypeOK
<1>1. Spec => []Types
  BY TypesInit, TypesStep, PTL DEF Spec
<1>2. QED
  BY <1>1, TypesGiveTypeOK, PTL

-----------------------------------------------------------------------------
(* Every request is in one place.                                          *)

Mine(c) == <<client[c], typed[c], id[c], shown[c], request[c], stream[c], runs[c]>>

\* A step that is about nobody but other clients.
LEMMA Elsewhere ==
  ASSUME NEW d \in Clients, Standing(d), UNCHANGED Mine(d),
         UNCHANGED <<served, stage, body, args, fresh, reply, paused, table>>
  PROVE  Standing(d)'
BY DEF Standing, Mine, Asked, InRun, Answering, Sent, AtRest, Empty, Busy, InRunning, Ours,
       Matches, Holds, Built

\* A step of the server that is not about this client, which may be accepted.
LEMMA NotServed ==
  ASSUME NEW d \in Clients, Types, Standing(d), UNCHANGED Mine(d),
         served # d, served' # d \/ stage' = "idle"
  PROVE  Standing(d)'
<1>1. ~ Busy(d) /\ ~ Busy(d)' /\ ~ InRunning(d) /\ ~ InRunning(d)'
  BY DEF Busy, InRunning
<1>2. AtRest(d) => AtRest(d)'
  BY <1>1 DEF AtRest, Empty, Mine
<1>3. Asked(d) => Asked(d)'
  BY <1>1 DEF Asked, Built, Mine
<1>4. ~ InRun(d) /\ ~ Answering(d) /\ ~ Sent(d)
  BY DEF InRun, Answering, Sent, InRunning
<1>5. CASE client[d] = "new"
  BY <1>2, <1>5 DEF Standing, Mine
<1>6. CASE client[d] = "prompt"
  <2>1. AtRest(d) /\ ~ (id[d] > 0)
    BY <1>6 DEF Standing
  <2>2. QED
    BY <1>2, <1>6, <2>1 DEF Standing, Mine
<1>7. CASE client[d] = "waiting"
  <2>1. id[d] > 0 /\ Asked(d)
    BY <1>4, <1>7 DEF Standing
  <2>2. QED
    BY <1>3, <1>7, <2>1 DEF Standing, Mine
<1>8. CASE client[d] = "gone"
  BY <1>1, <1>8 DEF Standing, Mine, Built
<1>9. client[d] \in {"new", "prompt", "waiting", "gone"}
  BY DEF Types, ClientTypes
<1>10. QED
  BY <1>5, <1>6, <1>7, <1>8, <1>9

LEMMA LeaveStands ==
  ASSUME NEW c \in Clients, Types, Standing(c), Leaves(c),
         UNCHANGED <<served, stage, body, args, fresh, reply, paused, table>>,
         UNCHANGED <<typed, id, request, runs>>
  PROVE  Standing(c)'
<1>1. client'[c] = "gone"
  BY DEF Leaves, Moves, Types, ClientTypes
<1>2. /\ InRunning(c)' <=> InRunning(c)
      /\ Built(c)' = Built(c)
      /\ Ours(c)' <=> Ours(c)
      /\ request'[c] = request[c]
  BY DEF InRunning, Built, Ours
<1>3. request[c] \in {<<>>, <<Built(c)>>} /\ (InRunning(c) => Ours(c))
  <2>1. CASE client[c] \in {"new", "prompt"}
    BY <2>1 DEF Standing, AtRest, Empty, Busy, InRunning
  <2>2. CASE client[c] = "waiting"
    BY <2>2 DEF Standing, Asked, InRun, Answering, Sent, Empty, Busy, InRunning
  <2>3. CASE client[c] = "gone"
    BY <2>3 DEF Standing
  <2>4. client[c] \in {"new", "prompt", "waiting", "gone"}
    BY DEF Types, ClientTypes
  <2>5. QED
    BY <2>1, <2>2, <2>3, <2>4
<1>4. QED
  BY <1>1, <1>2, <1>3 DEF Standing

\* An answer that fits is read whole, and nothing else with it.
LEMMA ChunkOfAnswer ==
  ASSUME NEW a \in AnswerSet, a.body_len <= BodySize
  PROVE  /\ Chunk(Units(a)) = Units(a) /\ Valid(Units(a)) /\ Units(a)[1].answer = a
         /\ SubSeq(Units(a), Len(Units(a)) + 1, Len(Units(a))) = <<>>
<1> DEFINE s == Units(a)
<1>1. s \in Seq(Parts) /\ Len(s) = 1 + a.body_len /\ a.body_len \in Nat /\ BodySize \in Nat
  BY UnitsProperties, SizeAssumption DEF BodySize
<1>2. s[1].answer = a
  <2>1. 1 \in 1..(1 + a.body_len)
    BY <1>1
  <2>2. QED
    BY <2>1, UnitsProperties
<1> HIDE DEF s
<1>3. SubSeq(s, 1, Len(s)) = s
  BY <1>1, SubSeqFull
<1>4. Chunk(s) = s
  <2>1. (IF Len(s) < HeaderSize + BodySize THEN Len(s) ELSE HeaderSize + BodySize) = Len(s)
    BY <1>1 DEF HeaderSize
  <2>2. QED
    BY <1>3, <2>1 DEF Chunk
<1>5. Valid(s)
  BY <1>2 DEF Valid, s
<1>6. SubSeq(s, Len(s) + 1, Len(s)) = <<>>
  BY <1>1, SubSeqEmpty
<1>7. QED
  BY <1>2, <1>4, <1>5, <1>6 DEF s

LEMMA ReadAnswerStands ==
  ASSUME NEW c \in Clients, Types, Standing(c), ReadAnswer(c)
  PROVE  Standing(c)'
<1> DEFINE s == stream[c]
           chunk == Chunk(s)
<1>1. /\ served' = served /\ stage' = stage /\ body' = body /\ args' = args /\ fresh' = fresh
      /\ reply' = reply /\ paused' = paused /\ table' = table
      /\ typed' = typed /\ id' = id /\ request' = request /\ runs' = runs
  BY DEF ReadAnswer, state, loop, history
<1>2. client[c] = "waiting" /\ s # <<>>
  BY DEF ReadAnswer
<1>3. CASE Leaves(c)
  BY <1>1, <1>3, LeaveStands
<1>4. CASE /\ client' = [client EXCEPT ![c] = "prompt"]
           /\ stream' = [stream EXCEPT ![c] = SubSeq(@, Len(chunk) + 1, Len(@))]
           /\ shown' = [shown EXCEPT ![c] = IF Valid(chunk) THEN chunk[1].answer ELSE shown[c]]
  <2>1. Sent(c) /\ id[c] > 0
    BY <1>2 DEF Standing, Asked, InRun, Answering, Empty
  <2>2. PICK a \in AnswerSet : s = Units(a) /\ a.body_len <= BodySize /\ Matches(a, c)
    BY <2>1 DEF Sent
  <2>3. /\ chunk = s /\ Valid(chunk) /\ chunk[1].answer = a
        /\ SubSeq(s, Len(chunk) + 1, Len(s)) = <<>>
    BY <2>2, ChunkOfAnswer
  <2> HIDE DEF chunk, s
  <2>4. shown'[c] = a
    BY <1>4, <2>3 DEF Types, ClientTypes
  <2>5. stream'[c] = <<>>
    BY <1>4, <2>3 DEF Types, SocketTypes, s
  <2>6. client'[c] = "prompt"
    BY <1>4 DEF Types, ClientTypes
  <2>7. AtRest(c)'
    BY <1>1, <2>1, <2>5 DEF Sent, AtRest, Empty, Busy
  <2>8. Matches(a, c)'
    BY <1>1, <2>2 DEF Matches, Holds, Built
  <2>9. Matches(shown[c], c)'
    BY <2>4, <2>8
  <2>10. served' = c /\ shown'[c] # Unset
    BY <1>1, <2>1, <2>4, UnsetAssumption DEF Sent
  <2>11. QED
    BY <2>6, <2>7, <2>9, <2>10 DEF Standing
<1>5. QED
  BY <1>3, <1>4 DEF ReadAnswer, Moves

LEMMA TypeStands ==
  ASSUME NEW c \in Clients, NEW line \in Lines, Types, Standing(c), Type(c, line)
  PROVE  Standing(c)'
<1>1. /\ client[c] = "prompt"
      /\ client' = [client EXCEPT ![c] = "waiting"]
      /\ typed' = [typed EXCEPT ![c] = line]
      /\ id' = [id EXCEPT ![c] = @ + 1]
      /\ request' = [request EXCEPT ![c] = Append(@, build_cmd_from_str(line))]
      /\ served' = served /\ stage' = stage /\ stream' = stream /\ runs' = runs
  BY DEF Type, Moves, loop, history
<1>2. AtRest(c)
  BY <1>1 DEF Standing
<1>3. client'[c] = "waiting" /\ typed'[c] = line /\ id'[c] = id[c] + 1 /\ id[c] \in Nat
  BY <1>1 DEF Types, ClientTypes
<1>4. request'[c] = Append(<<>>, build_cmd_from_str(line))
  BY <1>1, <1>2 DEF AtRest, Empty, Types, SocketTypes
<1>5. Append(<<>>, build_cmd_from_str(line)) = <<build_cmd_from_str(line)>>
  OBVIOUS
<1>6. Built(c)' = build_cmd_from_str(line)
  BY <1>3 DEF Built
<1>7. request'[c] = <<Built(c)'>>
  BY <1>4, <1>5, <1>6
<1>8. stream'[c] = <<>> /\ ~ Busy(c)' /\ runs'[c] = id'[c] - 1
  BY <1>1, <1>2, <1>3 DEF AtRest, Empty, Busy
<1>9. Asked(c)'
  BY <1>7, <1>8 DEF Asked
<1>10. QED
  BY <1>3, <1>9 DEF Standing

LEMMA ClientStands ==
  ASSUME NEW c \in Clients, Types, up, \A d \in Clients : Standing(d), ClientStep(c)
  PROVE  \A d \in Clients : Standing(d)'
<1>1. /\ served' = served /\ stage' = stage /\ body' = body /\ args' = args /\ fresh' = fresh
      /\ reply' = reply /\ paused' = paused /\ table' = table /\ runs' = runs
  BY ClientKeeps
<1>2. ASSUME NEW d \in Clients, d # c
      PROVE  Standing(d)'
  <2>1. UNCHANGED Mine(d)
    <3>1. \A x : client' = [client EXCEPT ![c] = x] => client'[d] = client[d]
      BY <1>2 DEF Types, ClientTypes
    <3>2. \A x : typed' = [typed EXCEPT ![c] = x] => typed'[d] = typed[d]
      BY <1>2 DEF Types, ClientTypes
    <3>3. \A x : id' = [id EXCEPT ![c] = x] => id'[d] = id[d]
      BY <1>2 DEF Types, ClientTypes
    <3>4. \A x : shown' = [shown EXCEPT ![c] = x] => shown'[d] = shown[d]
      BY <1>2 DEF Types, ClientTypes
    <3>5. \A x : request' = [request EXCEPT ![c] = x] => request'[d] = request[d]
      BY <1>2 DEF Types, SocketTypes
    <3>6. \A x : stream' = [stream EXCEPT ![c] = x] => stream'[d] = stream[d]
      BY <1>2 DEF Types, SocketTypes
    <3>7. CASE Connect(c)
      BY <3>1, <3>7 DEF Connect, Moves, sockets, history, Mine
    <3>8. CASE ConnectFails(c) \/ TypeToNobody(c) \/ Quit(c)
      BY <3>1, <3>4, <3>6, <3>8 DEF ConnectFails, TypeToNobody, Quit, Leaves, Moves, history, Mine
    <3>9. ASSUME NEW line \in Lines, Type(c, line)
          PROVE  UNCHANGED Mine(d)
      BY <3>1, <3>2, <3>3, <3>5, <3>9 DEF Type, Moves, history, Mine
    <3>10. CASE ReadAnswer(c)
      BY <3>1, <3>4, <3>6, <3>10 DEF ReadAnswer, Leaves, Moves, history, Mine
    <3>11. CASE ReadNothing(c)
      BY <3>1, <3>4, <3>6, <3>11 DEF ReadNothing, Leaves, Moves, history, Mine
    <3>12. QED
      BY <3>7, <3>8, <3>9, <3>10, <3>11, ClientCases
  <2>2. QED
    BY <1>1, <2>1, Elsewhere
<1>3. Standing(c)'
  <2>1. CASE Connect(c)
    <3>1. /\ client[c] = "new" /\ client' = [client EXCEPT ![c] = "prompt"]
          /\ typed' = typed /\ id' = id /\ shown' = shown /\ request' = request /\ stream' = stream
      BY <2>1 DEF Connect, Moves, sockets
    <3>2. client'[c] = "prompt" /\ AtRest(c) /\ id[c] = 0
      BY <3>1 DEF Standing, Types, ClientTypes
    <3>3. AtRest(c)' /\ ~ (id'[c] > 0)
      BY <1>1, <3>1, <3>2 DEF AtRest, Empty, Busy
    <3>4. QED
      BY <3>2, <3>3 DEF Standing
  <2>2. CASE ConnectFails(c) \/ Quit(c)
    <3>1. Leaves(c) /\ UNCHANGED <<typed, id, request>>
      BY <2>2 DEF ConnectFails, Quit
    <3>2. QED
      BY <1>1, <3>1, LeaveStands
  <2>3. CASE TypeToNobody(c) \/ ReadNothing(c)
    BY <2>3 DEF TypeToNobody, ReadNothing
  <2>4. CASE ReadAnswer(c)
    BY <2>4, ReadAnswerStands
  <2>5. ASSUME NEW line \in Lines, Type(c, line)
        PROVE  Standing(c)'
    BY <2>5, TypeStands
  <2>6. QED
    BY <2>1, <2>2, <2>3, <2>4, <2>5, ClientCases
<1>4. QED
  BY <1>2, <1>3

-----------------------------------------------------------------------------
(* What the server answers is about the line.                              *)

\* The hosts on a line that is a `hostname add` are among the arguments: the
\* words before them are verbs.
LEMMA HostsAreArguments ==
  ASSUME NEW line \in Text, build_cmd_from_str(line).code = "add",
         NEW h \in ToSet(line) \cap Hosts
  PROVE  LET list == extract_words(build_cmd_from_str(line).args)
         IN  list \in Seq(Word) /\ \E i \in 1..Len(list) : h \in ToSet(list[i])
<1> DEFINE words == extract_words(line)
           list == extract_words(build_cmd_from_str(line).args)
           m == Len(words)
<1>1. words \in Seq(Word) /\ m \in Nat /\ \A i \in 1..m : words[i] \in Word
  BY ExtractType, LenProperties, ElementOfSeq
<1>2. PICK l \in Seq(Word) \ {<<>>} :
        /\ build_cmd_from_str(line).args = string_list_to_string(l)
        /\ Len(l) = m - 2 /\ m > 2
        /\ \A i \in 1..Len(l) : l[i] = words[i + 2]
  BY BuildType
<1>3. list = l
  BY <1>2, SplitUndoesJoin
<1>4. words[1] = <<"hostname">> /\ words[2] = <<"add">>
  <2>1. IsCommand(words, build_cmd_from_str(line))
    BY BuildIsCommand
  <2>2. build_cmd_from_str(line).code # "none"
    OBVIOUS
  <2> HIDE DEF words
  <2>3. QED
    BY <2>1, <2>2 DEF IsCommand, Command, None
<1>5. h \in ToSet(FlattenSeq(words))
  <2>1. PICK k \in DOMAIN line : h = line[k]
    BY DEF ToSet
  <2>2. Marks(line) \in Seq(Seq(Piece)) /\ Len(Marks(line)) = Len(line) /\ DOMAIN line = 1..Len(line)
    BY MarksType, LenProperties DEF Text
  <2>3. h # Space
    BY TextAssumption
  <2>4. Marks(line)[k] = <<h>>
    BY <2>1, <2>2, <2>3 DEF Marks, Mark
  <2>5. h \in ToSet(<<h>>)
    BY DEF ToSet
  <2>6. h \in ToSet(FlattenSeq(Marks(line)))
    <3> DEFINE marks == Marks(line)
    <3>1. marks \in Seq(Seq(Piece)) /\ k \in 1..Len(marks) /\ marks[k] = <<h>>
      BY <2>1, <2>2, <2>4
    <3> HIDE DEF marks
    <3>2. ToSet(FlattenSeq(marks)) = UNION {ToSet(marks[i]) : i \in 1..Len(marks)}
      BY <3>1, FlattenSeqHolds
    <3>3. ToSet(marks[k]) \in {ToSet(marks[i]) : i \in 1..Len(marks)} /\ h \in ToSet(marks[k])
      BY <2>5, <3>1
    <3>4. h \in ToSet(FlattenSeq(marks))
      BY <3>2, <3>3
    <3>5. QED
      BY <3>4 DEF marks
  <2>7. FlattenSeq(words) = FlattenSeq(Marks(line))
    BY ExtractKeeps DEF Kept
  <2>8. QED
    BY <2>6, <2>7
<1>6. PICK j \in 1..m : h \in ToSet(words[j])
  <2>1. words \in Seq(Seq(Piece))
    BY <1>1, SeqMonotonic DEF Word
  <2> HIDE DEF words
  <2>2. ToSet(FlattenSeq(words)) = UNION {ToSet(words[i]) : i \in 1..m}
    BY <2>1, FlattenSeqHolds
  <2>3. QED
    BY <1>5, <2>2
<1>7. j # 1 /\ j # 2
  <2>1. ToSet(<<"hostname">>) = {"hostname"} /\ ToSet(<<"add">>) = {"add"}
    BY DEF ToSet
  <2>2. h \notin Verbs /\ "hostname" \in Verbs /\ "add" \in Verbs
    BY TextAssumption DEF Verbs
  <2>3. QED
    BY <1>4, <1>6, <2>1, <2>2
<1> HIDE DEF words, m, list
<1>8. j - 2 \in 1..Len(l) /\ (j - 2) + 2 = j
  BY <1>1, <1>2, <1>6, <1>7
<1>9. h \in ToSet(l[j - 2])
  BY <1>2, <1>6, <1>8
<1>10. QED
  BY <1>3, <1>8, <1>9 DEF list

\* The answer to a command that came with the request is the answer to the
\* line, and what it says is so.
LEMMA RunMatches ==
  ASSUME NEW c \in Clients, Types, InRunning(c), Ours(c), Run, up'
  PROVE  /\ Matches(reply, c)' /\ stage' = "write" /\ served' = served
         /\ runs' = [runs EXCEPT ![c] = @ + 1] /\ UNCHANGED <<clients, sockets>>
<1>1. served = c /\ stage = "run"
  BY DEF InRunning
<1>2. ~ ServerDies
  BY DEF ServerDies
<1>3. Answered
  BY <1>2, RunTypes
<1>4. PICK rc \in ReturnCodes, rows \in Seq(Hosts), size \in Nat : Answers(rc, rows, size)
  BY <1>3 DEF Answered
<1>5. /\ reply'.id = id[c] /\ reply'.code = body /\ typed' = typed /\ id' = id
      /\ stage' = "write" /\ served' = served /\ body' = body
      /\ runs' = [runs EXCEPT ![c] = @ + 1] /\ UNCHANGED <<clients, sockets>>
  BY <1>1, <1>4 DEF Answers, clients
<1>6. Built(c)' = Built(c)
  BY <1>5 DEF Built
<1>7. Built(c) # None => body = Built(c).code
  BY DEF Ours
<1>8. ASSUME NEW r \in ReturnCodes, NEW rs, NEW sz, Answers(r, rs, sz)
      PROVE  reply'.rc = r /\ reply'.rows = rs
  BY <1>8 DEF Answers
<1>9. reply'.rc = "ok" => Holds(reply, c)'
  <2>1. CASE RunStart
    <3>1. body = "start"
      BY <2>1 DEF RunStart, Running
    <3>2. reply'.rc = "error" \/ ~paused'
      BY <1>8, <2>1 DEF RunStart, Replies, ReturnCodes
    <3>3. QED
      BY <1>5, <3>1, <3>2 DEF Holds
  <2>2. CASE RunStop
    <3>1. body = "stop" /\ paused'
      BY <2>2 DEF RunStop, Running
    <3>2. QED
      BY <1>5, <3>1 DEF Holds
  <2>3. CASE RunList
    <3>1. body = "list"
      BY <2>3 DEF RunList, Running
    <3>2. QED
      BY <1>5, <3>1 DEF Holds
  <2>4. CASE RunUnknown
    <3>1. reply'.rc = "error"
      BY <1>8, <2>4 DEF RunUnknown, Replies, ReturnCodes
    <3>2. QED
      BY <3>1
  <2>5. CASE RunAddUnset
    <3>1. \E junk \in Junk : Answers("error", <<>>, junk)
      BY <1>2, <2>5 DEF RunAddUnset
    <3>2. reply'.rc = "error"
      BY <1>8, <3>1 DEF ReturnCodes
    <3>3. QED
      BY <3>2
  <2>6. CASE RunAdd
    <3> DEFINE words == extract_words(args)
    <3>1. PICK r \in ReturnCodes, junk \in Junk, n \in 0..Len(words) :
            /\ \A i \in 1..n : words[i] \in {<<h>> : h \in Hosts}
            /\ IsInjective(New(words, n))
            /\ r = "ok" => n = Len(words)
            /\ table' = table \o New(words, n)
            /\ Answers(r, <<>>, junk)
      BY <2>6 DEF RunAdd
    <3>2. reply'.rc = r
      BY <1>8, <3>1
    <3>3. body = "add"
      BY <2>6 DEF RunAdd, Running
    <3>4. ASSUME r = "ok", Built(c) # None, NEW h \in ToSet(typed[c]) \cap Hosts
          PROVE  h \in ToSet(table')
      <4>1. typed[c] \in Text
        <5>1. <<>> \in Text
          BY EmptySeq DEF Text
        <5>2. QED
          BY <5>1, BoundsAssumption DEF Types, ClientTypes
      <4>2. Built(c).code = "add" /\ fresh
        BY <1>7, <3>3, <3>4 DEF Ours
      <4>3. Built(c).args # <<>>
        BY <4>1, <4>2, BuildType DEF Built
      <4>4. args = Built(c).args
        BY <4>2, <4>3 DEF Ours
      <4>5. words \in Seq(Word) /\ \E i \in 1..Len(words) : h \in ToSet(words[i])
        <5>1. build_cmd_from_str(typed[c]).code = "add"
          BY <4>2 DEF Built
        <5>2. words = extract_words(build_cmd_from_str(typed[c]).args)
          BY <4>4 DEF Built
        <5> HIDE DEF words
        <5>3. QED
          BY <4>1, <5>1, <5>2, HostsAreArguments
      <4>6. PICK i \in 1..Len(words) : h \in ToSet(words[i])
        BY <4>5
      <4>7. n = Len(words) /\ TableTypes
        BY <3>1, <3>4 DEF Types
      <4> HIDE DEF words
      <4>8. PICK g \in Hosts : words[i] = <<g>>
        BY <3>1, <4>7
      <4>9. h = words[i][1]
        BY <4>6, <4>8 DEF ToSet
      <4>10. words[i][1] \in ToSet(table \o New(words, n))
        BY <3>1, <4>5, <4>7, NewProperties
      <4>11. QED
        BY <3>1, <4>9, <4>10
    <3>5. QED
      BY <1>5, <1>6, <3>2, <3>3, <3>4 DEF Holds
  <2>7. CASE RunStats
    <3>1. body = "stats" /\ table' = table
      BY <2>7 DEF RunStats, Running, state
    <3>2. reply'.rc = "ok" => IsPrefix(reply'.rows, table)
      <4>1. \/ \E n \in 0..Len(table) :
                 LET rs == SubSeq(table, 1, n)
                     fit == Serialized(rs)
                 IN  Answers(IF fit = n THEN "ok" ELSE "error", SubSeq(rs, 1, fit),
                             Size(SubSeq(rs, 1, fit)))
            \/ Answers("error", <<>>, 0)
        BY <2>7 DEF RunStats
      <4>2. CASE Answers("error", <<>>, 0)
        BY <1>8, <4>2 DEF ReturnCodes
      <4>3. ASSUME NEW n \in 0..Len(table),
                   LET rs == SubSeq(table, 1, n)
                       fit == Serialized(rs)
                   IN  Answers(IF fit = n THEN "ok" ELSE "error", SubSeq(rs, 1, fit),
                               Size(SubSeq(rs, 1, fit)))
            PROVE  reply'.rc = "ok" => IsPrefix(reply'.rows, table)
        <5> DEFINE rs == SubSeq(table, 1, n)
                   fit == Serialized(rs)
        <5>1. table \in Seq(Hosts)
          BY DEF Types, TableTypes
        <5>2. rs \in Seq(Hosts) /\ Len(rs) = n
          BY <5>1, RowsType
        <5>3. /\ reply'.rows = SubSeq(rs, 1, fit)
              /\ reply'.rc = IF fit = n THEN "ok" ELSE "error"
          BY <1>8, <4>3 DEF ReturnCodes
        <5>4. SubSeq(rs, 1, n) = rs
          <6> HIDE DEF rs
          <6> QED
            BY <5>2, SubSeqFull
        <5>5. IsPrefix(rs, table)
          <6>1. n <= Len(table)
            BY <5>1, LenProperties
          <6>2. QED
            BY <5>2, <5>4, <6>1 DEF IsPrefix
        <5> HIDE DEF rs, fit
        <5>6. QED
          BY <5>3, <5>4, <5>5
      <4>4. QED
        BY <4>1, <4>2, <4>3
    <3>3. QED
      BY <1>5, <3>1, <3>2 DEF Holds
  <2>8. QED
    BY <2>1, <2>2, <2>3, <2>4, <2>5, <2>6, <2>7 DEF Run
<1>10. Matches(reply, c)'
  BY <1>5, <1>6, <1>7, <1>9 DEF Matches
<1>11. QED
  BY <1>5, <1>10

LEMMA AcceptStands ==
  ASSUME Types, \A d \in Clients : Standing(d), Accept
  PROVE  \A d \in Clients : Standing(d)'
<1>1. /\ served = Nobody /\ stage' = stage
      /\ UNCHANGED <<clients, sockets, history>>
  BY DEF Accept
<1>2. stage' = "idle"
  BY <1>1 DEF Types, LoopTypes
<1>3. ASSUME NEW d \in Clients
      PROVE  Standing(d)'
  <2>1. served # d
    BY <1>1, NamesAssumption
  <2>2. UNCHANGED Mine(d)
    BY <1>1 DEF Mine, clients, sockets, history
  <2>3. QED
    BY <1>2, <2>1, <2>2, NotServed
<1>4. QED
  BY <1>3

LEMMA HangupStands ==
  ASSUME Types, \A d \in Clients : Standing(d), Hangup
  PROVE  \A d \in Clients : Standing(d)'
<1>1. /\ stage = "idle" /\ stage' = stage /\ client[served] = "gone" /\ request[served] = <<>>
      /\ served' = Nobody /\ UNCHANGED <<clients, sockets, history>>
  BY DEF Hangup, Reading
<1>2. ASSUME NEW d \in Clients
      PROVE  Standing(d)'
  <2>1. UNCHANGED Mine(d)
    BY <1>1 DEF Mine, clients, sockets, history
  <2>2. CASE served # d
    BY <1>1, <2>1, <2>2, NotServed
  <2>3. CASE served = d
    <3>1. client'[d] = "gone" /\ request'[d] = <<>> /\ ~ InRunning(d)'
      BY <1>1, <2>1, <2>3 DEF Mine, InRunning
    <3>2. QED
      BY <3>1 DEF Standing
  <2>4. QED
    BY <2>2, <2>3
<1>3. QED
  BY <1>2

LEMMA ReadRequestStands ==
  ASSUME Types, \A d \in Clients : Standing(d), ReadRequest
  PROVE  \A d \in Clients : Standing(d)'
<1>0. PICK c \in Clients : c = served
  BY DEF Types, LoopTypes, ReadRequest, Reading
<1> DEFINE r == Head(request[c])
<1>1. /\ stage = "idle" /\ c # Nobody /\ request[c] # <<>> /\ stage' = "run"
      /\ served' = served /\ request' = [request EXCEPT ![c] = <<>>]
      /\ stream' = stream /\ UNCHANGED <<clients, history>>
      /\ IF Len(request[c]) = 1 /\ r # None
         THEN /\ body' = r.code
              /\ args' = IF r.args = <<>> THEN args ELSE r.args
              /\ fresh' = TRUE
         ELSE fresh' = FALSE
  BY <1>0 DEF ReadRequest, Reading
<1>2. c \in Clients
  OBVIOUS
<1>3. ASSUME NEW d \in Clients, d # c
      PROVE  Standing(d)'
  <2>1. request'[d] = request[d]
    BY <1>1, <1>3 DEF Types, SocketTypes
  <2>2. UNCHANGED Mine(d)
    BY <1>1, <2>1 DEF Mine, clients, history
  <2>3. QED
    BY <1>0, <1>1, <1>3, <2>2, NotServed
<1>4. Standing(c)'
  <2>1. /\ client'[c] = client[c] /\ typed'[c] = typed[c] /\ id'[c] = id[c] /\ stream'[c] = stream[c]
        /\ runs'[c] = runs[c]
    BY <1>1 DEF clients, history
  <2>2. request'[c] = <<>>
    BY <1>1, <1>2 DEF Types, SocketTypes
  <2>3. client[c] = "gone" \/ (client[c] = "waiting" /\ id[c] > 0 /\ Asked(c))
    <3>1. client[c] \in {"new", "prompt", "waiting", "gone"}
      BY <1>2 DEF Types, ClientTypes
    <3>2. client[c] \notin {"new", "prompt"}
      BY <1>1, <1>2 DEF Standing, AtRest, Empty
    <3>3. client[c] = "waiting" => id[c] > 0 /\ Asked(c)
      BY <1>1, <1>2 DEF Standing, InRun, Answering, Sent, Empty
    <3>4. QED
      BY <3>1, <3>2, <3>3
  <2>4. request[c] = <<Built(c)>>
    BY <1>1, <1>2, <2>3 DEF Standing, Asked
  <2>5. r = Built(c) /\ Len(request[c]) = 1
    BY <2>4
  <2> HIDE DEF r
  <2>6. Built(c)' = Built(c) /\ InRunning(c)'
    BY <1>0, <1>1, <2>1 DEF Built, InRunning
  <2>7. Ours(c)'
    BY <1>1, <2>5, <2>6 DEF Ours
  <2>8. CASE client[c] = "gone"
    BY <2>1, <2>2, <2>7, <2>8 DEF Standing
  <2>9. CASE client[c] = "waiting" /\ id[c] > 0 /\ Asked(c)
    <3>1. stream'[c] = <<>> /\ runs'[c] = id'[c] - 1
      BY <2>1, <2>9 DEF Asked
    <3>2. InRun(c)'
      BY <2>2, <2>6, <2>7, <3>1 DEF InRun, Empty
    <3>3. QED
      BY <2>1, <2>9, <3>2 DEF Standing
  <2>10. QED
    BY <2>3, <2>8, <2>9
<1>5. \A d \in Clients : Standing(d)'
  BY <1>3, <1>4
<1>6. QED
  BY <1>5

LEMMA RunStands ==
  ASSUME Types, \A d \in Clients : Standing(d), Run, up'
  PROVE  \A d \in Clients : Standing(d)'
<1>0. PICK c \in Clients : c = served
  BY DEF Types, LoopTypes, Run, RunStart, RunStop, RunList, RunAdd, RunAddUnset, RunStats,
     RunUnknown, Running
<1>1. stage = "run"
  BY DEF Run, RunStart, RunStop, RunList, RunAdd, RunAddUnset, RunStats, RunUnknown, Running
<1>2. c \in Clients /\ InRunning(c)
  BY <1>0, <1>1 DEF InRunning
<1>3. client[c] = "gone" \/ (client[c] = "waiting" /\ id[c] > 0 /\ InRun(c))
  <2>1. client[c] \in {"new", "prompt", "waiting", "gone"}
    BY <1>2 DEF Types, ClientTypes
  <2>2. Busy(c)
    BY <1>0, <1>1 DEF Busy
  <2>3. client[c] \notin {"new", "prompt"}
    BY <1>2, <2>2 DEF Standing, AtRest
  <2>4. client[c] = "waiting" => id[c] > 0 /\ InRun(c)
    BY <1>1, <1>2, <2>2 DEF Standing, Asked, Answering, Sent
  <2>5. QED
    BY <2>1, <2>3, <2>4
<1>4. Ours(c)
  BY <1>2, <1>3 DEF Standing, InRun
<1>5. /\ Matches(reply, c)' /\ stage' = "write" /\ served' = served
      /\ runs' = [runs EXCEPT ![c] = @ + 1] /\ UNCHANGED <<clients, sockets>>
  BY <1>2, <1>4, RunMatches
<1>6. ASSUME NEW d \in Clients, d # c
      PROVE  Standing(d)'
  <2>1. runs'[d] = runs[d]
    BY <1>5, <1>6 DEF Types, HistoryTypes
  <2>2. UNCHANGED Mine(d)
    BY <1>5, <2>1 DEF Mine, clients, sockets
  <2>3. QED
    BY <1>0, <1>5, <1>6, <2>2, NotServed
<1>7. Standing(c)'
  <2>1. /\ client'[c] = client[c] /\ typed'[c] = typed[c] /\ id'[c] = id[c] /\ stream'[c] = stream[c]
        /\ request'[c] = request[c]
    BY <1>5 DEF clients, sockets
  <2>2. runs'[c] = runs[c] + 1 /\ runs[c] \in Nat /\ id[c] \in Nat
    BY <1>2, <1>5 DEF Types, HistoryTypes, ClientTypes
  <2>3. CASE client[c] = "gone"
    <3>1. request[c] \in {<<>>, <<Built(c)>>} /\ Built(c)' = Built(c) /\ ~ InRunning(c)'
      BY <1>2, <1>5, <2>1, <2>3 DEF Standing, Built, InRunning
    <3>2. QED
      BY <2>1, <2>3, <3>1 DEF Standing
  <2>4. CASE client[c] = "waiting" /\ id[c] > 0 /\ InRun(c)
    <3>1. request'[c] = <<>> /\ stream'[c] = <<>> /\ runs'[c] = id'[c]
      BY <2>1, <2>2, <2>4 DEF InRun, Empty
    <3>2. Answering(c)'
      BY <1>0, <1>5, <3>1 DEF Answering, Empty
    <3>3. QED
      BY <2>1, <2>4, <3>2 DEF Standing
  <2>5. QED
    BY <1>3, <2>3, <2>4
<1>8. QED
  BY <1>6, <1>7

LEMMA WriteStands ==
  ASSUME Types, \A d \in Clients : Standing(d), Write, ~ overran'
  PROVE  \A d \in Clients : Standing(d)'
<1>0. PICK c \in Clients : c = served
  BY DEF Types, LoopTypes, Write
<1>1. /\ stage = "write" /\ stage' = "idle" /\ client[c] # "gone"
      /\ stream' = [stream EXCEPT ![c] = @ \o Units(reply)]
      /\ paused' = paused /\ table' = table /\ served' = served
      /\ request' = request /\ runs' = runs /\ UNCHANGED clients
      /\ ~ TooLong
  BY <1>0 DEF Write, state
<1>2. c \in Clients /\ reply \in AnswerSet
  BY <1>1 DEF Types, LoopTypes
<1>3. ASSUME NEW d \in Clients, d # c
      PROVE  Standing(d)'
  <2>1. stream'[d] = stream[d]
    BY <1>1, <1>3 DEF Types, SocketTypes
  <2>2. UNCHANGED Mine(d)
    BY <1>1, <2>1 DEF Mine, clients
  <2>3. QED
    BY <1>0, <1>1, <1>3, <2>2, NotServed
<1>4. Standing(c)'
  <2>1. client[c] = "waiting" /\ id[c] > 0 /\ Answering(c)
    <3>1. client[c] \in {"new", "prompt", "waiting"}
      BY <1>1, <1>2 DEF Types, ClientTypes
    <3>2. Busy(c) /\ ~ InRunning(c)
      BY <1>0, <1>1 DEF Busy, InRunning
    <3>3. client[c] \notin {"new", "prompt"}
      BY <1>2, <3>2 DEF Standing, AtRest
    <3>4. QED
      BY <1>1, <1>2, <3>1, <3>2, <3>3 DEF Standing, Asked, InRun, Sent
  <2>2. /\ client'[c] = "waiting" /\ id'[c] > 0 /\ request'[c] = <<>> /\ runs'[c] = id'[c]
    BY <1>1, <2>1 DEF Answering, Empty, clients
  <2>3. stream'[c] = Units(reply)
    <3>1. stream[c] = <<>> /\ Units(reply) \in Seq(Parts)
      BY <1>2, <2>1, UnitsProperties DEF Answering, Empty
    <3>2. stream'[c] = <<>> \o Units(reply)
      BY <1>1, <1>2, <3>1 DEF Types, SocketTypes
    <3>3. QED
      BY <3>1, <3>2, ConcatEmptySeq
  <2>4. reply.body_len <= BodySize
    <3>1. reply.body_len \in Nat /\ BodySize \in Nat
      BY <1>2, UnitsProperties, SizeAssumption DEF BodySize
    <3>2. QED
      BY <1>1, <3>1 DEF TooLong
  <2>5. PICK a \in AnswerSet : a = reply
    BY <1>2
  <2>6. Matches(a, c)'
    <3>1. Matches(a, c)
      BY <2>1, <2>5 DEF Answering
    <3>2. typed' = typed /\ id' = id
      BY <1>1 DEF clients
    <3>3. QED
      BY <1>1, <3>1, <3>2 DEF Matches, Holds, Built
  <2>7. stream'[c] = Units(a) /\ a.body_len <= BodySize
    BY <2>3, <2>4, <2>5
  <2>8. Sent(c)'
    BY <1>0, <1>1, <2>2, <2>6, <2>7 DEF Sent
  <2>9. QED
    BY <2>2, <2>8 DEF Standing
<1>5. QED
  BY <1>3, <1>4

-----------------------------------------------------------------------------
LEMMA InStepInit == Init => InStep
<1> SUFFICES ASSUME Init, NEW c \in Clients
             PROVE  Standing(c)
  BY DEF InStep
<1>1. client[c] = "new" /\ id[c] = 0
  BY DEF Init
<1>2. AtRest(c)
  BY DEF Init, AtRest, Empty, Busy
<1>3. QED
  BY <1>1, <1>2 DEF Standing

LEMMA InStepStep == Types /\ InStep /\ [Next]_vars => InStep'
<1> SUFFICES ASSUME Types, InStep, [Next]_vars, up', ~ overran'
             PROVE  \A c \in Clients : Standing(c)'
  BY DEF InStep
<1>1. CASE Accept
  <2>1. up /\ ~ overran
    BY <1>1 DEF Accept, history
  <2>2. QED
    BY <1>1, <2>1, AcceptStands DEF InStep
<1>2. CASE Hangup
  <2>1. up /\ ~ overran
    BY <1>2 DEF Hangup, Reading, history
  <2>2. QED
    BY <1>2, <2>1, HangupStands DEF InStep
<1>3. CASE ReadRequest
  <2>1. up /\ ~ overran
    BY <1>3 DEF ReadRequest, Reading, history
  <2>2. QED
    BY <1>3, <2>1, ReadRequestStands DEF InStep
<1>4. CASE Run
  <2>1. up
    BY <1>4 DEF Run, RunStart, RunStop, RunList, RunAdd, RunAddUnset, RunStats, RunUnknown, Running
  <2>2. ~ overran
    <3>1. ~ ServerDies
      BY DEF ServerDies
    <3>2. Answered
      BY <1>4, <3>1, RunTypes
    <3>3. overran' = overran
      BY <3>2 DEF Answered, Answers
    <3>4. QED
      BY <3>3
  <2>3. QED
    BY <1>4, <2>1, <2>2, RunStands DEF InStep
<1>5. CASE Write
  <2>1. up /\ ~ overran
    BY <1>5 DEF Write
  <2>2. QED
    BY <1>5, <2>1, WriteStands DEF InStep
<1>6. CASE Overrun \/ WriteToNobody
  BY <1>6 DEF Overrun, WriteToNobody, ServerDies
<1>7. ASSUME NEW c \in Clients, ClientStep(c)
      PROVE  \A d \in Clients : Standing(d)'
  <2>1. up' = up /\ overran' = overran
    BY <1>7, ClientKeeps
  <2>2. up /\ ~ overran
    BY <2>1
  <2>3. QED
    BY <1>7, <2>2, ClientStands DEF InStep
<1>8. CASE UNCHANGED vars
  <2>1. /\ up' = up /\ overran' = overran
        /\ UNCHANGED <<served, stage, body, args, fresh, reply, paused, table>>
        /\ \A c \in Clients : UNCHANGED Mine(c)
    BY <1>8 DEF vars, state, loop, clients, sockets, history, Mine
  <2>2. \A c \in Clients : Standing(c)
    BY <2>1 DEF InStep
  <2>3. QED
    BY <2>1, <2>2, Elsewhere
<1>9. QED
  BY <1>1, <1>2, <1>3, <1>4, <1>5, <1>6, <1>7, <1>8 DEF Next, ServerStep

LEMMA Invariant == Spec => []IInv
<1>1. Init => IInv
  BY TypesInit, InStepInit DEF IInv
<1>2. IInv /\ [Next]_vars => IInv'
  BY TypesStep, InStepStep DEF IInv
<1>3. QED
  BY <1>1, <1>2, PTL DEF Spec

-----------------------------------------------------------------------------
(* What follows.                                                           *)

\* While no answer was cut off, a client at its prompt has been shown the
\* answer to what it typed last, which was run once, and nothing of it is left
\* in a socket (server_loop.c:36-51, client_loop.c:81-91).
THEOREM AnswersAreInStep == Spec => []AnswerInStep
<1>1. IInv => AnswerInStep
  <2> SUFFICES ASSUME IInv, NEW c \in Clients, up, ~ overran, client[c] = "prompt", id[c] > 0
               PROVE  /\ shown[c] # Unset
                      /\ shown[c].id = id[c]
                      /\ LET cmd == build_cmd_from_str(typed[c])
                         IN  cmd # None => shown[c].code = cmd.code
                      /\ runs[c] = id[c]
                      /\ request[c] = <<>> /\ stream[c] = <<>>
    BY DEF AnswerInStep
  <2>1. Standing(c)
    BY DEF IInv, InStep
  <2>2. AtRest(c) /\ shown[c] # Unset /\ Matches(shown[c], c)
    BY <2>1 DEF Standing
  <2>3. QED
    BY <2>2 DEF AtRest, Empty, Matches, Built
<1>2. QED
  BY <1>1, Invariant, PTL

LEMMA ToldMatches ==
  ASSUME IInv, NEW c \in Clients, Told(c)
  PROVE  Holds(shown[c], c) /\ shown[c] \in AnswerSet
<1>1. Standing(c)
  BY DEF IInv, InStep, Told
<1>2. shown[c] # Unset /\ Matches(shown[c], c)
  BY <1>1 DEF Standing, Told
<1>3. QED
  BY <1>2 DEF Matches, Told, IInv, Types, ClientTypes

\* What a client has been told is so for as long as it is at its prompt, since
\* the server serves no other client meanwhile (server_loop.c:30-60).
THEOREM AnswersHold == Spec => []AnswerHolds
<1>1. IInv => AnswerHolds
  BY ToldMatches DEF AnswerHolds, Holds, Built
<1>2. QED
  BY <1>1, Invariant, PTL

\* The statistics on the screen are the first rows of the table, for any table
\* and any size of the buffer (cmd_handler.c:9-51, session.c:6-48).
THEOREM StatisticsAreRows == Spec => []StatsAreRows
<1>1. IInv => StatsAreRows
  <2> SUFFICES ASSUME IInv, NEW c \in Clients, Told(c), shown[c].code = "stats"
               PROVE  IsPrefix(deserialize_sessions(Entries(shown[c].rows)), table)
    BY DEF StatsAreRows
  <2>1. Holds(shown[c], c) /\ shown[c] \in AnswerSet
    BY ToldMatches
  <2>2. shown[c].rows \in Seq(Hosts)
    BY <2>1 DEF AnswerSet
  <2>3. deserialize_sessions(Entries(shown[c].rows)) = shown[c].rows
    BY <2>2, StatisticsRoundTrip
  <2>4. QED
    BY <2>1, <2>3 DEF Holds
<1>2. QED
  BY <1>1, Invariant, PTL

LEMMA PrefixTwo ==
  ASSUME NEW S, NEW s \in Seq(S), Len(s) >= 2, NEW a \in S, NEW b \in S, s[1] = a, s[2] = b
  PROVE  IsPrefix(<<a, b>>, s)
<1> DEFINE t == <<a, b>>
           u == SubSeq(s, 1, 2)
<1>1. t \in Seq(S) /\ Len(t) = 2 /\ t[1] = a /\ t[2] = b
  OBVIOUS
<1>2. u \in Seq(S) /\ Len(u) = 2 /\ \A i \in 1..2 : u[i] = s[i]
  <2>1. \A i \in 1..2 : s[i] \in S
    OBVIOUS
  <2>2. u \in Seq(S) /\ Len(u) = 2 /\ \A i \in 1..2 : u[i] = s[1 + i - 1]
    BY <2>1, SubSeqProperties
  <2>3. QED
    BY <2>2
<1> HIDE DEF t, u
<1>3. u = t
  <2>1. \A i \in 1..2 : u[i] = t[i]
    BY <1>1, <1>2
  <2>2. QED
    BY <1>1, <1>2, <2>1, SeqEqual
<1>4. SubSeq(t, 1, 2) = t
  BY <1>1, SubSeqFull
<1>5. IsPrefix(t, s)
  BY <1>1, <1>3, <1>4 DEF IsPrefix, u
<1>6. QED
  BY <1>5 DEF t

LEMMA PrefixOne ==
  ASSUME NEW S, NEW s \in Seq(S), Len(s) >= 1, NEW a \in S, s[1] = a
  PROVE  IsPrefix(<<a>>, s)
<1> DEFINE t == <<a>>
           u == SubSeq(s, 1, 1)
<1>1. t \in Seq(S) /\ Len(t) = 1 /\ t[1] = a
  OBVIOUS
<1>2. u \in Seq(S) /\ Len(u) = 1 /\ u[1] = s[1]
  <2>1. \A i \in 1..1 : s[i] \in S
    OBVIOUS
  <2>2. u \in Seq(S) /\ Len(u) = 1 /\ \A i \in 1..1 : u[i] = s[1 + i - 1]
    BY <2>1, SubSeqProperties
  <2>3. QED
    BY <2>2
<1> HIDE DEF t, u
<1>3. u = t
  <2>1. \A i \in 1..1 : u[i] = t[i]
    BY <1>1, <1>2
  <2>2. QED
    BY <1>1, <1>2, <2>1, SeqEqual
<1>4. SubSeq(t, 1, 1) = t
  BY <1>1, SubSeqFull
<1>5. IsPrefix(t, s)
  BY <1>1, <1>3, <1>4 DEF IsPrefix, u
<1>6. QED
  BY <1>5 DEF t

LEMMA WordsOfIsKept ==
  ASSUME NEW line \in Text
  PROVE  WordsOf(line) = Kept(line)
<1>1. DOMAIN line = 1..Len(line)
  BY LenProperties DEF Text
<1>2. Marks(line) = [i \in DOMAIN line |-> IF line[i] = Space THEN <<>> ELSE <<line[i]>>]
  BY <1>1 DEF Marks, Mark
<1>3. QED
  BY <1>2 DEF WordsOf, Kept

\* The command of a line, in the pieces of the line.
LEMMA CommandInLine ==
  ASSUME NEW line \in Text, Separated(line), build_cmd_from_str(line) # None
  PROVE  LET cmd == build_cmd_from_str(line)
             words == WordsOf(line)
         IN  /\ IsPrefix(VerbsOf(cmd.code), words)
             /\ cmd.code = "add" =>
                  /\ cmd.args # <<>>
                  /\ [i \in 1..(Len(words) - 2) |-> <<words[i + 2]>>] = extract_words(cmd.args)
<1> DEFINE cmd == build_cmd_from_str(line)
           words == WordsOf(line)
           W == extract_words(line)
           m == Len(words)
<1>1. words \in Seq(Piece) /\ m \in Nat
  BY WordsOfIsKept, KeptType, LenProperties
<1>2. Len(W) = m /\ \A i \in 1..m : W[i] = <<words[i]>>
  BY WordsOfIsKept, WordsAsTyped
<1>3. IsCommand(W, cmd) /\ cmd # None
  BY BuildIsCommand
<1>4. cmd.code = "add" =>
        \E list \in Seq(Word) \ {<<>>} :
          /\ cmd.args = string_list_to_string(list) /\ cmd.args # <<>>
          /\ Len(list) = Len(W) - 2 /\ Len(W) > 2
          /\ \A i \in 1..Len(list) : list[i] = W[i + 2]
  BY BuildType
<1>5. {"hostname", "add", "list", "server", "start", "stop", "stats"} \subseteq Piece
  BY DEF Piece, Verbs
<1> HIDE DEF cmd, words, W, m
<1>6. \A a : W[1] = <<a>> /\ m >= 1 => words[1] = a
  <2>1. m >= 1 => 1 \in 1..m
    BY <1>1
  <2>2. QED
    BY <1>2, <2>1
<1>7. \A b : W[2] = <<b>> /\ m >= 2 => words[2] = b
  <2>1. m >= 2 => 2 \in 1..m
    BY <1>1
  <2>2. QED
    BY <1>2, <2>1
<1>8. IsPrefix(VerbsOf(cmd.code), words)
  <2>1. ASSUME NEW a \in Piece, NEW b \in Piece, m >= 2, W[1] = <<a>>, W[2] = <<b>>
        PROVE  IsPrefix(<<a, b>>, words)
    <3>1. words[1] = a /\ words[2] = b /\ m >= 1
      BY <1>1, <1>6, <1>7, <2>1
    <3>2. QED
      BY <1>1, <2>1, <3>1, PrefixTwo DEF m
  <2>2. CASE cmd.code = "add"
    <3>1. m >= 2 /\ W[1] = <<"hostname">> /\ W[2] = <<"add">>
      BY <1>1, <1>2, <1>3, <2>2 DEF IsCommand, Command
    <3>2. IsPrefix(<<"hostname", "add">>, words)
      BY <1>5, <2>1, <3>1
    <3>3. QED
      BY <2>2, <3>2 DEF VerbsOf
  <2>3. CASE cmd.code = "list"
    <3>1. m >= 2 /\ W[1] = <<"hostname">> /\ W[2] = <<"list">>
      BY <1>1, <1>2, <1>3, <2>3 DEF IsCommand, Command
    <3>2. IsPrefix(<<"hostname", "list">>, words)
      BY <1>5, <2>1, <3>1
    <3>3. QED
      BY <2>3, <3>2 DEF VerbsOf
  <2>4. CASE cmd.code = "start"
    <3>1. m >= 2 /\ W[1] = <<"server">> /\ W[2] = <<"start">>
      BY <1>1, <1>2, <1>3, <2>4 DEF IsCommand, Command
    <3>2. IsPrefix(<<"server", "start">>, words)
      BY <1>5, <2>1, <3>1
    <3>3. QED
      BY <2>4, <3>2 DEF VerbsOf
  <2>5. CASE cmd.code = "stop"
    <3>1. m >= 2 /\ W[1] = <<"server">> /\ W[2] = <<"stop">>
      BY <1>1, <1>2, <1>3, <2>5 DEF IsCommand, Command
    <3>2. IsPrefix(<<"server", "stop">>, words)
      BY <1>5, <2>1, <3>1
    <3>3. QED
      BY <2>5, <3>2 DEF VerbsOf
  <2>6. CASE cmd.code = "stats"
    <3>1. m >= 1 /\ W[1] = <<"stats">>
      BY <1>1, <1>2, <1>3, <2>6 DEF IsCommand, Command
    <3>2. words[1] = "stats" /\ "stats" \in Piece
      BY <1>5, <1>6, <3>1
    <3>3. IsPrefix(<<"stats">>, words)
      BY <1>1, <3>1, <3>2, PrefixOne DEF m
    <3>4. QED
      BY <2>6, <3>3 DEF VerbsOf
  <2>7. cmd.code \in {"add", "list", "start", "stop", "stats"}
    BY <1>3 DEF IsCommand, Command
  <2>8. QED
    BY <2>2, <2>3, <2>4, <2>5, <2>6, <2>7
<1>9. ASSUME cmd.code = "add"
      PROVE  /\ cmd.args # <<>>
             /\ [i \in 1..(m - 2) |-> <<words[i + 2]>>] = extract_words(cmd.args)
  <2>1. PICK list \in Seq(Word) \ {<<>>} :
          /\ cmd.args = string_list_to_string(list) /\ cmd.args # <<>>
          /\ Len(list) = m - 2 /\ m > 2
          /\ \A i \in 1..Len(list) : list[i] = W[i + 2]
    BY <1>2, <1>4, <1>9
  <2>2. extract_words(cmd.args) = list
    BY <2>1, SplitUndoesJoin
  <2>3. list = [i \in 1..(m - 2) |-> list[i]]
    <3>1. list \in [1..Len(list) -> Word]
      BY LenProperties
    <3>2. QED
      BY <2>1, <3>1
  <2>4. ASSUME NEW i \in 1..(m - 2)
        PROVE  list[i] = <<words[i + 2]>>
    <3>1. i + 2 \in 1..m
      BY <1>1
    <3>2. QED
      BY <1>2, <2>1, <3>1
  <2>5. [i \in 1..(m - 2) |-> <<words[i + 2]>>] = [i \in 1..(m - 2) |-> list[i]]
    BY <2>4
  <2>6. QED
    BY <2>1, <2>2, <2>3, <2>5
<1>10. QED
  BY <1>8, <1>9 DEF cmd, words, m

\* The server runs what was typed, word for word, for any line
\* (cmd_builder.c:45-110, cmd_serializer.c:8-50, cmd_handler.c:53-75).
THEOREM CommandsRunAsTyped == Spec => []RunAsTyped
<1>1. IInv => RunAsTyped
  <2> SUFFICES ASSUME IInv, up, ~ overran, stage = "run", fresh
               PROVE  LET words == WordsOf(typed[served]) IN
                        /\ IsPrefix(VerbsOf(body), words)
                        /\ body = "add" => [i \in 1..(Len(words) - 2) |-> <<words[i + 2]>>]
                                             = extract_words(args)
    BY DEF RunAsTyped
  <2>1. PICK c \in Clients : c = served
    BY DEF IInv, Types, LoopTypes
  <2>2. Standing(c) /\ InRunning(c) /\ Busy(c)
    BY <2>1 DEF IInv, InStep, InRunning, Busy
  <2>3. Ours(c)
    <3>1. client[c] \in {"new", "prompt", "waiting", "gone"}
      BY DEF IInv, Types, ClientTypes
    <3>2. client[c] \notin {"new", "prompt"}
      BY <2>2 DEF Standing, AtRest
    <3>3. client[c] = "waiting" => InRun(c)
      BY <2>2 DEF Standing, Asked, Answering, Sent, InRunning
    <3>4. QED
      BY <2>2, <3>1, <3>2, <3>3 DEF Standing, InRun
  <2> DEFINE line == typed[c]
             cmd == build_cmd_from_str(line)
  <2>4. line \in Text /\ Separated(line)
    <3>1. line \in Lines \cup {<<>>}
      BY DEF IInv, Types, ClientTypes
    <3>2. <<>> \in Text /\ Separated(<<>>)
      BY EmptySeq DEF Text, Separated
    <3>3. \A l \in Lines : l \in Text /\ Separated(l)
      BY BoundsAssumption, LinesAssumption DEF Separated
    <3>4. QED
      BY <3>1, <3>2, <3>3
  <2>5. /\ cmd # None /\ body = cmd.code
        /\ cmd.args # <<>> => args = cmd.args
    BY <2>3 DEF Ours, Built
  <2> HIDE DEF line, cmd
  <2>6. LET words == WordsOf(line)
        IN  /\ IsPrefix(VerbsOf(cmd.code), words)
            /\ cmd.code = "add" =>
                 /\ cmd.args # <<>>
                 /\ [i \in 1..(Len(words) - 2) |-> <<words[i + 2]>>] = extract_words(cmd.args)
    BY <2>4, <2>5, CommandInLine DEF cmd
  <2>7. QED
    BY <2>1, <2>5, <2>6 DEF line
<1>2. QED
  BY <1>1, Invariant, PTL
=============================================================================
