------------------------- MODULE HostRegistryProofs -------------------------
(***************************************************************************)
(* Proofs about HostRegistry, for any hosts, addresses, answers of the     *)
(* resolver and requests.                                                  *)
(***************************************************************************)
EXTENDS HostRegistry, SequenceTheorems, TLAPS

Listed(s) == {s[i] : i \in DOMAIN s}

\* Until init_pcap has run there is no filter, no packet and no request.
BootInv ==
  /\ ~up => main = "boot"
  /\ main \in {"boot", "resolve"} =>
       /\ filter = All /\ buffer = {} /\ queue = {}
       /\ stage = "idle" /\ reply = "none"

\* What the filter lets through leads to a host.
FilterInv ==
  filter # All => filter \subseteq Mapped /\ Mapped # {} /\ buffer \subseteq filter

\* What a request has named is in the table of hosts or still on its list.
RequestInv ==
  /\ stage # "idle" => reply = "none" /\ asked \subseteq rows \cup Listed(todo)
  /\ names \subseteq rows

RInv == TypeOK /\ BootInv /\ FilterInv /\ RequestInv
          /\ KnownUntilUnfiltered /\ AcceptedMeansInStep

-----------------------------------------------------------------------------
LEMMA ListedTail ==
  ASSUME NEW s \in Seq(Hosts), s # <<>>
  PROVE  /\ Head(s) \in Hosts /\ Tail(s) \in Seq(Hosts)
         /\ Listed(s) \subseteq {Head(s)} \cup Listed(Tail(s))
<1>1. Head(s) \in Hosts /\ Tail(s) \in Seq(Hosts)
  BY HeadTailProperties
<1>2. ASSUME NEW i \in DOMAIN s, i # 1
      PROVE  i - 1 \in DOMAIN Tail(s) /\ Tail(s)[i - 1] = s[i]
  <2>1. i \in 1..Len(s) /\ Len(s) \in Nat
    BY LenProperties
  <2>2. i - 1 \in 1..Len(Tail(s)) /\ Len(Tail(s)) = Len(s) - 1
    BY <1>2, <2>1, HeadTailProperties
  <2>3. QED
    BY <2>1, <2>2, <1>1, HeadTailProperties, LenProperties
<1>3. s[1] = Head(s)
  OBVIOUS
<1>4. QED
  BY <1>1, <1>2, <1>3 DEF Listed

LEMMA MapFacts ==
  ASSUME TypeOK, NEW h \in Hosts, NEW answer \in Answers[h]
  PROVE  /\ MapTo(domain, answer, h) \in [Addrs -> Hosts \cup {NoHost}]
         /\ \A a \in Addrs : domain[a] # NoHost => MapTo(domain, answer, h)[a] # NoHost
BY RegistryAssumption DEF TypeOK, MapTo

LEMMA FilterFacts ==
  FilterOf(domain) = IF Mapped = {} THEN All ELSE Mapped
BY DEF FilterOf, Mapped

LEMMA AllIsNoSet == \A f \in SUBSET Addrs : f # All
BY RegistryAssumption

-----------------------------------------------------------------------------
LEMMA InvInit == Init => RInv
<1> SUFFICES ASSUME Init PROVE RInv
  OBVIOUS
<1>1. <<>> \in Seq(Hosts)
  BY EmptySeq
<1>2. QED
  BY <1>1
     DEF Init, Off, RInv, TypeOK, BootInv, FilterInv, RequestInv,
         KnownUntilUnfiltered, AcceptedMeansInStep, Mapped

LEMMA DiesStep ==
  ASSUME RInv, Dies, UNCHANGED rows
  PROVE  RInv'
<1>1. <<>> \in Seq(Hosts)
  BY EmptySeq
<1>2. QED
  BY <1>1
     DEF Dies, RInv, TypeOK, BootInv, FilterInv, RequestInv,
         KnownUntilUnfiltered, AcceptedMeansInStep, Mapped

LEMMA LaunchStep == ASSUME RInv, Launch PROVE RInv'
BY DEF Launch, RInv, TypeOK, BootInv, FilterInv, RequestInv, Running, server,
       KnownUntilUnfiltered, AcceptedMeansInStep, Mapped

LEMMA BootResolvesStep ==
  ASSUME RInv, NEW h \in Hosts, BootResolves(h) PROVE RInv'
<1>1. domain' \in [Addrs -> Hosts \cup {NoHost}] /\ Mapped \subseteq Mapped'
  BY MapFacts DEF BootResolves, RInv, Mapped
<1>2. QED
  BY <1>1
     DEF BootResolves, RInv, TypeOK, BootInv, FilterInv, RequestInv,
         KnownUntilUnfiltered, AcceptedMeansInStep, capture, server

LEMMA BootLookupFailsStep == ASSUME RInv, BootLookupFails PROVE RInv'
BY DEF BootLookupFails, RInv, TypeOK, BootInv, FilterInv, RequestInv, capture,
       server, KnownUntilUnfiltered, AcceptedMeansInStep, Mapped, FilterOf

LEMMA InitPcapStep == ASSUME RInv, InitPcap PROVE RInv'
<1>1. filter' = IF Mapped = {} THEN All ELSE Mapped
  BY FilterFacts DEF InitPcap
<1>2. Mapped' = Mapped /\ Mapped \subseteq Addrs
  BY DEF InitPcap, Mapped
<1>3. QED
  BY <1>1, <1>2
     DEF InitPcap, RInv, TypeOK, BootInv, FilterInv, RequestInv, server,
         KnownUntilUnfiltered, AcceptedMeansInStep

LEMMA MainChecksStep == ASSUME RInv, MainChecks PROVE RInv'
<1>1. capturing' \in BOOLEAN
  BY DEF MainChecks
<1>2. QED
  BY <1>1
     DEF MainChecks, RInv, TypeOK, BootInv, FilterInv, RequestInv, server,
         KnownUntilUnfiltered, AcceptedMeansInStep, Mapped, FilterOf

-----------------------------------------------------------------------------
(* The server thread.                                                      *)

LEMMA BeginAddStep ==
  ASSUME RInv, NEW request \in Requests, BeginAdd(request) PROVE RInv'
<1>1. request \in Seq(Hosts)
  BY RegistryAssumption
<1>2. asked' = Listed(request) /\ asked' \subseteq Hosts
  BY <1>1 DEF BeginAdd, Listed
<1>3. QED
  BY <1>1, <1>2
     DEF BeginAdd, Running, RInv, TypeOK, BootInv, FilterInv, RequestInv, capture,
         KnownUntilUnfiltered, AcceptedMeansInStep, Mapped

LEMMA ReadNamesStep == ASSUME RInv, ReadNames PROVE RInv'
BY DEF ReadNames, RInv, TypeOK, BootInv, FilterInv, RequestInv, capture,
       KnownUntilUnfiltered, AcceptedMeansInStep, Mapped

LEMMA SkipHostStep == ASSUME RInv, SkipHost PROVE RInv'
<1>1. /\ todo \in Seq(Hosts) /\ todo # <<>> /\ Head(todo) \in rows
      /\ todo' = Tail(todo)
  BY DEF SkipHost, AlreadyHere, RInv, TypeOK, RequestInv
<1>2. /\ todo' \in Seq(Hosts)
      /\ Listed(todo) \subseteq {Head(todo)} \cup Listed(todo')
  BY <1>1, ListedTail
<1>3. QED
  BY <1>1, <1>2
     DEF SkipHost, RInv, TypeOK, BootInv, FilterInv, RequestInv, capture,
         KnownUntilUnfiltered, AcceptedMeansInStep, Mapped

LEMMA ResolveHostStep == ASSUME RInv, ResolveHost PROVE RInv'
<1>1. todo \in Seq(Hosts) /\ todo # <<>> /\ Head(todo) \in Hosts
  BY ListedTail DEF ResolveHost, RInv, TypeOK
<1>2. domain' \in [Addrs -> Hosts \cup {NoHost}] /\ Mapped \subseteq Mapped'
  BY <1>1, MapFacts DEF ResolveHost, RInv, Mapped
<1>3. Mapped \subseteq Addrs
  BY DEF Mapped
<1>4. QED
  BY <1>1, <1>2, <1>3
     DEF ResolveHost, RInv, TypeOK, BootInv, FilterInv, RequestInv, capture,
         KnownUntilUnfiltered, AcceptedMeansInStep

LEMMA InsertRowStep == ASSUME RInv, InsertRow PROVE RInv'
<1>1. todo \in Seq(Hosts) /\ todo # <<>> /\ todo' = Tail(todo)
  BY DEF InsertRow, RInv, TypeOK
<1>2. /\ Head(todo) \in Hosts /\ todo' \in Seq(Hosts)
      /\ Listed(todo) \subseteq {Head(todo)} \cup Listed(todo')
  BY <1>1, ListedTail
<1>3. QED
  BY <1>1, <1>2
     DEF InsertRow, RInv, TypeOK, BootInv, FilterInv, RequestInv, capture,
         KnownUntilUnfiltered, AcceptedMeansInStep, Mapped

LEMMA AddFailsStep == ASSUME RInv, AddFails PROVE RInv'
<1>1. <<>> \in Seq(Hosts)
  BY EmptySeq
<1>2. QED
  BY <1>1
     DEF AddFails, Answer, RInv, TypeOK, BootInv, FilterInv, RequestInv, capture,
         KnownUntilUnfiltered, AcceptedMeansInStep, Mapped

LEMMA InstallFilterStep == ASSUME RInv, InstallFilter PROVE RInv'
<1>1. <<>> \in Seq(Hosts) /\ Listed(<<>>) = {}
  BY EmptySeq DEF Listed
<1>2. filter' = (IF Mapped = {} THEN All ELSE Mapped) /\ filter' = FilterOf(domain)'
  BY FilterFacts DEF InstallFilter, FilterOf
<1>3. Mapped' = Mapped /\ Mapped \subseteq Addrs
  BY DEF InstallFilter, Mapped
<1>4. asked' \subseteq rows'
  BY <1>1 DEF InstallFilter, RInv, RequestInv
<1>5. QED
  BY <1>1, <1>2, <1>3, <1>4
     DEF InstallFilter, Answer, RInv, TypeOK, BootInv, FilterInv, RequestInv,
         KnownUntilUnfiltered, AcceptedMeansInStep

LEMMA SwitchStep == ASSUME RInv, StartCapture \/ StopCapture PROVE RInv'
BY DEF StartCapture, StopCapture, RInv, TypeOK, BootInv, FilterInv, RequestInv,
       server, KnownUntilUnfiltered, AcceptedMeansInStep, Mapped, FilterOf

-----------------------------------------------------------------------------
(* Packets.                                                                *)

LEMMA ArriveStep ==
  ASSUME RInv, NEW a \in Addrs, Arrive(a) PROVE RInv'
BY DEF Arrive, Running, Passes, RInv, TypeOK, BootInv, FilterInv, RequestInv,
       server, KnownUntilUnfiltered, AcceptedMeansInStep, Mapped, FilterOf

LEMMA DispatchStep ==
  ASSUME RInv, NEW a \in Addrs, Dispatch(a) PROVE RInv'
<1>1. unfiltered' \in BOOLEAN
  BY DEF Dispatch
<1>2. ~unfiltered' => ~unfiltered /\ filter # All
  BY DEF Dispatch
<1>3. QED
  BY <1>1, <1>2
     DEF Dispatch, RInv, TypeOK, BootInv, FilterInv, RequestInv, server,
         KnownUntilUnfiltered, AcceptedMeansInStep, Mapped, FilterOf

LEMMA HandlePacketStep ==
  ASSUME RInv, NEW a \in Addrs, HandlePacket(a) PROVE RInv'
BY DEF HandlePacket, RInv, TypeOK, BootInv, FilterInv, RequestInv, capture, server,
       KnownUntilUnfiltered, AcceptedMeansInStep, Mapped, FilterOf

-----------------------------------------------------------------------------
LEMMA UnchangedStep == ASSUME RInv, UNCHANGED vars PROVE RInv'
BY DEF vars, capture, server, RInv, TypeOK, BootInv, FilterInv, RequestInv,
       KnownUntilUnfiltered, AcceptedMeansInStep, Mapped, FilterOf

LEMMA InvStep == RInv /\ [Next]_vars => RInv'
<1> SUFFICES ASSUME RInv, [Next]_vars
             PROVE  RInv'
  OBVIOUS
<1>1. CASE Boot
  BY <1>1, BootResolvesStep, BootLookupFailsStep, InitPcapStep, MainChecksStep
     DEF Boot
<1>2. CASE ServerStep
  BY <1>2, BeginAddStep, ReadNamesStep, SkipHostStep, ResolveHostStep,
     InsertRowStep, AddFailsStep, InstallFilterStep, SwitchStep DEF ServerStep
<1>3. ASSUME NEW a \in Addrs, PacketStep(a)
      PROVE  RInv'
  BY <1>3, ArriveStep, DispatchStep, HandlePacketStep, DiesStep
     DEF PacketStep, HandleUnknown
<1>4. CASE Killed
  BY <1>4, DiesStep DEF Killed
<1>5. QED
  BY <1>1, <1>2, <1>3, <1>4, LaunchStep, UnchangedStep DEF Next

\* Every variable keeps to its values.
THEOREM TypeCorrect == Spec => []TypeOK
<1>1. RInv => TypeOK
  BY DEF RInv
<1>2. QED
  BY <1>1, InvInit, InvStep, PTL DEF Spec

\* As long as nothing was captured without a filter, every queued packet
\* leads to a host.
THEOREM QueuedPacketsKnown == Spec => []KnownUntilUnfiltered
<1>1. RInv => KnownUntilUnfiltered
  BY DEF RInv
<1>2. QED
  BY <1>1, InvInit, InvStep, PTL DEF Spec

\* An accepted request has its hosts in the table and the filter in step.
THEOREM AcceptedInStep == Spec => []AcceptedMeansInStep
<1>1. RInv => AcceptedMeansInStep
  BY DEF RInv
<1>2. QED
  BY <1>1, InvInit, InvStep, PTL DEF Spec

-----------------------------------------------------------------------------
LEMMA GrowStep ==
  ASSUME RInv, [Next]_vars
  PROVE  [up /\ up' /\ filter # All => filter' # All /\ filter \subseteq filter']_vars
<1>1. CASE InstallFilter
  <2>1. filter' = IF Mapped = {} THEN All ELSE Mapped
    BY <1>1, FilterFacts DEF InstallFilter
  <2>2. Mapped # All
    BY AllIsNoSet DEF Mapped
  <2>3. QED
    BY <2>1, <2>2 DEF RInv, FilterInv
<1>2. CASE InitPcap
  BY <1>2 DEF InitPcap, RInv, BootInv
<1>3. CASE Killed
  BY <1>3 DEF Killed, Dies
<1>4. ASSUME NEW a \in Addrs, HandleUnknown(a)
      PROVE  ~up'
  BY <1>4 DEF HandleUnknown, Dies
<1>5. CASE UNCHANGED filter
  BY <1>5
<1>6. QED
  BY <1>1, <1>2, <1>3, <1>4, <1>5
     DEF Next, Launch, Boot, BootResolves, BootLookupFails, MainChecks,
         ServerStep, BeginAdd, ReadNames, SkipHost, ResolveHost, InsertRow,
         AddFails, StartCapture, StopCapture, PacketStep, Arrive, Dispatch,
         HandlePacket, capture, vars

\* No request narrows the filter while the process lives.
THEOREM FilterNeverShrinks == Spec => FilterGrows
BY InvInit, InvStep, GrowStep, PTL DEF Spec, FilterGrows
=============================================================================
