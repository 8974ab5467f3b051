CONSTANTS
  h1 = h1
  h2 = h2
  a1 = a1
  a2 = a2
  a3 = a3
  Hosts <- MCHosts
  Addrs <- MCAddrs
  NoHost = NoHost
  All = All
  Answers <- MCAnswers
  Requests <- MCRequests
SPECIFICATION Spec
INVARIANT OnlyKnownPackets
