CONSTANTS
  Clients = {c1, c2}
  Nobody = Nobody
  h1 = h1
  h2 = h2
  h3 = h3
  Hosts <- MCHosts
  Unset = Unset
  Space = Space
  NameSize <- MCNameSize
  Room = 7
  Lines <- MCLines
  MaxWords = 2
  Junk = {0, 7}
  Backlog = 1
  MaxRequests = 2
SPECIFICATION FairSpec
CHECK_DEADLOCK FALSE
INVARIANTS TypeOK AnswerInStep AnswerHolds StatsAreRows RunAsTyped
PROPERTIES WaitsEnd
