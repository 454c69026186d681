SPECIFICATION MCSpec
CONSTANTS
  c1 = c1
  c2 = c2
  s1 = s1
  s2 = s2
  m1 = m1
  m2 = m2
  Clients = {c1, c2}
  MaxVersion = 3
  MaxDocs = 2
  MaxToken = 3
  MaxFaults = 1
  Processes = {s1, s2}
  Budget = 3
  Tagged <- TwoItems
  TagNames <- Names
  Born <- TwoTags
  Requests <- MCRequests
  Users <- TwoUsers
  Messages = {m1, m2}
  Topic <- Topics
  Demands <- MCDemands
  MaxDemands = 2
  MaxMoves = 2
CHECK_DEADLOCK FALSE
INVARIANTS ProjectionsAgree
PROPERTIES OwnKeyStays RecommendationSettles MergeLosesNothing SpokenWithAuthority
