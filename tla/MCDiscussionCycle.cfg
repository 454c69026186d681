SPECIFICATION Spec
CONSTANTS
  Users <- MCUsers
  Processes = {s1, s2}
  m1 = m1
  Messages = {m1}
  Topic <- MCTopic
  Demands <- MCDemands
  MaxDemands = 2
  MaxMoves = 1
INVARIANTS NoLockCycle
