SPECIFICATION Spec
CONSTANTS
  s1 = s1
  s2 = s2
  Items <- TwoItems
  TagIds <- Names
  Born <- TwoTags
  Processes = {s1, s2}
  Requests <- MCRequests
  Budget = 2
SYMMETRY Servers
INVARIANTS NoLockCycle
