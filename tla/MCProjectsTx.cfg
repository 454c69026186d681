SPECIFICATION MCSpec
CONSTANTS
  Users <- MCUsers
  ProjectIds = {1, 2}
  Items <- MCItems
  MaxGens = 2
  AskRoles = {"viewer", "editor"}
  Roster <- MCRoster
  Openings <- OneProject
  Processes = {s1, s2}
  Requests <- MCRequests
  LinkRank <- NewestFirst
  Budget = 4
INVARIANTS SeatsSound NoLockCycle
SYMMETRY Servers
PROPERTIES ImplementsProjects SeatingStands
