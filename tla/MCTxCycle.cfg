SPECIFICATION CreationSpec
CONSTANTS
  Users <- MCUsers
  Workspaces <- TwoWorkspaces
  MaxGens = 1
  MaxInvites = 1
  AskRoles <- MCAskRoles
  CreationPolicy = "admins_only"
  Roster <- MCVacant
  Processes = {p1, p2}
  Requests <- MCRequests
  MaxCommands = 2
INVARIANTS
  NoLockCycle
