SPECIFICATION CommandsSpec
CONSTANTS
  Users <- MCUsers
  Workspaces <- MCWorkspaces
  MaxGens = 1
  MaxInvites = 0
  AskRoles <- MCAskRoles
  CreationPolicy = "admins_only"
  Roster <- MCStaffed
  Processes = {p1, p2, p3}
  Requests <- MCRequests
  MaxCommands = 3
SYMMETRY Servers
INVARIANTS
  NoLockCycle
PROPERTIES
  ImplementsGovernance
