SPECIFICATION AdmissionSpec
CONSTANTS
  Users <- MCUsers
  Workspaces <- TwoWorkspaces
  MaxGens = 2
  MaxInvites = 2
  AskRoles <- MCAskRoles
  CreationPolicy = "admins_only"
  Roster <- MCVacant
  Processes = {p1, p2}
  Requests <- MCRequests
  MaxCommands = 3
PROPERTIES
  ImplementsGovernance
  EveryCommandEnds
