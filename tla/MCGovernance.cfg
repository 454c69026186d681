SPECIFICATION MCSpec
CONSTANTS
  Users <- MCUsers
  Workspaces <- MCWorkspaces
  MaxGens = 2
  MaxInvites = 2
  AskRoles <- MCAskRoles
  CreationPolicy = "members_allowed"
  Roster <- MCEmpty
  Rooms = {1}
  Shelf = {1}
  Engaged <- MCEngaged
  Openings <- AnyMode
INVARIANTS OneOwner MembershipsSound AdministratorRemains GrantsSound PagesHold
PROPERTIES ChangesStand
