SPECIFICATION MCSpec
CONSTANTS
  admin = admin
  member = member
  web = web
  c1 = c1
  c2 = c2
  old = old
  new = new
  Users = {admin, member}
  Administrators = {admin}
  Subjects = {member}
  Clients = {c1, c2}
  Addresses = {web}
  Passwords = {old, new}
  FirstHash <- FirstHashes
  Limit = 1
  MaxAsked = 1
  Policy = "open"
  MaxInvitations = 2
INVARIANTS SessionsSound InvitationsStand
PROPERTIES CredentialsStand EveryLoginEnds
