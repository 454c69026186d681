SPECIFICATION MCSpec
CONSTANTS
  u1 = u1
  u2 = u2
  reader = reader
  ExpiresAt = 4
  Lifetime = 2
  Selections = {{}, {u1}}
  MaxClock = 5
  a1 = a1
  a2 = a2
  e1 = e1
  copier = copier
  s1 = s1
  s2 = s2
  m1 = m1
  r1 = r1
  r2 = r2
  MaxVersion = 3
  Authors = {s1, s2}
  Moderators = {m1}
  Repliers = {r1, r2}
  Uploads = {u1, u2}
  Attachments = {a1, a2}
  Abstracts = {a1, a2}
  Exports = {e1}
  MaxRetries = 1
  MaxFaults = 2
CHECK_DEADLOCK FALSE
INVARIANTS NamedIsStored OutcomeIsOwners OneAbstract DownloadsHold
PROPERTIES AnnotationsStand CopyIsCurrent OrphansGo
