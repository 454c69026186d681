SPECIFICATION MCSpec
CONSTANTS
  a = a
  prepares = prepares
  cleans = cleans
  x1 = x1
  x2 = x2
  o1 = o1
  o2 = o2
  Objects = {o1, o2}
  PageSize = 2
  ScanSize = 2
  MaxOld = 3
  MaxChanges = 2
  NoFlow = NoFlow
  Flows = {prepares, cleans}
  ChildOf <- Family
  BatchSize = 1
  Scanners = {x1, x2}
  MaxScans = 3
  MaxPaths = 3
  MaxFaults = 3
  MaxGens = 2
CHECK_DEADLOCK FALSE
INVARIANTS WorkDoneOnce BackupsHold ListingsHold
PROPERTIES EverythingSettles MaintenanceStands
