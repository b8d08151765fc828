CONSTANTS
  s1 = s1  s2 = s2  d1 = d1  i1 = i1  i2 = i2  i3 = i3
  NoInode = NoInode  NoThread = NoThread
  Sessions = {s1}
  Direct = {d1}
  Overlaps = {TRUE}
  Inodes = {i1, i2, i3}
  Pieces = 2
  MaxCommits = 3
  MaxCrashes = 1
  MaxFailures = 1
  MaxInspections = 1
SPECIFICATION Spec
INVARIANTS
  AuthoritativeWhole
CHECK_DEADLOCK FALSE
