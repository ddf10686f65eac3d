\* Two overlapping jobs, sync, pull or import, and two acts of administrators, logins, errors or crashes.
SPECIFICATION MCSpec
CONSTANTS
  e1 = e1  e2 = e2  u1 = u1  u2 = u2  u3 = u3  u4 = u4  j1 = j1  j2 = j2
  MaxJobs = 2
  MaxActs = 2
  Ext = {e1, e2}
  Users = {u1, u2, u3, u4}
  Jobs = {j1, j2}
  Bases = {"bob"}
  MaxSuffix = 5
  SourceOf <- TwoSources
  BaseOf <- OneBase
  EmailOf <- OneEmail
  Snapshots <- ManySnapshots
  Typed <- Bob
  Placed = {e1}
  MappingMode = FALSE
  HasMount = TRUE
  DeactivateMissing = TRUE
  AdminOps = {"touch"}
  None = none
INVARIANTS
  TypeOK
  
PROPERTIES
  StableIdentity
  
SYMMETRY Symmetry
