SPECIFICATION Spec
CONSTANTS
  c1 = c1
  c2 = c2
  pa = pa
  pb = pb
  pc = pc
  loose = loose
  Edited = Edited
  Broken = Broken
  Torn = Torn
  Files <- MCFiles
  Pkgs = {pa, pb, pc}
  PkgOf <- MCPkgOf
  Comps = {c1}
  NoComp = loose
  NWork = 6
  Desc <- MCDesc
  OneCommit = {}
  MaxEdits = 1
  MaxFailures = 1
  MaxRestoreFailures = 1
  MaxCrashes = 1
  QuietRuns = FALSE
INVARIANTS
  TypeOK
  AllOrNothing
  KilledLeavesWholeFiles
  SuccessKeepsBuilding
  PlainRunNotRefused
PROPERTY LicensedWrites
CHECK_DEADLOCK FALSE
