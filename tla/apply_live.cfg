SPECIFICATION FairSpec
CONSTANTS
  c1 = c1
  c2 = c2
  pa = pa
  pb = pb
  pc = pc
  loose = loose
  Edited = Edited
  Broken = Broken
  Torn = Torn
  Files <- MCFiles
  Pkgs = {pa, pb, pc}
  PkgOf <- MCPkgOf
  Comps = {c1, c2}
  NoComp = loose
  NWork = 5
  Desc <- MCDesc2
  OneCommit = {c2}
  MaxEdits = 0
  MaxFailures = 1
  MaxRestoreFailures = 0
  MaxCrashes = 1
  QuietRuns = FALSE
PROPERTY EventuallyMigrated
CHECK_DEADLOCK FALSE
