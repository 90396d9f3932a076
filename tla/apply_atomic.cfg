SPECIFICATION Spec
CONSTANTS
  c1 = c1
  c2 = c2
  pa = pa
  pb = pb
  pc = pc
  loose = loose
  Edited = Edited
  Broken = Broken
  Torn = Torn
  Files <- MCFiles
  Pkgs = {pa, pb, pc}
  PkgOf <- MCPkgOf
  Comps = {c1}
  NoComp = loose
  NWork = 6
  Desc <- MCDesc
  OneCommit = {}
  MaxEdits = 1
  MaxFailures = 1
  MaxRestoreFailures = 0
  MaxCrashes = 0
  QuietRuns = TRUE
PROPERTY AtomicSpec
CHECK_DEADLOCK FALSE
