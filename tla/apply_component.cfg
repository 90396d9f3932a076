SPECIFICATION Spec
CONSTANTS
  c1 = c1
  c2 = c2
  pa = pa
  pb = pb
  pc = pc
  loose = loose
  Edited = Edited
  Broken = Broken
  Torn = Torn
  Files <- MCFiles
  Pkgs = {pa, pb, pc}
  PkgOf <- MCPkgOf
  Comps = {c1, c2}
  NoComp = loose
  NWork = 5
  Desc <- MCDesc2
  OneCommit = {c2}
  MaxEdits = 0
  MaxFailures = 0
  MaxRestoreFailures = 0
  MaxCrashes = 0
  QuietRuns = FALSE
INVARIANT ComponentRunNotRefused
CHECK_DEADLOCK FALSE
