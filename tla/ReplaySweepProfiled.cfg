\* A sweep with --io-profile.
CONSTANTS
  Cases <- TheCases
  r1 = r1
  r2 = r2
  d1 = d1
  d2 = d2
  Roots = {r1, r2}
  Dirs = {d1, d2}
  Calls <- ProfiledCall
  Matrices <- OneMatrix
  Defaults <- TheDefaults
  None = None
  MaxSweeps = 1
  MaxFailures = 0
SPECIFICATION MatrixSpec
CHECK_DEADLOCK FALSE
INVARIANTS
  ProfiledIsAll
