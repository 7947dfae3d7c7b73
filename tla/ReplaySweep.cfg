\* Three sweeps over two cases, with two L2 roots and two output roots.
CONSTANTS
  Cases <- TheCases
  r1 = r1
  r2 = r2
  d1 = d1
  d2 = d2
  Roots = {r1, r2}
  Dirs = {d1, d2}
  Calls <- ManyCalls
  Matrices <- TwoMatrices
  Defaults <- TheDefaults
  None = None
  MaxSweeps = 3
  MaxFailures = 2
SPECIFICATION MatrixSpec
CHECK_DEADLOCK FALSE
INVARIANTS
  ExitCodesInv
  ColdStart
  EarlierKept
  CsvIsSuccessful
