SPECIFICATION Spec
CONSTANTS
  NProcesses = 3
  Programs = {p1, p2}
  p1 = p1
  p2 = p2
SYMMETRY Symmetry
INVARIANTS
  TypeOK
  ReportsOwnProgram
  OnlyCompanyDisturbs
  EarlierIsConsumed
