SPECIFICATION Spec
CONSTANTS
  Threads = {t1, t2, t3}
  LastSecond = 2
INVARIANTS
  TypeOK
  SecondKeepsOne
