SPECIFICATION Spec
CONSTANTS
  Threads = {t1}
  LastSecond = 1
INVARIANT DumpGenerated
