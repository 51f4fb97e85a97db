\* Three managers on four blocks: some are left without a mutex, and on Windows
\* a block serves again.
SPECIFICATION MutexSpec
CONSTANTS
  Managers = {m1, m2, m3}
  Threads = {t1, t2, t3}
  Blocks = {b1, b2, b3, b4}
  NULL = NULL
  None = None
  Platforms = {"pthread", "windows"}
SYMMETRY Symmetry
\* A null mutex ends the process, and managers run out.
CHECK_DEADLOCK FALSE
INVARIANTS
  MutexTypeOK
  UsedWhileReady
  NullStopsProcessing
  HeapAccounted
PROPERTY DestroyedUnlocked
