SPECIFICATION Spec
CONSTANTS
  Task = {t1, t2, t3}
  Mutex = {m1, m2, m3, m4}
  NoMutex = NoMutex
INVARIANT OneLockPerRun
PROPERTY ImplementsMutex
