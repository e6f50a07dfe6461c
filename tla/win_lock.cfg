\* Four threads that lock and try to lock, for reading and for writing.
CONSTANTS
  Thread = {t1, t2, t3, t4}
  NoThread = NoThread
SPECIFICATION Spec
INVARIANTS UnlockKnows SemaphoreInStep
PROPERTY ImplementsLock
\* A writer that meets a reader waits for ever: see win_writer.cfg.
CHECK_DEADLOCK FALSE
