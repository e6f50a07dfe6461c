\* A reader and a writer.
CONSTANTS
  Thread = {t1, t2}
  NoThread = NoThread
SPECIFICATION FairSpec
PROPERTY WrLockReturns
CHECK_DEADLOCK FALSE
