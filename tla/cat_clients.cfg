\* One thread adds and deletes, one enumerates, one adds and looks up.
CONSTANTS
  t1 = t1
  t2 = t2
  Thread = {t1, t2, t3}
  Category = {c1}
  Name = {n1}
  Value = {v1, v2}
  Empty = Empty
  NoLeaf = NoLeaf
  Torn = Torn
  Idle = Idle
  Node = {d1}
  NoNode = NoNode
  NoThread = NoThread
  NotFound = NotFound
  Manager = Manager
  MayCall <- Clients
  WhileEnumerating = {}
  DeletersWait = TRUE
SPECIFICATION FairSpec
INVARIANT TypeOK
PROPERTIES Linearizable EnumerationStable LookupsReturn
\* A DeleteCategory may wait for ever for the lock it holds.
CHECK_DEADLOCK FALSE
