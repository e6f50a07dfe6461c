\* A thread looks entries up while it enumerates them, another one deletes.
CONSTANTS
  t1 = t1
  t2 = t2
  Thread = {t1, t2}
  Category = {c1}
  Name = {n1}
  Value = {v1}
  Empty = Empty
  NoLeaf = NoLeaf
  Torn = Torn
  Idle = Idle
  Node = {d1, d2}
  NoNode = NoNode
  NoThread = NoThread
  NotFound = NotFound
  Manager = Manager
  MayCall <- Readers
  WhileEnumerating = {"GetCategoryEntry"}
  DeletersWait = TRUE
SPECIFICATION Spec
INVARIANT NoCircularWait
