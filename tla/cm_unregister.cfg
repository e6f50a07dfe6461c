\* A registrar that also unregisters, and a client thread.
CONSTANTS
  main = main
  cat = cat
  a = a
  Thread = {main, t1}
  Main = main
  CID = {cat, a}
  ContractID = {kcat}
  Factory = {f0, f1}
  Entry = {e1, e2}
  CatCID = cat
  CatContract = kcat
  CatFactory = f0
  Needs <- MCNeeds
  MayCall <- Unregistering
  NoThread = NoThread
  NoEntry = NoEntry
  NoFactory = NoFactory
  NoCID = NoCID
  NullID = NullID
  EmptyID = EmptyID
SPECIFICATION Spec
INVARIANTS TablesSound NoEntryLeaks
PROPERTY ServiceStable
CHECK_DEADLOCK TRUE
