\* Two client threads and a registrar, nobody unregisters.
CONSTANTS
  main = main
  cat = cat
  a = a
  Thread = {main, t1, t2}
  Main = main
  CID = {cat, a}
  ContractID = {kcat}
  Factory = {f0}
  Entry = {e1, e2}
  CatCID = cat
  CatContract = kcat
  CatFactory = f0
  Needs <- MCNeeds
  MayCall <- Clients
  NoThread = NoThread
  NoEntry = NoEntry
  NoFactory = NoFactory
  NoCID = NoCID
  NullID = NullID
  EmptyID = EmptyID
SPECIFICATION FairSpec
INVARIANTS TypeOK EntriesInUseAreLive OneServicePerEntry ServicesGoFirst
PROPERTY ShutdownTerminates
CHECK_DEADLOCK TRUE
