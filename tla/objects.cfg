\* Three addresses, two variables of the program.
CONSTANTS
  Object = {o1, o2, o3}
  Slot = {s1, s2}
  NULL = NULL
  MaxHeld = 4
  Value = {a, b}
  NoValue = NoValue
SPECIFICATION MCSpec
SYMMETRY Symmetry
INVARIANTS
  TypeOK
  CountsOwners
  OwnersHoldLive
  DestroyedOnce
  CallsReachObjects
  WeakIsMutual
  NothingLeaks
  LivesWhileHeld
  OneIdentity
  InOrder
  AnswersAreKept
