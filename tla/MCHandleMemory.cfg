CONSTANTS
  Owners = {o1, o2}
  Aliases = {o1}
  Texts = {"a", "b"}
  Messages <- TwoMessages
  Components = 2
  MaxGroups = 4
  FirstCapacity = 2
  MaxEdits = 3
  MaxHeld = 2
  NULL = NULL
  Shapes <- SomeShapes
  Elements = 2
  MaxParts = 2
  Blocks = 38
SPECIFICATION MemorySpec
INVARIANTS
  MemoryTypeOK
  NamesReadTheirSpelling
  SweptArenaIsExact
  EveryBlockHasOneOwner
PROPERTIES
  ArenaIsUsedUp
  OriginalIsUntouched
CHECK_DEADLOCK FALSE
