SPECIFICATION Spec
CONSTANTS
  na = na
  nb = nb
  None = None
  Names <- MCNames
  Bodies <- MCBodies
  MaxParts = 4
  MaxReferences = 1
INVARIANTS
  TypeOK
  NamesAreLexical
  GraphIsComplete
  OnlyMisnamedCtesFail
  RenameKeepsSightedBindings
