\* Two lists: every insertion, batch, plan, rendering and clone.
SPECIFICATION Spec
CONSTANTS
  Handles = {h1, h2}
  Buffers = {b1, b2, b3}
  Texts <- TwoTexts
  Source <- TwoBytes
  MaxSql = 5
  MaxOutput = 5
  MaxRows = 2
  InitialCapacity = 1
  NULL = NULL
SYMMETRY EditSymmetry
CONSTRAINT ReportsAreNotFollowed
INVARIANTS
  NoTwoEditsConflict
  RefusalHasAConflict
  RestoredSqlMakesEveryEdit
  BatchLengthIsExact
  ListInvariant
