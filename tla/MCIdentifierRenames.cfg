SPECIFICATION Spec
CONSTANTS
  Sources <- Subquery
  Names = {"a", "b"}
  Schemas = {"s"}
  Backings = {"owned"}
  MaxStrings = 5
  MaxSteps = 4
  Admitted = {"rename_introduced"}
  NULL = NULL
INVARIANTS
  NamesAreWrittenAsTheyStand
