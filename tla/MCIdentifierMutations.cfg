SPECIFICATION Spec
CONSTANTS
  Sources <- AllSources
  Names = {"a", "b"}
  Schemas = {"s"}
  Backings = {"owned_postgresql", "legacy"}
  MaxStrings = 5
  MaxSteps = 3
  Admitted = {}
  NULL = NULL
INVARIANTS
  TypeOK
  RecordsFollowTheirStrings
  RelationGroupsAgree
  NamesAreWrittenAsTheyStand
  SpellingIsTheOneGiven
