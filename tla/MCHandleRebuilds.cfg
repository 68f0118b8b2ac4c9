CONSTANTS
  NULL = NULL
  MaxPatches = 2
  MaxDocument = 2
  RepeatRebuilds = TRUE
SPECIFICATION Spec
INVARIANTS
  AnswersAreCurrent
