CONSTANTS
  NULL = NULL
  MaxPatches = 3
  MaxDocument = 3
  RepeatRebuilds = FALSE
SPECIFICATION FairSpec
INVARIANTS
  TypeOK
  AnswersAreCurrent
  CopiesAreCurrent
  StaleViewsAreRejected
  NothingIsLost
  CallsLeaveNoTrace
PROPERTIES
  ImplementsPromise
  ApplyReturns
