CONSTANTS
  Statements <- AllStatements
  Paths <- AllPaths
  Conditions <- AllConditions
  MaxSteps = 3
  MaxSet = 3
  None = None
  Documents <- AllTexts
  Fragments <- AllFragments
  MaxEdits = 2
  MaxNodes = 10
SPECIFICATION DialectSpec
INVARIANT ConditionsTakeEffect
CHECK_DEADLOCK FALSE
