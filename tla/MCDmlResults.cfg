\* Every kind of DML result, from parse to deparse, under every patch.
SPECIFICATION Spec
CONSTANTS
  Documents <- AllDocuments
  Fragments <- TwoFragments
  Receivers = {"r", ":9"}
  Binds = {":1", ":2", ":9"}
  Sinks = {"other"}
  Markers <- ThreeMarkers
  MaxDmls = 8
  MaxTargets = 5
  MaxColumns = 2
  None = None
INVARIANTS
  StateInvariant
  SelectorsReadWhatIsWritten
PROPERTY
  ImplementsOutputChannels
