CONSTANTS
  Sources <- OneRow
  Patches <- AllPatches
  MaxPatches = 3
SPECIFICATION Spec
INVARIANTS
  TypeOK
  DeferredEditsStand
PROPERTIES
  ListTakesEffectInOrder
