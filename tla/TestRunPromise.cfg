SPECIFICATION FairSpec
CONSTANTS
  NumSpecs = 3
  Key <- FieldKeys
  Model <- FieldModels
  Kind <- FieldKinds
  Parent <- FieldParents
  Preset <- FieldPresets
 
PROPERTIES KeepsPromise RunEnds
CHECK_DEADLOCK FALSE
