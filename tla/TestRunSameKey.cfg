SPECIFICATION Spec
CONSTANTS
  NumSpecs = 4
  Key <- SameKeys
  Model <- SameModels
  Kind <- SameKinds
  Parent <- SameParents
  Preset <- SamePresets
INVARIANTS PassedMeansNothingFailed
CHECK_DEADLOCK FALSE
