SPECIFICATION Spec
CONSTANTS
  NumSpecs = 5
  Key <- OwnKeys
  Model <- OwnModels
  Kind <- OwnKinds
  Parent <- OwnParents
  Preset <- OwnPresets
INVARIANTS TypeOK NothingFoundIsLost PassedIsComplete DryRunAssertsNothing MetadataOnlyReadsNoRows CallerKeepsConnection  MismatchFailsItsParent
 
CHECK_DEADLOCK FALSE
