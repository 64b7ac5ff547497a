SPECIFICATION FairSpec
CONSTANTS
  NumPartitions = 2
  MaxOffset = 2
  MaxMessages = 2
  IdlePolls = 1
INVARIANTS
  TypeOK
  ReadIsWhole
  BoundedRead
  SampleIsPartial
PROPERTY
  
  GetsOn
CHECK_DEADLOCK FALSE
