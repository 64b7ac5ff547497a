SPECIFICATION Spec
CONSTANTS
  NumPartitions = 2
  MaxOffset = 2
  MaxMessages = 0
  IdlePolls = 1
INVARIANTS
  EveryPartitionIsRead
CHECK_DEADLOCK FALSE
