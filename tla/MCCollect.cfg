CONSTANTS
  Stacks <- MCStacks
  Consumers <- MCConsumers
  MaxSize = 3
SPECIFICATION Spec
INVARIANTS
  ContractKept
  CollectedExactly
  ReadsLoseNothing
  BuffersGoHome
CHECK_DEADLOCK FALSE
