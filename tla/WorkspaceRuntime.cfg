SPECIFICATION FairSpec
CONSTANTS
  MaxGen = 3
  MaxEpoch = 3
INVARIANTS
  EmptyIsTrue
  AnswersAreTrue
PROPERTIES
  ImplementsProcesses
  LockIsReleased
