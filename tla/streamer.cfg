SPECIFICATION FairSpec
CONSTANT MaxLines = 3
INVARIANTS
  MessagesConserved
  IInv
PROPERTIES
  NothingAfterError
  EventuallyEnds
CHECK_DEADLOCK FALSE
