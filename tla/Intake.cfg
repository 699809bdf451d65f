CONSTANTS
  Requests <- MCRequests
  Kind <- MCKind
  Password <- MCPassword
  Capacity = 2
  MaxStarts = 2
SPECIFICATION FairSpec
CHECK_DEADLOCK FALSE
INVARIANTS
  IInv
  AnswerTells
  BehindBootload
  InfoTruthful
PROPERTIES
  ImplementsMailbox
  Answered
  Served
