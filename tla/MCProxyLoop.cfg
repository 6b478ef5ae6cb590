CONSTANTS
  Messages <- MCMessages
  MaxBatch = 2
  SendMaxFds = 1
  QMax = 1
  MaxSent <- MCMaxSent
  MaxTotal = 4
  Whole = TRUE
SPECIFICATION Spec
INVARIANT DescriptorsAccounted
PROPERTIES  RelaysInOrder 
CHECK_DEADLOCK FALSE
