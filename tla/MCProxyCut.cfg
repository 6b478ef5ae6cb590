CONSTANTS
  Messages <- MCCutMessages
  MaxBatch = 1
  SendMaxFds = 1
  QMax = 1
  MaxSent <- MCCutMaxSent
  MaxTotal = 2
  Whole = FALSE
SPECIFICATION Spec
PROPERTY EverySentMessageHandled
CHECK_DEADLOCK FALSE
