SPECIFICATION DocSpec
CONSTANTS
  Texts <- MCTexts
  Limits <- MCLimits
  Capacities <- MCCapacities
  Chars <- MCChars
  Letters <- MCLetters
  ContainerSize = 8
  NodeSize = 12
  Edited <- MCEdited
  EditKeys <- MCEditKeys
  EditValues <- MCEditValues
  MaxEdits = 2
INVARIANTS InputIntact StringsSurvive PrintedReadsBack
PROPERTY ParseEnds
CHECK_DEADLOCK FALSE
