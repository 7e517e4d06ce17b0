CONSTANTS
    Letter <- Letters
    MaxLen = 3
SPECIFICATION Spec
CHECK_DEADLOCK FALSE
  
PROPERTY ColonsSurvive
