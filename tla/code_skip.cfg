CONSTANTS
  None = None
  Programs <- TwinPrograms
SPECIFICATION Spec
PROPERTIES
  SkippedUntouched
CHECK_DEADLOCK FALSE
