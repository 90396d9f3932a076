CONSTANTS
  None = None
  Programs <- InferredPrograms
SPECIFICATION Spec
INVARIANTS
  StepsBuild
CHECK_DEADLOCK FALSE
