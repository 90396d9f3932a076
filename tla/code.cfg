CONSTANTS
  None = None
  Programs <- CorePrograms
SPECIFICATION Spec
INVARIANTS
  TypeOK
  StepsBuild
  
  SiblingsFed
  ThreadableIsLargest
  AnswersMeant
PROPERTIES
  PlanResumes
  SkippedUntouched
  WorkEnds
CHECK_DEADLOCK FALSE
