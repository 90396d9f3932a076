CONSTANTS
  None = None
  Unknown = Unknown
  Words <- MCWords
  Inbox <- MCInbox
  Programs <- MCPrograms
  ScopesOf <- MCScopes
  SubjectLength = 3
SPECIFICATION Spec
INVARIANTS
  TypeOK
  AcksAgree
  ConfigAccepted
  HandlersFit
  StatementsFit
  SubjectsAgree
PROPERTIES
  DefaultsKeep
  AnswersSuffice
CHECK_DEADLOCK FALSE
