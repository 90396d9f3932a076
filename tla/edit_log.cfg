SPECIFICATION Spec
CONSTANTS
  NL = NL
  LineEnds <- MCLineEnds
  WS = WS
  Layouts <- MCLayouts
  MaxFormats = 1
INVARIANTS
  TypeOK
  TextAsPlanned
  Replays
  Composable
  LostToFinish
  MarksFollow
