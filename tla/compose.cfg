SPECIFICATION Spec
CONSTANTS
  NL = NL
  LineEnds <- MCLineEnds
  Atoms <- MCAtoms
  Texts <- MCTexts
  Pieces <- MCPieces
  MaxEdits = 3
  MaxBatches = 2
INVARIANTS
  ComposesAlways
  ComposedSplice
