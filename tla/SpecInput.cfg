SPECIFICATION Spec
CONSTANTS
  Sealed <- MCSealed
  Altered <- MCAltered
  MaxReport = 24
  MaxSpec = 3
  Invocations <- MCInvocations
  Paths <- MCPaths
  InitialFiles <- MCInitialFiles
  Pieces <- MCPieces
  MaxEdits = 2
INVARIANT
  SpecInputBounded
