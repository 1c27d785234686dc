SPECIFICATION Spec
CONSTANTS
  NoAddr <- MCNoAddr
  Programs <- NamesakePrograms
  Files <- NamesakeFiles
  DefaultVirtual <- MCDefaultVirtual
  EmptyVirtual <- MCEmptyVirtual
  LineSets <- MCLineSets
  FunctionSets <- MCFunctionSets
  ReferenceSets <- MCReferenceSets
  Unparsable <- MCUnparsable
  AddrSpace = 16
  LastLine = 3
  MaxLaunches = 1
INVARIANT NothingElseArmed
