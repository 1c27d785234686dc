SPECIFICATION Spec
CONSTANTS
  NoAddr <- MCNoAddr
  Programs <- MCPrograms
  Files <- MCFiles
  DefaultVirtual <- MCDefaultVirtual
  EmptyVirtual <- MCEmptyVirtual
  LineSets <- MCLineSets
  FunctionSets <- MCFunctionSets
  ReferenceSets <- MCReferenceSets
  Unparsable <- MCUnparsable
  AddrSpace = 16
  LastLine = 3
  MaxLaunches = 2
INVARIANT OfferedLinesResolve
