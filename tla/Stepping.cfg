\* Stepping with the stack in the upper half of memory.
CONSTANTS
  Addr <- MCAddr
  Programs <- MCPrograms
  CLine <- MCCLine
  AsmLine <- MCAsmLine
  NoLine = 0
  HasCdb = TRUE
  Half = 16
  InitSp = 30
  Entry = 0
  OverLimit = 14
  InLimit = 6
  WalkLimit = 4
  MaxHistory = 2
  RecursionFloor = 26
  MaxSteps = 3
  Words <- MCWords
SPECIFICATION Spec
INVARIANTS TypeOK
PROPERTIES StepOverInFrame StepOutReturnsFromBase StepBackRestores
