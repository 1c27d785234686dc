\* The stack grows across the sign bit of the stack pointer.
CONSTANTS
  Addr <- MCAddr
  Programs <- MCPrograms
  CLine <- MCCLine
  AsmLine <- MCAsmLine
  NoLine = 0
  HasCdb = TRUE
  Half = 16
  InitSp = 18
  Entry = 0
  OverLimit = 14
  InLimit = 6
  WalkLimit = 4
  MaxHistory = 2
  RecursionFloor = 14
  MaxSteps = 3
  Words <- MCWords
SPECIFICATION Spec
PROPERTIES StepOverInFrame
