\* A client that sets breakpoints while the program runs, as DAP allows.
CONSTANTS
  Addr <- LoopAddr
  Successors <- LoopSuccessors
  Halts <- LoopHalts
  Entry = 1
  MaxHistory = 1
  BpChoices <- LiveBps
  StepLimit = 2
  MaxPending = 1
  Liberties = {"live"}
SPECIFICATION Spec
PROPERTIES BreakpointHolds
