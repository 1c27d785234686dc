\* A connection that ends while the program runs.
CONSTANTS
  Addr <- LoopAddr
  Successors <- LoopSuccessors
  Halts <- LoopHalts
  Entry = 1
  MaxHistory = 1
  BpChoices <- LiveBps
  StepLimit = 2
  MaxPending = 1
  Liberties = {"drop"}
SPECIFICATION Spec
INVARIANTS TeardownSafe
