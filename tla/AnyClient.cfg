\* A client that sends any request at any time and may drop the connection.
CONSTANTS
  Addr <- LoopAddr
  Successors <- LoopSuccessors
  Halts <- LoopHalts
  Entry = 1
  MaxHistory = 1
  BpChoices <- OneBp
  StepLimit = 1
  MaxPending = 1
  Liberties = {"eager", "drop"}
SPECIFICATION FairSpec
INVARIANTS RunningOwned JoinIsSafe NoThreadOutlivesTarget
PROPERTIES SessionResponsive
\* A crash of the process ends the behaviour.
CHECK_DEADLOCK FALSE
