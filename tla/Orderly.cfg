\* An orderly client, two requests ahead of their responses.
CONSTANTS
  Addr <- LoopAddr
  Successors <- LoopSuccessors
  Halts <- LoopHalts
  Entry = 1
  MaxHistory = 1
  BpChoices <- SomeBps
  StepLimit = 2
  MaxPending = 2
  Liberties = {}
SPECIFICATION FairSpec
INVARIANTS TypeOK CpuExclusive OneStopPerRun StopReasonTrue QuietAfterDisconnect TeardownSafe
PROPERTIES BreakpointHolds FrozenWhileStopped PauseStops DisconnectAnswered
