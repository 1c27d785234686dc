SPECIFICATION Spec
CONSTANTS
  MainC = MainC
  Crt0 = Crt0
  LostC = LostC
  Latin = Latin
  Hello = Hello
  Rom = Rom
  Bare = Bare
  Default = Default
  Nowhere = Nowhere
  Crt0File = Crt0File
  RomLostC = RomLostC
  HelloAsm = HelloAsm
  HelloDir = HelloDir
  RomDir = RomDir
  NoDir = NoDir
  None = None
  NoPath <- Nowhere
  NoRoot <- NoDir
  Places <- MCPlaces
  CFiles <- MCCFiles
  OnDisk <- MCOnDisk
  NotUtf8 <- MCNotUtf8
  Found <- MCFound
  Asked <- MCAsked
  Images <- MCImages
  NoImage <- MCNoImage
  MaxRequests = 4
  MaxPending = 2
  MaxConnections = 2
CHECK_DEADLOCK FALSE
INVARIANTS TypeOK RefsLeadBack SourceDelivered ScopeAnswered EntryReported
PROPERTIES ResponsesNumbered OneAnswerEach
