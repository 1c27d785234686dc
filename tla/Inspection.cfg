SPECIFICATION Spec
CONSTANTS
  Main = Main
  Count16 = Count16
  Far = Far
  None = None
  Unknown = Unknown
  NoStart <- MCNoStart
  Bad <- MCBad
  ByteSpace = 4
  AddrSpace = 16
  Paragraph = 2
  LengthOf <- MCLengthOf
  Programs <- MCPrograms
  Again <- MCAgain
  StartAddresses <- MCStartAddresses
  Resets <- MCResets
  Writes <- MCWrites
  Places <- MCPlaces
  Skips <- MCSkips
  Count = 3
  CVariables <- MCCVariables
  Expressions <- MCExpressions
CHECK_DEADLOCK FALSE
INVARIANTS TypeOK LoadedFaithfully EntryIsLoaded HangsOnlyAtTop BackwardLands ListingAgrees ViewsAgree SymbolsAgree
