------------------------- MODULE BreakpointsProofs -------------------------
(***************************************************************************)
(* For all programs, files and requests: source breakpoints are resolved   *)
(* when a program is loaded, what was answered verified stays armed, and   *)
(* nothing is armed that the client did not ask for last. These proofs     *)
(* need nothing of how an address is looked up, only that every path to    *)
(* the merged set goes through the list it came from.                      *)
(*                                                                         *)
(* The second part is about what is looked up: every address armed is one  *)
(* of the Z80's, a stop is shown at the line, or in the function, its      *)
(* breakpoint was set on, and the variables shown there are those in       *)
(* scope.                                                                  *)
(***************************************************************************)
EXTENDS DebugInfoProofs

(* all_breakpoints_ is the union of the four lists. *)
Merged == allBps = sourceBps \cup instructionBps \cup functionBps \cup asmBps

Shape ==
  /\ virtual \in Listings
  /\ DOMAIN wanted = ListIds
  /\ DOMAIN verified = ListIds

(* The file lists hold what the client asked for last. *)
FilesWanted ==
  \A f \in Files \ Listings :
    IF f \in DOMAIN byFile THEN byFile[f] = wanted[f] ELSE wanted[f] = << >>

SourceResolved == loaded => sourceBps = Sources(index, byFile)

(* What was answered verified is in the list it was answered for, and a    *)
(* source line would be resolved to it again.                              *)
VerifiedListed ==
  /\ verified[Functions] \subseteq functionBps
  /\ verified[Instructions] \subseteq instructionBps
  /\ virtual \in Files => verified[virtual] \subseteq asmBps
  /\ \A f \in Files \ {virtual} :
       /\ verified[f] \subseteq sourceBps
       /\ verified[f] # {} => f \in DOMAIN byFile
                                /\ verified[f] \subseteq Resolved(index, f, byFile[f])

IInv == Merged /\ Shape /\ FilesWanted /\ SourceResolved /\ VerifiedListed

(* Nothing is armed and nothing answered before the first request. *)
LEMMA InitInv == Init => IInv
<1> SUFFICES ASSUME Init PROVE IInv
  OBVIOUS
<1>1. Merged /\ Shape /\ SourceResolved
  BY DEF Init, Merged, Shape, SourceResolved, Listings
<1>2. FilesWanted
  BY DEF Init, FilesWanted, ListIds
<1>3. VerifiedListed
  BY DEF Init, VerifiedListed, ListIds
<1>4. QED
  BY <1>1, <1>2, <1>3 DEF IInv

(* A request in a file resolves to no addresses when it has no lines. *)
LEMMA NoLinesNoAddresses ==
  ASSUME NEW idx, NEW f
  PROVE  Resolved(idx, f, << >>) = {}
BY DEF Resolved, Range

(* What one file resolves to is part of what all files resolve to. *)
LEMMA SourceContains ==
  ASSUME NEW idx, NEW files, NEW f \in DOMAIN files
  PROVE  Resolved(idx, f, files[f]) \subseteq Sources(idx, files)
BY DEF Sources

(* Breakpoints in the listing replace their own list alone. *)
LEMMA ListingInv ==
  ASSUME IInv, NEW f \in Files, NEW lines, SetListing(f, lines)
  PROVE  IInv'
<1>1. /\ f = virtual /\ f \in ListIds /\ f # Functions /\ f # Instructions
      /\ f \in Listings
  BY ListIdAssumption DEF SetListing, ListIds, IInv, Shape
<1>2. Merged' /\ Shape' /\ SourceResolved'
  BY <1>1 DEF SetListing, Merge, Merged, Answer, IInv, Shape, SourceResolved, program
<1>3. FilesWanted'
  BY <1>1 DEF SetListing, Answer, IInv, Shape, FilesWanted, ListIds
<1>4. VerifiedListed'
  BY <1>1, ListIdAssumption
     DEF SetListing, Answer, IInv, Shape, VerifiedListed, ListIds, program
<1>5. QED
  BY <1>2, <1>3, <1>4 DEF IInv

(* Breakpoints in a file replace those of this file alone. *)
LEMMA SourceInv ==
  ASSUME IInv, NEW f \in Files, NEW lines, SetSource(f, lines)
  PROVE  IInv'
<1>1. f # virtual /\ f \in ListIds /\ f # Functions /\ f # Instructions
  BY ListIdAssumption DEF SetSource, ListIds
<1>2. /\ UNCHANGED <<index, listing, virtual, instructionBps, functionBps, asmBps>>
      /\ byFile' = Stored(f, lines)
      /\ sourceBps' = Sources(index, byFile')
      /\ wanted' = [wanted EXCEPT ![f] = lines]
      /\ verified' = [verified EXCEPT ![f] = Resolved(index, f, lines)]
  BY DEF SetSource, RebuildSource, Answer, program
<1>3. Merged'
  BY DEF SetSource, RebuildSource, Merge, Merged
<1>4. Shape' /\ SourceResolved'
  BY <1>2 DEF IInv, Shape, SourceResolved
<1>5. /\ lines = << >> => f \notin DOMAIN byFile'
      /\ lines # << >> => f \in DOMAIN byFile' /\ byFile'[f] = lines
      /\ \A g \in Files \ {f} :
           /\ g \in DOMAIN byFile' <=> g \in DOMAIN byFile
           /\ g \in DOMAIN byFile => byFile'[g] = byFile[g]
  BY <1>2 DEF Stored
<1>6. FilesWanted'
  <2>1. wanted'[f] = lines /\ \A g \in Files \ {f} : wanted'[g] = wanted[g]
    BY <1>1, <1>2 DEF IInv, Shape, ListIds
  <2>2. QED
    BY <1>5, <2>1 DEF IInv, FilesWanted, Listings
<1>7. VerifiedListed'
  <2>1. /\ verified'[f] = Resolved(index, f, lines)
        /\ \A g \in ListIds \ {f} : verified'[g] = verified[g]
    BY <1>1, <1>2 DEF IInv, Shape
  <2>2. /\ verified'[Functions] \subseteq functionBps'
        /\ verified'[Instructions] \subseteq instructionBps'
        /\ virtual' \in Files => verified'[virtual'] \subseteq asmBps'
    BY <1>1, <1>2, <2>1 DEF IInv, VerifiedListed, ListIds
  <2>3. ASSUME NEW g \in Files \ {virtual'}
        PROVE  verified'[g] # {} => g \in DOMAIN byFile'
                                      /\ verified'[g] \subseteq Resolved(index', g, byFile'[g])
    <3>1. CASE g = f
      BY <1>2, <1>5, <2>1, <3>1, NoLinesNoAddresses
    <3>2. CASE g # f
      BY <1>2, <1>5, <2>1, <3>2 DEF IInv, VerifiedListed, ListIds
    <3>3. QED
      BY <3>1, <3>2
  <2>4. ASSUME NEW g \in Files \ {virtual'}
        PROVE  verified'[g] \subseteq sourceBps'
    BY <1>2, <2>3, SourceContains
  <2>5. QED
    BY <2>2, <2>3, <2>4 DEF VerifiedListed
<1>8. QED
  BY <1>3, <1>4, <1>6, <1>7 DEF IInv

(* Function breakpoints replace their own list alone. *)
LEMMA FunctionsInv ==
  ASSUME IInv, NEW names, SetFunctions(names)
  PROVE  IInv'
<1>1. Functions \in ListIds /\ Functions \notin Files /\ Functions # Instructions
  BY ListIdAssumption DEF ListIds, Functions, Instructions
<1>2. Merged' /\ Shape' /\ SourceResolved'
  BY DEF SetFunctions, Merge, Merged, Answer, IInv, Shape, SourceResolved, program
<1>3. FilesWanted'
  BY <1>1 DEF SetFunctions, Answer, IInv, Shape, FilesWanted, ListIds
<1>4. VerifiedListed'
  BY <1>1 DEF SetFunctions, Answer, IInv, Shape, VerifiedListed, ListIds, program
<1>5. QED
  BY <1>2, <1>3, <1>4 DEF IInv

(* Instruction breakpoints replace their own list alone. *)
LEMMA InstructionsInv ==
  ASSUME IInv, NEW refs, SetInstructions(refs)
  PROVE  IInv'
<1>1. Instructions \in ListIds /\ Instructions \notin Files /\ Functions # Instructions
  BY ListIdAssumption DEF ListIds, Functions, Instructions
<1>2. Merged' /\ Shape' /\ SourceResolved'
  BY DEF SetInstructions, Merge, Merged, Answer, IInv, Shape, SourceResolved, program
<1>3. FilesWanted'
  BY <1>1 DEF SetInstructions, Answer, IInv, Shape, FilesWanted, ListIds
<1>4. VerifiedListed'
  BY <1>1 DEF SetInstructions, Answer, IInv, Shape, VerifiedListed, ListIds, program
<1>5. QED
  BY <1>2, <1>3, <1>4 DEF IInv

(* A launch of a program resolves the source breakpoints in its index. *)
LEMMA LaunchInv ==
  ASSUME IInv, NEW p \in Programs, LaunchProgram(p)
  PROVE  IInv'
<1>1. Merged' /\ SourceResolved'
  BY DEF LaunchProgram, RebuildSource, Merge, Merged, SourceResolved
<1>2. Shape'
  BY DEF LaunchProgram, IInv, Shape, Listings
<1>3. FilesWanted'
  BY DEF LaunchProgram, IInv, FilesWanted, Listings
<1>4. VerifiedListed'
  BY DEF LaunchProgram, VerifiedListed, ListIds
<1>5. QED
  BY <1>1, <1>2, <1>3, <1>4 DEF IInv

(* A launch without a program leaves every list alone. *)
LEMMA LaunchNothingInv ==
  ASSUME IInv, LaunchNothing
  PROVE  IInv'
<1>1. Merged' /\ SourceResolved'
  BY DEF LaunchNothing, IInv, Merged, SourceResolved, lists
<1>2. Shape'
  BY DEF LaunchNothing, IInv, Shape, Listings
<1>3. FilesWanted'
  BY DEF LaunchNothing, IInv, FilesWanted, Listings, lists
<1>4. VerifiedListed'
  BY DEF LaunchNothing, VerifiedListed, ListIds
<1>5. QED
  BY <1>1, <1>2, <1>3, <1>4 DEF IInv

(* The listing of clear memory is of no list. *)
LEMMA ShowListingInv ==
  ASSUME IInv, ShowListing
  PROVE  IInv'
BY DEF ShowListing, IInv, Merged, Shape, FilesWanted, SourceResolved, VerifiedListed, lists

(* Every step keeps the invariant. *)
LEMMA NextInv == IInv /\ [Next]_vars => IInv'
<1> SUFFICES ASSUME IInv, [Next]_vars PROVE IInv'
  OBVIOUS
<1>1. ASSUME NEW f \in Files, NEW lines \in LineSets, SetListing(f, lines) PROVE IInv'
  BY <1>1, ListingInv
<1>2. ASSUME NEW f \in Files, NEW lines \in LineSets, SetSource(f, lines) PROVE IInv'
  BY <1>2, SourceInv
<1>3. ASSUME NEW names \in FunctionSets, SetFunctions(names) PROVE IInv'
  BY <1>3, FunctionsInv
<1>4. ASSUME NEW refs \in ReferenceSets, SetInstructions(refs) PROVE IInv'
  BY <1>4, InstructionsInv
<1>5. ASSUME NEW p \in Programs, LaunchProgram(p) PROVE IInv'
  BY <1>5, LaunchInv
<1>6. CASE LaunchNothing
  BY <1>6, LaunchNothingInv
<1>7. CASE ShowListing
  BY <1>7, ShowListingInv
<1>8. CASE UNCHANGED vars
  BY <1>8 DEF IInv, Merged, Shape, FilesWanted, SourceResolved, VerifiedListed,
              vars, program, lists
<1>9. QED
  BY <1>1, <1>2, <1>3, <1>4, <1>5, <1>6, <1>7, <1>8 DEF Next

(* The invariant holds of every behaviour. *)
LEMMA Invariance == Spec => []IInv
BY InitInv, NextInv, PTL DEF Spec

(* Source breakpoints asked for at any time are armed, and no other source *)
(* lines are, once a program is loaded.                                    *)
THEOREM SourcesAreArmed == Spec => []SourceArmed
<1>1. IInv => SourceArmed
  <2> SUFFICES ASSUME IInv, loaded PROVE SourceArmed
    BY DEF SourceArmed
  <2>1. sourceBps = Sources(index, byFile) /\ sourceBps \subseteq allBps
    BY DEF IInv, SourceResolved, Merged
  <2>2. ASSUME NEW f \in Files \ Listings
        PROVE  Resolved(index, f, wanted[f]) \subseteq sourceBps
    BY <2>1, SourceContains, NoLinesNoAddresses DEF IInv, FilesWanted
  <2>3. QED
    BY <2>1, <2>2 DEF SourceArmed
<1>2. QED
  BY <1>1, Invariance, PTL

(* What the client was told is verified since the launch stays armed.      *)
THEOREM VerifiedStaysArmed == Spec => []VerifiedIsArmed
<1>1. IInv => VerifiedIsArmed
  BY DEF IInv, VerifiedListed, Merged, VerifiedIsArmed, ListIds
<1>2. QED
  BY <1>1, Invariance, PTL

-----------------------------------------------------------------------------
(* In a session that launches once nothing is armed that was not asked for *)
(* last.  A file of a listing's name is stored as a source before the      *)
(* launch that makes it the listing, and a later request for it replaces   *)
(* the listing's breakpoints only: the property rests on the index not     *)
(* resolving such a name.                                                  *)

(* No program has a source that is called as a listing is. *)
NoNamesake ==
  \A p \in Programs, f \in Files \cap Listings, lines \in LineSets :
    Resolved(AddrByFileLine(Parse(p.records), p.symbols), f, lines) = {}

(* Before the launch no name and no line of a source has an address, and   *)
(* no breakpoint is set in the listing.                                    *)
BeforeLaunch ==
  launches = 0 => /\ symbols = << >> /\ index = << >> /\ virtual = DefaultVirtual
                  /\ functionBps = {} /\ asmBps = {}

(* What the index in use resolves is what a program resolves, or nothing. *)
OneIndex ==
  launches <= 1 => /\ sourceBps = Sources(index, byFile)
                   /\ \A f \in Files \cap Listings, lines \in LineSets :
                        Resolved(index, f, lines) = {}

(* Each list holds what the last request for it stands for. *)
ListsWanted ==
  /\ \A f \in DOMAIN byFile : f \in Files /\ byFile[f] \in LineSets
  /\ instructionBps = {r % AddrSpace : r \in Range(wanted[Instructions]) \ {Unparsable}}
  /\ launches <= 1 =>
       /\ functionBps \subseteq
            {LookupFunctionAddress(symbols, n) : n \in Range(wanted[Functions])}
       /\ asmBps # {} =>
            /\ virtual \in Files
            /\ asmBps \subseteq {listing[l] : l \in Range(wanted[virtual]) \cap DOMAIN listing}

IOnce == launches \in Nat /\ BeforeLaunch /\ OneIndex /\ ListsWanted

(* An empty index and an empty MAP file resolve nothing. *)
LEMMA NothingResolved ==
  /\ \A f, lines : Resolved(<< >>, f, lines) = {}
  /\ \A files : Sources(<< >>, files) = {}
  /\ \A name : LookupFunctionAddress(<< >>, name) = NoAddr
BY DEF Resolved, Sources, LookupAddress, LookupFunctionAddress

(* Before the first request there is nothing to resolve. *)
LEMMA OnceInit == Init => IOnce
BY NothingResolved, ListIdAssumption
   DEF Init, IOnce, BeforeLaunch, OneIndex, ListsWanted, ListIds, Range

(* Each request replaces one list by what it stands for. *)
LEMMA OnceRequests ==
  ASSUME DefaultVirtual \notin Files, IInv, IOnce,
         \/ \E f \in Files, lines \in LineSets : SetListing(f, lines) \/ SetSource(f, lines)
         \/ \E names \in FunctionSets : SetFunctions(names)
         \/ \E refs \in ReferenceSets : SetInstructions(refs)
  PROVE  IOnce'
<1>1. /\ Functions \in ListIds /\ Functions \notin Files
      /\ Instructions \in ListIds /\ Instructions \notin Files
      /\ Functions # Instructions /\ Files \subseteq ListIds /\ DOMAIN wanted = ListIds
  BY ListIdAssumption DEF ListIds, Functions, Instructions, IInv, Shape
<1>2. ASSUME NEW f \in Files, NEW lines \in LineSets, SetListing(f, lines)
      PROVE  IOnce'
  <2>1. /\ f = virtual /\ asmBps' = {listing[l] : l \in Range(lines) \cap DOMAIN listing}
        /\ UNCHANGED <<launches, symbols, index, listing, virtual, byFile, sourceBps,
                       instructionBps, functionBps>>
        /\ wanted' = [wanted EXCEPT ![f] = lines]
    BY <1>2 DEF SetListing, Answer, program
  <2>2. /\ wanted'[virtual] = lines /\ wanted'[Functions] = wanted[Functions]
        /\ wanted'[Instructions] = wanted[Instructions]
    BY <1>1, <2>1
  <2>3. launches # 0  BY <2>1 DEF IOnce, BeforeLaunch
  <2> QED  BY <2>1, <2>2, <2>3 DEF IOnce, BeforeLaunch, OneIndex, ListsWanted
<1>3. ASSUME NEW f \in Files, NEW lines \in LineSets, SetSource(f, lines)
      PROVE  IOnce'
  <2>1. /\ f # virtual /\ byFile' = Stored(f, lines) /\ sourceBps' = Sources(index, byFile')
        /\ UNCHANGED <<launches, symbols, index, listing, virtual, instructionBps,
                       functionBps, asmBps>>
        /\ wanted' = [wanted EXCEPT ![f] = lines]
    BY <1>3 DEF SetSource, RebuildSource, Answer, program
  <2>2. /\ virtual \in Files => wanted'[virtual] = wanted[virtual]
        /\ wanted'[Functions] = wanted[Functions]
        /\ wanted'[Instructions] = wanted[Instructions]
    BY <1>1, <2>1
  <2>3. \A g \in DOMAIN byFile' : g \in Files /\ byFile'[g] \in LineSets
    BY <2>1 DEF Stored, IOnce, ListsWanted
  <2> QED  BY <2>1, <2>2, <2>3 DEF IOnce, BeforeLaunch, OneIndex, ListsWanted
<1>4. ASSUME NEW names \in FunctionSets, SetFunctions(names)
      PROVE  IOnce'
  <2>1. /\ functionBps' = {LookupFunctionAddress(symbols, n) : n \in Range(names)} \ {NoAddr}
        /\ UNCHANGED <<launches, symbols, index, listing, virtual, byFile, sourceBps,
                       instructionBps, asmBps>>
        /\ wanted' = [wanted EXCEPT ![Functions] = names]
    BY <1>4 DEF SetFunctions, Answer, program
  <2>2. /\ virtual \in Files => wanted'[virtual] = wanted[virtual]
        /\ wanted'[Functions] = names
        /\ wanted'[Instructions] = wanted[Instructions]
    BY <1>1, <2>1
  <2>3. symbols = << >> => functionBps' = {}  BY <2>1, NothingResolved
  <2> QED  BY <2>1, <2>2, <2>3 DEF IOnce, BeforeLaunch, OneIndex, ListsWanted
<1>5. ASSUME NEW refs \in ReferenceSets, SetInstructions(refs)
      PROVE  IOnce'
  <2>1. /\ instructionBps' = {r % AddrSpace : r \in Range(refs) \ {Unparsable}}
        /\ UNCHANGED <<launches, symbols, index, listing, virtual, byFile, sourceBps,
                       functionBps, asmBps>>
        /\ wanted' = [wanted EXCEPT ![Instructions] = refs]
    BY <1>5 DEF SetInstructions, Answer, program
  <2>2. /\ virtual \in Files => wanted'[virtual] = wanted[virtual]
        /\ wanted'[Functions] = wanted[Functions]
        /\ wanted'[Instructions] = refs
    BY <1>1, <2>1
  <2> QED  BY <2>1, <2>2 DEF IOnce, BeforeLaunch, OneIndex, ListsWanted
<1> QED  BY <1>2, <1>3, <1>4, <1>5

(* The first launch finds function and assembly breakpoints empty, and     *)
(* later ones are none of the property's.                                  *)
LEMMA OnceLaunches ==
  ASSUME NoNamesake, IOnce,
         (\E p \in Programs : LaunchProgram(p)) \/ LaunchNothing
  PROVE  IOnce'
<1>1. launches' = launches + 1 /\ launches \in Nat /\ (launches' <= 1 => launches = 0)
  BY DEF LaunchProgram, LaunchNothing, IOnce
<1>2. ASSUME NEW p \in Programs, LaunchProgram(p)
      PROVE  IOnce'
  <2>1. /\ index' = AddrByFileLine(Parse(p.records), p.symbols)
        /\ sourceBps' = Sources(index', byFile')
        /\ UNCHANGED <<byFile, instructionBps, functionBps, asmBps, wanted>>
    BY <1>2 DEF LaunchProgram, RebuildSource
  <2>2. OneIndex'  BY <2>1 DEF OneIndex, NoNamesake, Listings
  <2> QED  BY <1>1, <2>1, <2>2 DEF IOnce, BeforeLaunch, ListsWanted
<1>3. CASE LaunchNothing
  <2>1. index' = << >> /\ UNCHANGED <<byFile, sourceBps, instructionBps, functionBps, asmBps,
                                      wanted>>
    BY <1>3 DEF LaunchNothing, lists
  <2>2. OneIndex'
    BY <1>1, <2>1, NothingResolved DEF OneIndex, IOnce, BeforeLaunch
  <2> QED  BY <1>1, <2>1, <2>2 DEF IOnce, BeforeLaunch, ListsWanted
<1> QED  BY <1>2, <1>3

(* The listing of clear memory is made when no breakpoint is set in one.   *)
LEMMA OnceShown ==
  ASSUME IOnce, ShowListing
  PROVE  IOnce'
<1>1. /\ UNCHANGED <<launches, symbols, index, virtual, byFile, sourceBps, instructionBps,
                     functionBps, asmBps, wanted>>
      /\ listing = << >>
  BY DEF ShowListing, lists
<1>2. launches <= 1 => asmBps = {}
  BY <1>1 DEF IOnce, ListsWanted
<1> QED  BY <1>1, <1>2 DEF IOnce, BeforeLaunch, OneIndex, ListsWanted

(* Each of the four requests has its part in what is wanted. *)
LEMMA WantedParts ==
  /\ (UNION {Resolved(index, f, wanted[f]) : f \in Files}) \subseteq Wanted
  /\ {LookupFunctionAddress(symbols, n) : n \in Range(wanted[Functions])} \subseteq Wanted
  /\ {r % AddrSpace : r \in Range(wanted[Instructions]) \ {Unparsable}} \subseteq Wanted
  /\ virtual \in Files =>
       {listing[l] : l \in Range(wanted[virtual]) \cap DOMAIN listing} \subseteq Wanted
<1> DEFINE A == UNION {Resolved(index, f, wanted[f]) : f \in Files}
           B == {LookupFunctionAddress(symbols, n) : n \in Range(wanted[Functions])}
           C == {r % AddrSpace : r \in Range(wanted[Instructions]) \ {Unparsable}}
           D == {listing[l] : l \in Range(wanted[virtual]) \cap DOMAIN listing}
<1>1. Wanted = A \cup B \cup C \cup (IF virtual \in Files THEN D ELSE {})
  BY DEF Wanted
<1> HIDE DEF A, B, C, D
<1>2. /\ A \subseteq Wanted /\ B \subseteq Wanted /\ C \subseteq Wanted
      /\ virtual \in Files => D \subseteq Wanted
  BY <1>1
<1> QED  BY <1>2 DEF A, B, C, D

(* Unless a source is called as a listing is, or breakpoints are set in    *)
(* the listing shown before the launch, a session that launches once arms  *)
(* no address that the client's last requests do not stand for: what it    *)
(* removed is disarmed (dbg::rebuild_all_breakpoints and the four setters  *)
(* of z80_target).                                                         *)
THEOREM OnlyWantedIsArmed ==
  NoNamesake /\ DefaultVirtual \notin Files => (Spec => []NothingElseArmed)
<1> SUFFICES ASSUME NoNamesake, DefaultVirtual \notin Files PROVE Spec => []NothingElseArmed
  OBVIOUS
<1>1. IInv /\ IOnce /\ [Next]_vars => IOnce'
  <2> SUFFICES ASSUME IInv, IOnce, [Next]_vars PROVE IOnce'
    OBVIOUS
  <2>1. CASE UNCHANGED vars
    BY <2>1 DEF IOnce, BeforeLaunch, OneIndex, ListsWanted, vars, program, lists
  <2> QED  BY <2>1, OnceRequests, OnceLaunches, OnceShown DEF Next
<1>2. IInv /\ IOnce => NothingElseArmed
  <2> SUFFICES ASSUME IInv, IOnce, launches <= 1 PROVE allBps \subseteq Wanted
    BY DEF NothingElseArmed
  <2>1. allBps = sourceBps \cup instructionBps \cup functionBps \cup asmBps
    BY DEF IInv, Merged
  <2>2. sourceBps \subseteq Wanted
    <3>1. ASSUME NEW f \in DOMAIN byFile
          PROVE  Resolved(index, f, byFile[f]) \subseteq Resolved(index, f, wanted[f])
      <4>1. f \in Files /\ byFile[f] \in LineSets  BY DEF IOnce, ListsWanted
      <4>2. CASE f \in Listings  BY <4>1, <4>2 DEF IOnce, OneIndex
      <4>3. CASE f \notin Listings  BY <4>1, <4>3 DEF IInv, FilesWanted
      <4> QED  BY <4>2, <4>3
    <3>2. sourceBps \subseteq UNION {Resolved(index, f, wanted[f]) : f \in Files}
      BY <3>1 DEF IOnce, OneIndex, ListsWanted, Sources
    <3> QED  BY <3>2 DEF Wanted
  <2>3. instructionBps \subseteq Wanted
    <3>1. instructionBps = {r % AddrSpace : r \in Range(wanted[Instructions]) \ {Unparsable}}
      BY DEF IOnce, ListsWanted
    <3> QED  BY ONLY <3>1, WantedParts
  <2>4. functionBps \subseteq Wanted
    <3>1. functionBps \subseteq
            {LookupFunctionAddress(symbols, n) : n \in Range(wanted[Functions])}
      BY DEF IOnce, ListsWanted
    <3> QED  BY ONLY <3>1, WantedParts
  <2>5. asmBps \subseteq Wanted
    <3>1. asmBps # {} =>
            /\ virtual \in Files
            /\ asmBps \subseteq {listing[l] : l \in Range(wanted[virtual]) \cap DOMAIN listing}
      BY DEF IOnce, ListsWanted
    <3> QED  BY ONLY <3>1, WantedParts
  <2> QED  BY <2>1, <2>2, <2>3, <2>4, <2>5
<1> QED
  BY <1>1, <1>2, OnceInit, Invariance, PTL DEF Spec

-----------------------------------------------------------------------------
(* What a program is parsed to *)
LEMMA ProgramModules ==
  ASSUME NEW p \in Programs
  PROVE  LET R == Range(p.records)
         IN  /\ IsFiniteSet(R)
             /\ Parse(p.records) \in Seq(CdbModules(R))
             /\ \A r \in ALines(R) \cup CLines(R) : r.addr \in Addr
<1> DEFINE R == Range(p.records)
<1>1. p.records \in Seq(R)
  BY ProgramAssumption
<1>2. ASSUME NEW r \in ALines(R) \cup CLines(R) PROVE r.addr \in Addr
  <2>1. PICK i \in DOMAIN p.records : r = p.records[i]
    BY DEF ALines, CLines, Range
  <2>2. r.kind \in {"A", "C"}
    BY DEF ALines, CLines
  <2> QED  BY <2>1, <2>2, ProgramAssumption
<1> HIDE DEF R
<1>3. IsFiniteSet(R) /\ Parse(p.records) \in Seq(CdbModules(R))
  BY <1>1, RangeFinite, ParseTyped DEF R
<1> QED  BY <1>2, <1>3 DEF R

(* The index is offered these. *)
LEMMA EntriesTyped ==
  ASSUME NEW R, IsFiniteSet(R), NEW ms \in Seq(CdbModules(R))
  PROVE  Entries(ms) \in Seq(AsmSpots(ms) \cup CSpots(ms))
<1> DEFINE E == AsmSpots(ms) \cup CSpots(ms)
<1>1. DOMAIN ms = 1..Len(ms) /\ Len(ms) \in Nat /\ \A i \in DOMAIN ms : ms[i] \in CdbModules(R)
  BY Places
<1>2. ASSUME NEW i \in DOMAIN ms
      PROVE  /\ IsAsmModule(ms[i]) => AsmEntries(ms[i]) \in Seq(E)
             /\ CEntries(ms[i]) \in Seq(E)
  <2> DEFINE m == ms[i]
  <2>1. m.asm \subseteq ALines(R) /\ m.lines \in Seq(CLines(R))
    BY <1>1, Changed
  <2>2. ASSUME IsAsmModule(m) PROVE AsmEntries(m) \in Seq(E)
    <3> DEFINE T == {Entry(Key(m.name, "", r.line), r.addr) : r \in m.asm}
               entry == [r \in m.asm |-> Entry(Key(m.name, "", r.line), r.addr)]
    <3>1. T \subseteq E
      <4>1. \A t \in T : t \in AsmSpots(ms)
        BY <2>2 DEF AsmSpots, IsAsmModule
      <4> QED  BY <4>1
    <3>2. IsFiniteSet(m.asm)
      <4>1. m.asm \subseteq R
        BY <2>1 DEF ALines
      <4> QED  BY <4>1, FS_Subset
    <3>3. entry \in Surjection(m.asm, T)
      BY DEF Surjection
    <3>4. IsFiniteSet(T)
      <4> HIDE DEF T, entry, m
      <4> QED  BY <3>2, <3>3, FS_Surjection
    <3> HIDE DEF T, E
    <3>5. SetToSeq(T) \in Seq(E)
      BY <3>1, <3>4, InSequence, SeqMonotonic
    <3> QED  BY <3>5 DEF AsmEntries, T
  <2>3. CEntries(m) \in Seq(E)
    <3>1. DOMAIN m.lines = 1..Len(m.lines) /\ Len(m.lines) \in Nat
      BY <2>1, Places
    <3>2. \A k \in DOMAIN m.lines :
            Entry(FileKey(m.lines[k].file, m.lines[k].line), m.lines[k].addr) \in E
      <4> TAKE k \in DOMAIN m.lines
      <4>1. m.lines[k] \in Range(m.lines)
        BY DEF Range
      <4>2. Entry(FileKey(m.lines[k].file, m.lines[k].line), m.lines[k].addr) \in CSpots(ms)
        BY <4>1 DEF CSpots
      <4> QED  BY <4>2
    <3> HIDE DEF E
    <3>3. CEntries(m) \in [1..Len(m.lines) -> E]
      BY <3>1, <3>2 DEF CEntries
    <3> QED  BY <3>1, <3>3, SeqDef
  <2> QED  BY <2>2, <2>3
<1> HIDE DEF E
<1> DEFINE part(i) == (IF IsAsmModule(ms[i]) THEN AsmEntries(ms[i]) ELSE << >>) \o CEntries(ms[i])
           parts == [i \in DOMAIN ms |-> part(i)]
<1>3. ASSUME NEW i \in DOMAIN ms PROVE part(i) \in Seq(E)
  <2>1. << >> \in Seq(E)
    OBVIOUS
  <2>2. (IF IsAsmModule(ms[i]) THEN AsmEntries(ms[i]) ELSE << >>) \in Seq(E)
    BY <1>2, <2>1
  <2>3. CEntries(ms[i]) \in Seq(E)
    BY <1>2
  <2> QED  BY <2>2, <2>3, ConcatProperties
<1> HIDE DEF part
<1>4. parts \in Seq(Seq(E))
  <2>1. parts \in [1..Len(ms) -> Seq(E)]
    BY <1>1, <1>3
  <2> QED  BY <1>1, <2>1, SeqDef
<1>5. Entries(ms) = FlattenSeq(parts)
  BY DEF Entries, part
<1> QED  BY <1>4, <1>5, FlattenTyped DEF E

(* The index finds a line of the program. *)
LEMMA IndexFinds ==
  ASSUME NEW p \in Programs,
         NEW k \in DOMAIN AddrByFileLine(Parse(p.records), p.symbols)
  PROVE  LET ms == Parse(p.records)
         IN  \E e \in AsmSpots(ms) \cup CSpots(ms) \cup MapSpots(p.symbols) :
               e.key = k /\ e.addr = AddrByFileLine(ms, p.symbols)[k]
<1> DEFINE R == Range(p.records)
           ms == Parse(p.records)
           symbols1 == p.symbols
           all == Entries(ms)
           entry(x) == {i \in DOMAIN all : all[i].key = x}
           marks(x) == {i \in Markers(symbols1) : MarkerKey(symbols1[i]) = x}
           keys == {all[i].key : i \in DOMAIN all}
                     \cup {MarkerKey(symbols1[i]) : i \in Markers(symbols1)}
           value(x) == IF entry(x) # {} THEN all[First(entry(x))].addr
                       ELSE symbols1[First(marks(x))].addr
<1>1. all \in Seq(AsmSpots(ms) \cup CSpots(ms))
  BY ProgramModules, EntriesTyped
<1>2. AddrByFileLine(ms, symbols1) = [x \in keys |-> value(x)]
  BY Zenon DEF AddrByFileLine
<1> HIDE DEF all
<1>3. /\ DOMAIN all \subseteq Nat
      /\ \A i \in DOMAIN all : all[i] \in AsmSpots(ms) \cup CSpots(ms)
  BY <1>1, Places
<1>4. Markers(symbols1) \subseteq Nat
  BY ProgramAssumption DEF Markers
<1> SUFFICES \E e \in AsmSpots(ms) \cup CSpots(ms) \cup MapSpots(symbols1) :
               e.key = k /\ e.addr = value(k)
  BY <1>2
<1>5. k \in keys
  BY <1>2
<1>6. CASE entry(k) # {}
  <2>1. entry(k) \subseteq Nat
    BY <1>3
  <2>2. First(entry(k)) \in entry(k)
    <3> HIDE DEF entry
    <3> QED  BY <1>6, <2>1, FirstIsLeast
  <2> DEFINE i == First(entry(k))
  <2>3. i \in DOMAIN all /\ all[i].key = k /\ value(k) = all[i].addr
    BY <1>6, <2>2
  <2> HIDE DEF i, value
  <2> QED  BY <1>3, <2>3
<1>7. CASE entry(k) = {}
  <2>1. marks(k) # {} /\ marks(k) \subseteq Nat
    BY <1>4, <1>5, <1>7
  <2>2. First(marks(k)) \in marks(k)
    <3> HIDE DEF marks
    <3> QED  BY <2>1, FirstIsLeast
  <2> DEFINE i == First(marks(k))
  <2>3. i \in Markers(symbols1) /\ MarkerKey(symbols1[i]) = k /\ value(k) = symbols1[i].addr
    BY <1>7, <2>2
  <2> HIDE DEF i, value
  <2>4. Entry(MarkerKey(symbols1[i]), symbols1[i].addr) \in MapSpots(symbols1)
    BY <2>3 DEF MapSpots
  <2> QED  BY <2>3, <2>4 DEF Entry
<1> QED  BY <1>6, <1>7

(* Lines begin at addresses. *)
LEMMA SpotsTyped ==
  ASSUME NEW p \in Programs
  PROVE  LET ms == Parse(p.records)
         IN  \A e \in AsmSpots(ms) \cup CSpots(ms) \cup MapSpots(p.symbols) : e.addr \in Addr
<1> DEFINE R == Range(p.records)
           ms == Parse(p.records)
<1>1. ASSUME NEW i \in DOMAIN ms
      PROVE  \A r \in ms[i].asm \cup Range(ms[i].lines) : r.addr \in Addr
  <2>1. ms[i] \in CdbModules(R)
    BY ProgramModules, Places
  <2>2. ms[i].asm \subseteq ALines(R) /\ ms[i].lines \in Seq(CLines(R))
    BY <2>1, Changed
  <2>3. Range(ms[i].lines) \subseteq CLines(R)
    BY <2>2, Places
  <2> QED  BY <2>2, <2>3, ProgramModules
<1> HIDE DEF ms
<1>2. \A e \in AsmSpots(ms) : e.addr \in Addr
  <2> TAKE e \in AsmSpots(ms)
  <2>1. PICK i \in DOMAIN ms :
          e \in {Entry(Key(ms[i].name, "", r.line), r.addr) : r \in ms[i].asm}
    BY DEF AsmSpots
  <2>2. PICK r \in ms[i].asm : e = Entry(Key(ms[i].name, "", r.line), r.addr)
    BY <2>1
  <2> QED  BY <1>1, <2>2 DEF Entry
<1>3. \A e \in CSpots(ms) : e.addr \in Addr
  BY <1>1 DEF CSpots, Entry
<1>4. \A e \in MapSpots(p.symbols) : e.addr \in Addr
  BY ProgramAssumption DEF MapSpots, Entry, Markers
<1> QED  BY <1>2, <1>3, <1>4 DEF ms

(* The index holds addresses. *)
LEMMA IndexTyped ==
  ASSUME NEW p \in Programs
  PROVE  LET index1 == AddrByFileLine(Parse(p.records), p.symbols)
         IN  \A k \in DOMAIN index1 : index1[k] \in Addr
BY IndexFinds, SpotsTyped

-----------------------------------------------------------------------------
(* f is what build_full_listing lists from each address on. *)
IsListingFrom(f, length) ==
  f = [a \in Nat |-> IF a >= AddrSpace THEN << >>
                     ELSE <<a>> \o f[a + (IF length[a] <= 0 THEN 1 ELSE length[a])]]

(* An instruction leads to a later address. *)
LEMMA NextAddress ==
  ASSUME NEW p \in Programs, NEW a \in Nat, a < AddrSpace
  PROVE  LET b == a + (IF p.length[a] <= 0 THEN 1 ELSE p.length[a])
         IN  a \in Addr /\ b \in Nat /\ b >= a + 1
<1>1. AddrSpace \in Nat /\ a \in Addr
  BY AddrAssumption DEF Addr
<1>2. p.length[a] \in Int
  BY <1>1, ProgramAssumption
<1> QED  BY <1>1, <1>2

(* The listing is defined from its end. *)
LEMMA ListingExists ==
  ASSUME NEW p \in Programs
  PROVE  \E f : IsListingFrom(f, p.length)
<1> DEFINE next(a) == a + (IF p.length[a] <= 0 THEN 1 ELSE p.length[a])
           S == [Nat -> Seq(Addr)]
           none == [a \in Nat |-> << >>]
           Next1(f) == [a \in Nat |-> IF a >= AddrSpace THEN << >> ELSE <<a>> \o f[next(a)]]
           step == [q \in S \X Nat |-> Next1(q[1])]
<1>1. /\ AddrSpace \in Nat
      /\ \A a \in Nat : a < AddrSpace => a \in Addr /\ next(a) \in Nat /\ next(a) >= a + 1
  BY NextAddress, AddrAssumption
<1>0. \A a \in Nat : a >= AddrSpace \/ a < AddrSpace
  BY <1>1
<1> HIDE DEF next
<1>2. none \in S
  OBVIOUS
<1>3. \A f \in S : Next1(f) \in S
  <2> TAKE f \in S
  <2>1. ASSUME NEW a \in Nat
        PROVE  (IF a >= AddrSpace THEN << >> ELSE <<a>> \o f[next(a)]) \in Seq(Addr)
    <3>1. CASE a < AddrSpace
      <4>1. next(a) \in Nat /\ a \in Addr
        BY <1>1, <3>1
      <4>2. f[next(a)] \in Seq(Addr) /\ <<a>> \in Seq(Addr)
        BY <4>1
      <4>3. <<a>> \o f[next(a)] \in Seq(Addr)
        BY <4>2
      <4> QED  BY <1>1, <3>1, <4>3
    <3>2. CASE ~(a < AddrSpace)
      BY <1>1, <3>2
    <3> QED  BY <3>1, <3>2
  <2> QED  BY <2>1
<1>4. \A f \in S, k \in Nat : step[<<f, k>>] = Next1(f)
  OBVIOUS
<1> HIDE DEF step
<1>5. \A f \in S, k \in Nat : step[<<f, k>>] \in S
  BY <1>3, <1>4
<1> HIDE DEF none
<1> HIDE DEF S, Next1
<1>6. PICK H \in [Nat -> S] : IsRecursion(H, none, step)
  BY <1>2, <1>5, RecursionExists
<1>7. \A k \in Nat, a \in Nat :
        H[k + 1][a] = IF a >= AddrSpace THEN << >> ELSE <<a>> \o H[k][next(a)]
  <2> TAKE k \in Nat, a \in Nat
  <2>1. k + 1 \in Nat \ {0} /\ k + 1 - 1 = k
    OBVIOUS
  <2>2. H[k + 1] = step[<<H[k], k + 1>>]
    <3>1. \A i \in Nat \ {0} : H[i] = step[<<H[i - 1], i>>]
      BY <1>6 DEF IsRecursion
    <3> QED  BY <2>1, <3>1
  <2>3. H[k + 1] = Next1(H[k])
    BY <1>4, <2>1, <2>2
  <2> QED  BY <2>3 DEF Next1
<1>8. \A a \in Nat : H[0][a] = << >>
  BY <1>6 DEF IsRecursion, none
(* After k steps it is right in the last k places of memory. *)
<1> DEFINE Right(k) == \A a \in Nat : a + k >= AddrSpace => H[k + 1][a] = H[k][a]
           P == {k \in Nat : Right(k)}
<1>9. Right(0)
  <2> SUFFICES ASSUME NEW a \in Nat, a >= AddrSpace PROVE H[0 + 1][a] = H[0][a]
    BY <1>1
  <2> QED  BY <1>7, <1>8
<1>10. ASSUME NEW k \in Nat, Right(k) PROVE Right(k + 1)
  <2> SUFFICES ASSUME NEW a \in Nat, a + (k + 1) >= AddrSpace
               PROVE  H[k + 1 + 1][a] = H[k + 1][a]
    OBVIOUS
  <2>1. CASE a >= AddrSpace
    <3>1. k + 1 \in Nat
      OBVIOUS
    <3> QED  BY <1>7, <2>1, <3>1
  <2>2. CASE a < AddrSpace
    <3>1. next(a) \in Nat /\ next(a) + k >= AddrSpace
      BY <1>1, <2>2
    <3>2. H[k + 1][next(a)] = H[k][next(a)]
      BY <1>10, <3>1
    <3>3. ~(a >= AddrSpace) /\ k + 1 \in Nat
      BY <1>1, <2>2
    <3>4. H[k + 1][a] = <<a>> \o H[k][next(a)]
      BY <1>7, <3>3
    <3>5. H[k + 1 + 1][a] = <<a>> \o H[k + 1][next(a)]
      BY <1>7, <3>3
    <3> QED  BY <3>2, <3>4, <3>5
  <2> QED  BY <1>0, <2>1, <2>2
<1> HIDE DEF Right
<1>11. Right(AddrSpace)
  <2>1. 0 \in P /\ \A k \in Nat : k \in P => k + 1 \in P
    BY <1>9, <1>10
  <2> HIDE DEF P
  <2>2. AddrSpace \in P
    BY <1>1, <2>1, Induction
  <2> QED  BY <2>2 DEF P
<1>12. H[AddrSpace] = [a \in Nat |-> IF a >= AddrSpace THEN << >>
                                     ELSE <<a>> \o H[AddrSpace][next(a)]]
  <2>1. \A a \in Nat : H[AddrSpace + 1][a] = H[AddrSpace][a]
    BY <1>1, <1>11 DEF Right
  <2>2. \A a \in Nat : H[AddrSpace][a] = IF a >= AddrSpace THEN << >>
                                         ELSE <<a>> \o H[AddrSpace][next(a)]
    BY <1>1, <1>7, <2>1
  <2>3. H[AddrSpace] = [a \in Nat |-> H[AddrSpace][a]]
    BY <1>1 DEF S
  <2> QED  BY <2>2, <2>3
<1> QED  BY <1>12 DEF IsListingFrom, next

(* build_full_listing lists addresses only. *)
LEMMA ListingTyped ==
  ASSUME NEW p \in Programs
  PROVE  \A i \in DOMAIN Listing(p.length) : Listing(p.length)[i] \in Addr
<1> DEFINE next(a) == a + (IF p.length[a] <= 0 THEN 1 ELSE p.length[a])
<1>1. PICK f : IsListingFrom(f, p.length) /\ Listing(p.length) = f[0]
  <2>1. PICK f : f = [a \in Nat |-> IF a >= AddrSpace THEN << >>
                        ELSE <<a>> \o f[a + (IF p.length[a] <= 0 THEN 1 ELSE p.length[a])]]
    BY ListingExists DEF IsListingFrom
  <2> QED  BY <2>1, Zenon DEF Listing, IsListingFrom
<1>2. \A a \in Nat : f[a] = IF a >= AddrSpace THEN << >> ELSE <<a>> \o f[next(a)]
  BY <1>1 DEF IsListingFrom
<1>3. /\ AddrSpace \in Nat
      /\ \A a \in Nat : a < AddrSpace => a \in Addr /\ next(a) \in Nat /\ next(a) >= a + 1
  BY NextAddress, AddrAssumption
<1>0. \A a \in Nat : a >= AddrSpace \/ a < AddrSpace
  BY <1>3
<1> HIDE DEF next
<1>4. \A a \in Nat : a >= AddrSpace => f[a] \in Seq(Addr)
  <2>1. << >> \in Seq(Addr)  OBVIOUS
  <2> QED  BY <1>2, <2>1
<1> DEFINE Right(k) == \A a \in Nat : a + k >= AddrSpace => f[a] \in Seq(Addr)
           P == {k \in Nat : Right(k)}
<1>6. Right(0)
  BY <1>3, <1>4
<1>7. ASSUME NEW k \in Nat, Right(k) PROVE Right(k + 1)
  <2> SUFFICES ASSUME NEW a \in Nat, a + (k + 1) >= AddrSpace, a < AddrSpace
               PROVE  f[a] \in Seq(Addr)
    BY <1>0, <1>4
  <2>1. a \in Addr /\ next(a) \in Nat /\ next(a) + k >= AddrSpace /\ ~(a >= AddrSpace)
    BY <1>3
  <2>2. f[next(a)] \in Seq(Addr) /\ <<a>> \in Seq(Addr)
    BY <1>7, <2>1
  <2>3. f[a] = <<a>> \o f[next(a)]
    BY <1>2, <2>1
  <2> QED  BY <2>2, <2>3, ConcatProperties
<1> HIDE DEF Right
<1>8. Right(AddrSpace)
  <2>1. 0 \in P /\ \A k \in Nat : k \in P => k + 1 \in P
    BY <1>6, <1>7
  <2> HIDE DEF P
  <2>2. AddrSpace \in P
    BY <1>3, <2>1, Induction
  <2> QED  BY <2>2 DEF P
<1>9. f[0] \in Seq(Addr)
  BY <1>3, <1>8 DEF Right
<1> QED  BY <1>1, <1>9, Places

-----------------------------------------------------------------------------
(* The addresses a name or a line can stand for are the program's. *)
TypeInv ==
  /\ TypeOK
  /\ \A k \in DOMAIN index : index[k] \in Addr
  /\ \A i \in DOMAIN symbols : i \in Nat /\ symbols[i].addr \in Addr

(* A lookup gives an address or none. *)
LEMMA LookupsTyped ==
  ASSUME TypeInv
  PROVE  /\ \A f, lines : Resolved(index, f, lines) \subseteq Addr
         /\ \A files : Sources(index, files) \subseteq Addr
         /\ \A n : LookupFunctionAddress(symbols, n) \in Addr \cup {NoAddr}
<1>1. \A f, l : LookupAddress(index, f, l) \in Addr \cup {NoAddr}
  BY DEF TypeInv, LookupAddress
<1>2. \A f, lines : Resolved(index, f, lines) \subseteq Addr
  BY <1>1 DEF Resolved
<1>3. \A files : Sources(index, files) \subseteq Addr
  BY <1>2 DEF Sources
<1>4. ASSUME NEW n PROVE LookupFunctionAddress(symbols, n) \in Addr \cup {NoAddr}
  <2> DEFINE found == {i \in DOMAIN symbols : symbols[i].kind = "F" /\ n \in symbols[i].names}
  <2>1. found \subseteq Nat /\ found \subseteq DOMAIN symbols
    BY DEF TypeInv
  <2>2. LookupFunctionAddress(symbols, n) = IF found = {} THEN NoAddr ELSE symbols[First(found)].addr
    BY DEF LookupFunctionAddress
  <2> HIDE DEF found
  <2>3. found # {} => First(found) \in DOMAIN symbols
    BY <2>1, FirstIsLeast
  <2> QED  BY <2>2, <2>3 DEF TypeInv
<1> QED  BY <1>2, <1>3, <1>4

(* Every step keeps them so. *)
LEMMA TypesHold == Spec => []TypeInv
<1>1. Init => TypeInv
  <2>1. Init => loaded \in BOOLEAN
    BY Zenon DEF Init
  <2> QED  BY <2>1, BoundAssumption DEF Init, TypeInv, TypeOK, Listings
<1>2. TypeInv /\ [Next]_vars => TypeInv'
  <2> SUFFICES ASSUME TypeInv, [Next]_vars PROVE TypeInv'
    OBVIOUS
  <2>1. ASSUME NEW f \in Files, NEW lines \in LineSets, SetListing(f, lines) PROVE TypeInv'
    <3>1. asmBps' \subseteq Addr
      BY <2>1 DEF SetListing, TypeInv, TypeOK
    <3> QED  BY <2>1, <3>1 DEF SetListing, Merge, Answer, program, TypeInv, TypeOK
  <2>2. ASSUME NEW f \in Files, NEW lines \in LineSets, SetSource(f, lines) PROVE TypeInv'
    <3>1. index' = index /\ sourceBps' = Sources(index, byFile')
      BY <2>2 DEF SetSource, RebuildSource, program
    <3>2. sourceBps' \subseteq Addr
      BY <3>1, LookupsTyped
    <3>3. DOMAIN byFile' \subseteq Files
      BY <2>2 DEF SetSource, Stored, TypeInv, TypeOK
    <3> QED
      BY <2>2, <3>2, <3>3 DEF SetSource, RebuildSource, Merge, Answer, program, TypeInv, TypeOK
  <2>3. ASSUME NEW names \in FunctionSets, SetFunctions(names) PROVE TypeInv'
    <3>1. functionBps' \subseteq Addr
      BY <2>3, LookupsTyped DEF SetFunctions
    <3> QED  BY <2>3, <3>1 DEF SetFunctions, Merge, Answer, program, TypeInv, TypeOK
  <2>4. ASSUME NEW refs \in ReferenceSets, SetInstructions(refs) PROVE TypeInv'
    <3>1. \A r \in Range(refs) \ {Unparsable} : r \in Nat
      BY ReferenceAssumption
    <3>2. AddrSpace \in Nat \ {0} /\ \A r \in Nat : r % AddrSpace \in Addr
      BY AddrAssumption DEF Addr
    <3>3. instructionBps' \subseteq Addr
      BY <2>4, <3>1, <3>2 DEF SetInstructions
    <3> QED  BY <2>4, <3>3 DEF SetInstructions, Merge, Answer, program, TypeInv, TypeOK
  <2>5. ASSUME NEW p \in Programs, LaunchProgram(p) PROVE TypeInv'
    <3>1. \A k \in DOMAIN index' : index'[k] \in Addr
      BY <2>5, IndexTyped DEF LaunchProgram
    <3>2. \A i \in DOMAIN symbols' : i \in Nat /\ symbols'[i].addr \in Addr
      BY <2>5, ProgramAssumption DEF LaunchProgram
    <3>3. \A i \in DOMAIN listing' : listing'[i] \in Addr
      BY <2>5, ListingTyped DEF LaunchProgram
    <3>4. \A f, lines : Resolved(index', f, lines) \subseteq Addr
      <4>1. \A f, l : LookupAddress(index', f, l) \in Addr \cup {NoAddr}
        BY <3>1 DEF LookupAddress
      <4> QED  BY <4>1 DEF Resolved
    <3>5. sourceBps' \subseteq Addr
      BY <2>5, <3>4 DEF LaunchProgram, RebuildSource, Sources
    <3>6. launches' \in 0..MaxLaunches /\ virtual' \in Listings
      BY <2>5, BoundAssumption DEF LaunchProgram, TypeInv, TypeOK, Listings
    <3>7. allBps' = sourceBps' \cup instructionBps' \cup functionBps' \cup asmBps'
          /\ UNCHANGED <<byFile, instructionBps, functionBps, asmBps, wanted>>
          /\ DOMAIN verified' = ListIds
      BY <2>5 DEF LaunchProgram, RebuildSource, Merge
    <3>8. loaded' \in BOOLEAN
      BY <2>5, Zenon DEF LaunchProgram
    <3> QED  BY <3>1, <3>2, <3>3, <3>5, <3>6, <3>7, <3>8 DEF TypeInv, TypeOK
  <2>6. CASE LaunchNothing
    <3>1. launches' \in 0..MaxLaunches /\ virtual' \in Listings
      BY <2>6, BoundAssumption DEF LaunchNothing, TypeInv, TypeOK, Listings
    <3>2. loaded' \in BOOLEAN
      BY <2>6, Zenon DEF LaunchNothing
    <3> QED  BY <2>6, <3>1, <3>2 DEF LaunchNothing, lists, TypeInv, TypeOK
  <2>7. CASE ShowListing
    <3>1. \A i \in DOMAIN listing' : listing'[i] \in Addr
      BY <2>7, AddrAssumption DEF ShowListing, Addr
    <3> QED  BY <2>7, <3>1 DEF ShowListing, lists, TypeInv, TypeOK
  <2>8. CASE UNCHANGED vars
    BY <2>8 DEF vars, program, lists, TypeInv, TypeOK
  <2> QED  BY <2>1, <2>2, <2>3, <2>4, <2>5, <2>6, <2>7, <2>8 DEF Next
<1> QED  BY <1>1, <1>2, PTL DEF Spec

(* Every armed address is one of the Z80's, whatever is launched and asked *)
(* for (cdb_parser.cpp:287, 318, dbg.cpp:273, 361, z80_target.cpp:512).    *)
THEOREM BreakpointsTypeCorrect == Spec => []TypeOK
<1>1. TypeInv => TypeOK
  BY DEF TypeInv
<1> QED  BY <1>1, TypesHold, PTL

-----------------------------------------------------------------------------
(* The functions of a program one after another are those it declares. *)
LEMMA AllFunctions ==
  ASSUME NEW p \in Programs
  PROVE  LET ms  == Parse(p.records)
             all == FlattenSeq([i \in DOMAIN ms |-> ms[i].functions])
         IN  /\ DOMAIN all = 1..Len(all) /\ Len(all) \in Nat
             /\ Range(all) = DeclaredIn(ms)
<1> DEFINE R == Range(p.records)
           ms == Parse(p.records)
           parts == [i \in DOMAIN ms |-> ms[i].functions]
<1>1. DOMAIN ms = 1..Len(ms) /\ Len(ms) \in Nat /\ \A i \in DOMAIN ms : ms[i] \in CdbModules(R)
  BY ProgramModules, Places
<1>2. \A i \in DOMAIN ms : ms[i].functions \in Seq(CdbFunctions(R))
  BY <1>1, Changed
<1>3. parts \in [1..Len(ms) -> Seq(CdbFunctions(R))]
  BY <1>1, <1>2
<1>4. parts \in Seq(Seq(CdbFunctions(R)))
  BY <1>1, <1>3, SeqDef
<1>5. UNION {Range(parts[i]) : i \in DOMAIN parts} = DeclaredIn(ms)
  BY DEF DeclaredIn
<1> HIDE DEF parts
<1>6. LET all == FlattenSeq(parts)
      IN  DOMAIN all = 1..Len(all) /\ Len(all) \in Nat /\ Range(all) = DeclaredIn(ms)
  BY <1>4, <1>5, Together
<1> QED  BY <1>6 DEF parts

(* Where functions enclose an address one of them is shown. *)
LEMMA EnclosingShown ==
  ASSUME NEW p \in Programs, NEW symbs, NEW addr,
         NEW f \in DeclaredIn(Parse(p.records)), Encloses(f, addr)
  PROVE  LET g == FunctionAt(Parse(p.records), symbs, addr)
         IN  g \in DeclaredIn(Parse(p.records)) /\ Encloses(g, addr)
<1> DEFINE ms == Parse(p.records)
           all == FlattenSeq([i \in DOMAIN ms |-> ms[i].functions])
           inRange == {k \in DOMAIN all : Encloses(all[k], addr)}
<1>1. DOMAIN all = 1..Len(all) /\ Len(all) \in Nat /\ Range(all) = DeclaredIn(ms)
  BY AllFunctions
<1>2. inRange # {} => FunctionAt(ms, symbs, addr) = all[First(inRange)]
  BY Zenon DEF FunctionAt
<1> HIDE DEF all
<1>3. PICK i \in DOMAIN all : all[i] = f
  BY <1>1 DEF Range
<1>4. i \in inRange /\ inRange \subseteq Nat
  BY <1>1, <1>3
<1>5. First(inRange) \in inRange
  <2> HIDE DEF inRange
  <2> QED  BY <1>4, FirstIsLeast
<1>6. First(inRange) \in DOMAIN all /\ Encloses(all[First(inRange)], addr)
  BY <1>5
<1>7. all[First(inRange)] \in DeclaredIn(ms)
  BY <1>1, <1>6 DEF Range
<1> QED  BY <1>2, <1>4, <1>6, <1>7

(* A function encloses the addresses between its markers. *)
LEMMA BetweenMarkers ==
  ASSUME NEW p \in Programs, InOrder(p.records), NEW f \in DeclaredIn(Parse(p.records)),
         NEW addr \in Addr
  PROVE  /\ f.name \in FunctionNames(p.records)
         /\ Encloses(f, addr) <=> Inside(p.records, f.name, addr)
<1> DEFINE rec == p.records
           ms == Parse(rec)
<1>1. rec \in Seq(Range(rec)) /\ DOMAIN rec = 1..Len(rec)
      /\ \A r \in Range(rec) : r.kind = "L" => r.addr \in Addr
  BY ProgramAssumption, Places DEF Range
<1>2. PICK i \in DOMAIN ms : \E n \in DOMAIN ms[i].functions : f = ms[i].functions[n]
  BY DEF DeclaredIn, Range
<1>3. PICK n \in DOMAIN ms[i].functions : f = ms[i].functions[n]
  BY <1>2
<1>4. f.name \in FunctionNames(rec)
  <2>1. PICK j \in DOMAIN rec : rec[j].kind = "F" /\ rec[j].name = f.name
    <3> HIDE DEF ms
    <3> QED  BY <1>1, <1>3, ParseSaid DEF ms
  <2> QED  BY <2>1 DEF FunctionNames, Range
<1>5. MarkersSaid(rec, Len(rec), ms)
  BY <1>1, ParseSaid
<1> HIDE DEF ms
<1>6. \A r \in Range(rec) : IsMarker(r, f.name) =>
        /\ r.isEnd => f.end = r.addr
        /\ ~r.isEnd => f.start = r.addr
  BY <1>1, <1>3, <1>5 DEF MarkersSaid, Range
<1>7. f.start # Unset =>
        \E r \in Range(rec) : IsMarker(r, f.name) /\ ~r.isEnd /\ f.start = r.addr
  BY <1>1, <1>3, <1>5 DEF MarkersSaid, Range
<1>8. \A r \in Range(rec) : IsMarker(r, f.name) /\ ~r.isEnd =>
        \E s \in Range(rec) : IsMarker(s, f.name) /\ s.isEnd /\ s.addr # Unset
  BY <1>4 DEF InOrder, IsMarker
<1>9. ASSUME Encloses(f, addr) PROVE Inside(rec, f.name, addr)
  <2>1. PICK r \in Range(rec) : IsMarker(r, f.name) /\ ~r.isEnd /\ f.start = r.addr
    BY <1>7, <1>9 DEF Encloses
  <2>2. PICK s \in Range(rec) : IsMarker(s, f.name) /\ s.isEnd /\ s.addr # Unset
    BY <1>8, <2>1
  <2>3. r.addr <= addr /\ addr < s.addr
    BY <1>6, <1>9, <2>1, <2>2 DEF Encloses
  <2> QED  BY <2>1, <2>2, <2>3 DEF Inside, IsMarker
<1>10. ASSUME Inside(rec, f.name, addr) PROVE Encloses(f, addr)
  <2>1. PICK r \in Range(rec), s \in Range(rec) :
          /\ IsMarker(r, f.name) /\ ~r.isEnd /\ r.addr <= addr
          /\ IsMarker(s, f.name) /\ s.isEnd /\ addr < s.addr
    BY <1>10 DEF Inside, IsMarker
  <2>2. f.start = r.addr /\ f.end = s.addr
    BY <1>6, <2>1
  <2>3. r.addr \in Addr /\ s.addr \in Addr
    BY <1>1, <2>1 DEF IsMarker
  <2> QED  BY <2>1, <2>2, <2>3, AddrAssumption DEF Encloses, Addr, Unset
<1> QED  BY <1>4, <1>9, <1>10

(* The function at the MAP symbol of a function is that function. *)
LEMMA FunctionFound ==
  ASSUME MarkersAgree, NEW p \in Programs, InOrder(p.records),
         NEW f \in DeclaredIn(Parse(p.records)),
         \A n : LookupFunctionAddress(p.symbols, n) \in Addr \cup {NoAddr},
         LookupFunctionAddress(p.symbols, f.name) # NoAddr
  PROVE  FunctionAt(Parse(p.records), p.symbols, LookupFunctionAddress(p.symbols, f.name)).name
           = f.name
<1> DEFINE ms == Parse(p.records)
           all == FlattenSeq([i \in DOMAIN ms |-> ms[i].functions])
           symbol(k) == LookupFunctionAddress(p.symbols, all[k].name)
           addr == LookupFunctionAddress(p.symbols, f.name)
           inRange == {k \in DOMAIN all : Encloses(all[k], addr)}
           below == {k \in DOMAIN all : symbol(k) # NoAddr /\ symbol(k) <= addr}
           IsNearest(k) == \A j \in below :
                             symbol(j) < symbol(k) \/ (symbol(j) = symbol(k) /\ j <= k)
           nearest == CHOOSE k \in below : IsNearest(k)
<1>1. DOMAIN all = 1..Len(all) /\ Len(all) \in Nat /\ Range(all) = DeclaredIn(ms)
  BY AllFunctions
<1>2. FunctionAt(ms, p.symbols, addr) =
        IF inRange # {} THEN all[First(inRange)]
        ELSE IF below # {} THEN all[nearest] ELSE NoFunction
  BY Zenon DEF FunctionAt
<1> HIDE DEF all
<1>3. \A k \in DOMAIN all : all[k] \in DeclaredIn(ms)
  BY <1>1 DEF Range
<1>4. addr \in Addr /\ addr \in Nat /\ \A k : symbol(k) # NoAddr => symbol(k) \in Nat
  BY DEF Addr
<1>5. ASSUME NEW g \in DeclaredIn(ms),
             Encloses(g, addr) \/ LookupFunctionAddress(p.symbols, g.name) = addr
      PROVE  g.name = f.name
  <2>1. f.name \in FunctionNames(p.records) /\ g.name \in FunctionNames(p.records)
        /\ (Encloses(g, addr) => Inside(p.records, g.name, addr))
    BY <1>4, BetweenMarkers
  <2> QED  BY <1>5, <2>1 DEF MarkersAgree
<1>6. CASE inRange # {}
  <2>1. PICK k \in DOMAIN all : Encloses(all[k], addr)
    BY <1>6
  <2>2. LET g == FunctionAt(ms, p.symbols, addr) IN g \in DeclaredIn(ms) /\ Encloses(g, addr)
    BY <1>3, <2>1, EnclosingShown
  <2> QED  BY <1>5, <2>2
<1>7. CASE inRange = {}
  <2> DEFINE T == {k \in below : symbol(k) = addr}
  <2>1. PICK i \in DOMAIN all : all[i] = f
    BY <1>1 DEF Range
  <2>2. i \in T
    BY <1>4, <2>1
  <2>3. T \subseteq Nat /\ \A k \in T : k <= Len(all)
    BY <1>1
  <2>4. Max(T) \in T /\ \A k \in T : k <= Max(T)
    <3> HIDE DEF T
    <3> QED  BY <1>1, <2>2, <2>3, MaxIsGreatest
  <2>5. IsNearest(Max(T))
    <3> TAKE j \in below
    <3>1. symbol(Max(T)) = addr
      BY <2>4
    <3>2. symbol(j) \in Nat /\ symbol(j) <= addr
      BY <1>4
    <3>3. symbol(j) = addr => j <= Max(T)
      BY <2>4
    <3>4. symbol(j) < addr \/ symbol(j) = addr
      <4> HIDE DEF addr, symbol
      <4> QED  BY <1>4, <3>2
    <3> QED  BY <3>1, <3>3, <3>4
  <2>6. nearest \in below /\ IsNearest(nearest)
    <3>1. Max(T) \in below
      BY <2>4
    <3> HIDE DEF below, IsNearest, T
    <3> QED  BY <2>5, <3>1
  <2>7. symbol(nearest) = addr
    <3>1. symbol(i) = addr /\ i \in below
      BY <2>2
    <3>2. addr < symbol(nearest) \/ addr = symbol(nearest)
      BY <2>6, <3>1
    <3>3. symbol(nearest) \in Nat /\ symbol(nearest) <= addr
      BY <1>4, <2>6
    <3> HIDE DEF addr, symbol, nearest
    <3> QED  BY <1>4, <3>2, <3>3
  <2>8. nearest \in DOMAIN all
    BY <2>6
  <2> HIDE DEF nearest
  <2>9. all[nearest].name = f.name
    BY <1>3, <1>5, <2>7, <2>8
  <2> QED  BY <1>2, <1>7, <2>2, <2>9
<1> QED  BY <1>6, <1>7

(* What is loaded comes from one program, or from none. *)
FromProgram ==
  \/ ~loaded /\ modules = << >> /\ symbols = << >> /\ index = << >>
  \/ \E p \in Programs : /\ modules = Parse(p.records) /\ symbols = p.symbols
                         /\ index = AddrByFileLine(modules, symbols)
                         /\ virtual = p.virtual

(* launch replaces all that is known of the program. *)
LEMMA LoadedTogether == Spec => []FromProgram
<1>1. Init => FromProgram
  BY DEF Init, FromProgram
<1>2. FromProgram /\ [Next]_vars => FromProgram'
  <2> SUFFICES ASSUME FromProgram, [Next]_vars PROVE FromProgram'
    OBVIOUS
  <2>1. CASE \E p \in Programs : LaunchProgram(p)
    BY <2>1 DEF LaunchProgram, FromProgram
  <2>2. CASE LaunchNothing
    BY <2>2 DEF LaunchNothing, FromProgram
  <2>3. CASE UNCHANGED program
    BY <2>3 DEF program, FromProgram
  <2>4. CASE UNCHANGED vars
    BY <2>3, <2>4 DEF vars
  <2> QED
    BY <2>1, <2>2, <2>3, <2>4
       DEF Next, SetListing, SetSource, SetFunctions, SetInstructions, ShowListing, FromProgram
<1> QED  BY <1>1, <1>2, PTL DEF Spec

(* If the records of the CDB are in order, and the MAP file agrees with it *)
(* on where functions are, a stop at a breakpoint set on a function is in  *)
(* that function (dbg.cpp:356-372, 603-633).                               *)
THEOREM FunctionStopsAreInIt ==
  RecordsInOrder /\ MarkersAgree => (Spec => []StopInFunction)
<1> SUFFICES ASSUME RecordsInOrder, MarkersAgree PROVE Spec => []StopInFunction
  OBVIOUS
<1>1. TypeInv /\ FromProgram => StopInFunction
  <2> SUFFICES ASSUME TypeInv, FromProgram,
                      NEW n \in Range(wanted[Functions]),
                      LookupFunctionAddress(symbols, n) # NoAddr,
                      n \in {f.name : f \in DeclaredIn(modules)}
               PROVE  FunctionAt(modules, symbols, LookupFunctionAddress(symbols, n)).name = n
    BY DEF StopInFunction, DeclaredIn
  <2>1. PICK f \in DeclaredIn(modules) : f.name = n
    OBVIOUS
  <2>2. PICK p \in Programs : modules = Parse(p.records) /\ symbols = p.symbols
    <3>1. modules # << >>
      BY <2>1 DEF DeclaredIn
    <3> QED  BY <3>1 DEF FromProgram
  <2>3. \A x : LookupFunctionAddress(p.symbols, x) \in Addr \cup {NoAddr}
    BY <2>2, LookupsTyped
  <2> QED  BY <2>1, <2>2, <2>3, FunctionFound DEF RecordsInOrder
<1> QED  BY <1>1, TypesHold, LoadedTogether, PTL

(* The globals shown are those the records declare. *)
LEMMA GlobalsShown ==
  ASSUME NEW rec, NEW ms, GlobalsSaid(rec, Len(rec), ms), DOMAIN rec = 1..Len(rec)
  PROVE  Globals(ms) = {r \in Range(rec) : IsGlobal(r) /\ ~r.ofFunction}
<1> DEFINE vs == UNION {Range(ms[i].globals) : i \in DOMAIN ms}
<1>1. ASSUME NEW v \in vs PROVE v \in Range(rec) /\ IsGlobal(v)
  <2>1. PICK i \in DOMAIN ms : \E w \in DOMAIN ms[i].globals : v = ms[i].globals[w]
    BY DEF Range
  <2> QED  BY <2>1 DEF GlobalsSaid, Range
<1>2. ASSUME NEW v \in Range(rec), IsGlobal(v) PROVE v \in vs
  <2>1. PICK j \in DOMAIN rec : v = rec[j]
    BY DEF Range
  <2>2. PICK i \in DOMAIN ms : \E w \in DOMAIN ms[i].globals : ms[i].globals[w] = v
    BY <1>2, <2>1 DEF GlobalsSaid
  <2> QED  BY <2>2 DEF Range
<1>3. Globals(ms) = {v \in vs : ~v.ofFunction}
  BY DEF Globals
<1> HIDE DEF vs
<1> QED  BY <1>1, <1>2, <1>3

(* The locals shown between the markers of a function are those the        *)
(* records declare for it.                                                 *)
LEMMA LocalsShown ==
  ASSUME NEW p \in Programs, InOrder(p.records), NEW symbs, NEW addr \in Addr,
         NEW name \in FunctionNames(p.records), Inside(p.records, name, addr)
  PROVE  Range(Locals(Parse(p.records), symbs, addr)) =
           {r \in Range(p.records) : IsLocal(r, name)}
<1> DEFINE rec == p.records
           ms == Parse(rec)
           g == FunctionAt(ms, symbs, addr)
<1>1. rec \in Seq(Range(rec)) /\ DOMAIN rec = 1..Len(rec)
  BY ProgramAssumption, Places
<1>2. \E i \in DOMAIN ms : \E n \in DOMAIN ms[i].functions : ms[i].functions[n].name = name
  <2>1. PICK j \in DOMAIN rec : rec[j].kind = "F" /\ rec[j].name = name
    BY DEF FunctionNames, Range
  <2> QED  BY <1>1, <2>1, ParseSaid
<1>3. PICK f \in DeclaredIn(ms) : f.name = name
  BY <1>2 DEF DeclaredIn, Range
<1>4. Encloses(f, addr)
  BY <1>3, BetweenMarkers
<1>5. g \in DeclaredIn(ms) /\ Encloses(g, addr)
  BY <1>4, EnclosingShown
<1>6. g.name = name
  <2>1. g.name \in FunctionNames(rec) /\ Inside(rec, g.name, addr)
    BY <1>5, BetweenMarkers
  <2> QED  BY <2>1 DEF InOrder
<1>7. PICK i \in DOMAIN ms : \E n \in DOMAIN ms[i].functions : g = ms[i].functions[n]
  BY <1>5 DEF DeclaredIn, Range
<1>8. PICK n \in DOMAIN ms[i].functions : g = ms[i].functions[n]
  BY <1>7
<1>9. LocalsSaid(rec, Len(rec), ms)
  BY <1>1, ParseSaid
<1>10. g # NoFunction
  <2>1. ms[i] \in CdbModules(Range(rec))
    BY ProgramModules, Places
  <2>2. ms[i].functions \in Seq(CdbFunctions(Range(rec)))
    BY <2>1, Changed
  <2> HIDE DEF ms, g
  <2>3. g \in CdbFunctions(Range(rec))
    BY <1>8, <2>2, Places
  <2>4. DOMAIN g # {}
    BY <2>3 DEF CdbFunctions
  <2>5. DOMAIN NoFunction = {}
    BY DEF NoFunction
  <2> QED  BY <2>4, <2>5
<1>11. Locals(ms, symbs, addr) = g.locals
  BY <1>10 DEF Locals
<1> HIDE DEF g, ms
<1>12. \A v \in DOMAIN g.locals : \E j \in DOMAIN rec : IsLocal(rec[j], name) /\ g.locals[v] = rec[j]
  BY <1>1, <1>6, <1>8, <1>9 DEF LocalsSaid
<1>13. \A j \in DOMAIN rec : IsLocal(rec[j], name) => \E v \in DOMAIN g.locals : g.locals[v] = rec[j]
  BY <1>1, <1>6, <1>8, <1>9 DEF LocalsSaid
<1>14. Range(g.locals) = {r \in Range(rec) : IsLocal(r, name)}
  BY <1>12, <1>13 DEF Range
<1> QED  BY <1>11, <1>14 DEF ms

(* If the records of the CDB are in order, the scopes Locals and Globals   *)
(* show exactly what it declares, at any address between the markers of a  *)
(* function (cdb_parser.cpp:167-184, z80_target.cpp:411-423).              *)
THEOREM VariablesAreInScope ==
  RecordsInOrder /\ ListingsDiffer => (Spec => []VariablesInScope)
<1> SUFFICES ASSUME RecordsInOrder, ListingsDiffer PROVE Spec => []VariablesInScope
  OBVIOUS
<1>1. FromProgram => VariablesInScope
  <2> SUFFICES ASSUME FromProgram, NEW p \in Programs, loaded, virtual = p.virtual
               PROVE
    LET declared == {r \in Range(p.records) : r.kind = "S"}
        local    == {r \in declared : r.scope = "L"}
    IN  /\ Globals(modules) = {r \in declared \ local : ~r.ofFunction}
        /\ \A f \in {r.name : r \in {q \in Range(p.records) : q.kind = "F"}}, a \in Addr :
             Inside(p.records, f, a) =>
               Range(Locals(modules, symbols, a)) = {r \in local : r.function = f}
    BY DEF VariablesInScope
  <2>1. modules = Parse(p.records)
    <3>1. PICK q \in Programs : modules = Parse(q.records) /\ virtual = q.virtual
      BY DEF FromProgram
    <3> QED  BY <3>1 DEF ListingsDiffer
  <2>2. InOrder(p.records) /\ p.records \in Seq(Range(p.records))
        /\ DOMAIN p.records = 1..Len(p.records)
    BY ProgramAssumption, Places DEF RecordsInOrder
  <2> DEFINE declared == {r \in Range(p.records) : r.kind = "S"}
             local    == {r \in declared : r.scope = "L"}
  <2>3. Globals(modules) = {r \in declared \ local : ~r.ofFunction}
    <3>1. Globals(modules) = {r \in Range(p.records) : IsGlobal(r) /\ ~r.ofFunction}
      BY <2>1, <2>2, ParseSaid, GlobalsShown
    <3> QED  BY <3>1 DEF IsGlobal
  <2>4. ASSUME NEW f \in FunctionNames(p.records), NEW a \in Addr, Inside(p.records, f, a)
        PROVE  Range(Locals(modules, symbols, a)) = {r \in local : r.function = f}
    <3>1. Range(Locals(modules, symbols, a)) = {r \in Range(p.records) : IsLocal(r, f)}
      BY <2>1, <2>2, <2>4, LocalsShown
    <3> QED  BY <3>1 DEF IsLocal
  <2> QED  BY <2>3, <2>4 DEF FunctionNames
<1> QED  BY <1>1, LoadedTogether, PTL

(* The lines of an assembly module *)
LEMMA AsmSpot ==
  ASSUME NEW ms, NEW e
  PROVE  e \in AsmSpots(ms) <=>
           \E i \in DOMAIN ms : /\ IsAsmModule(ms[i])
                               /\ \E r \in ms[i].asm : e = Entry(Key(ms[i].name, "", r.line), r.addr)
<1> DEFINE Of(i) == {Entry(Key(ms[i].name, "", r.line), r.addr) : r \in ms[i].asm}
           I == {j \in DOMAIN ms : IsAsmModule(ms[j])}
<1>1. e \in AsmSpots(ms) <=> \E i \in I : e \in Of(i)
  <2>1. AsmSpots(ms) = UNION {Of(i) : i \in I}
    BY DEF AsmSpots, IsAsmModule
  <2> HIDE DEF Of, I
  <2> QED  BY <2>1
<1>2. \A i : e \in Of(i) <=>
        \E r \in ms[i].asm : e = Entry(Key(ms[i].name, "", r.line), r.addr)
  OBVIOUS
<1> HIDE DEF Of
<1> QED  BY <1>1, <1>2

(* A set of at most one element has no two. *)
LEMMA AtMostOne ==
  ASSUME NEW S, IsFiniteSet(S), Cardinality(S) <= 1, NEW x \in S, NEW y \in S
  PROVE  x = y
<1> SUFFICES ASSUME x # y PROVE FALSE
  OBVIOUS
<1>1. IsFiniteSet({x}) /\ Cardinality({x}) = 1
  BY FS_Singleton
<1>2. Cardinality({x} \cup {y}) = 2
  BY <1>1, FS_AddElement
<1>3. Cardinality({x} \cup {y}) <= Cardinality(S)
  BY FS_Subset
<1>4. Cardinality(S) \in Nat
  BY FS_CardinalityType
<1> QED  BY <1>2, <1>3, <1>4

(* An address where a line begins is shown as that line. *)
LEMMA LineShown ==
  ASSUME LinesApart, NEW p \in Programs, NEW ms, ms = Parse(p.records), NEW ss, ss = p.symbols,
         NEW d \in AsmSpots(ms) \cup MapSpots(ss) \cup CSpots(ms),
         Cardinality(LinesAt(ms, d.addr)) <= 1
  PROVE  /\ LookupSourceAny(ms, ss, d.addr) # {}
         /\ \A at \in LookupSourceAny(ms, ss, d.addr) :
              at.line = d.key.line /\ at.file.stem = d.key.stem
<1> DEFINE R == Range(p.records)
           addr == d.addr
           apart == AsmSpots(ms) \cup MapSpots(ss)
           parts == [i \in DOMAIN ms |-> ms[i].lines]
           cLines == FlattenSeq(parts)
           Lines == UNION {Range(ms[i].lines) : i \in DOMAIN ms}
           here == {r \in Lines : r.addr = addr}
           atCdb == {i \in DOMAIN cLines : cLines[i].addr = addr}
           atMap == {i \in Markers(ss) : ss[i].addr = addr}
           shown == IF atCdb # {} THEN cLines[Max(atCdb)] ELSE ss[First(atMap)]
           Shows(file, line) == line = d.key.line /\ file.stem = d.key.stem
<1>1. /\ DOMAIN ms = 1..Len(ms) /\ Len(ms) \in Nat /\ \A i \in DOMAIN ms : ms[i] \in CdbModules(R)
      /\ IsFiniteSet(R)
  BY ProgramModules, Places
<1>2. DOMAIN cLines = 1..Len(cLines) /\ Len(cLines) \in Nat /\ Range(cLines) = Lines
      /\ Lines \subseteq R
  <2>1. \A i \in DOMAIN ms : ms[i].lines \in Seq(CLines(R))
    BY <1>1, Changed
  <2>2. parts \in [1..Len(ms) -> Seq(CLines(R))]
    BY <1>1, <2>1
  <2>3. parts \in Seq(Seq(CLines(R)))
    BY <1>1, <2>2, SeqDef
  <2>4. UNION {Range(parts[i]) : i \in DOMAIN parts} = Lines
    OBVIOUS
  <2>5. \A i \in DOMAIN ms : Range(ms[i].lines) \subseteq CLines(R)
    BY <2>1, Places
  <2>6. Lines \subseteq R
    BY <2>5 DEF CLines
  <2> HIDE DEF parts, Lines
  <2> QED  BY <2>3, <2>4, <2>6, Together
<1>3. LookupSource(ms, ss, addr) =
        IF atCdb = {} /\ atMap = {} THEN {} ELSE {Location(shown.file, shown.line)}
  BY Zenon DEF LookupSource
<1> HIDE DEF cLines
<1>4. \A e \in apart \cup CSpots(ms) : d \in apart /\ e.addr = addr =>
        e.key.stem = d.key.stem /\ e.key.line = d.key.line
  BY DEF LinesApart
<1>5. \A r \in Lines : Entry(FileKey(r.file, r.line), r.addr) \in CSpots(ms)
  BY DEF CSpots
<1>6. \A k, a : Entry(k, a).key = k /\ Entry(k, a).addr = a
  BY DEF Entry
<1>7. \A s, x, l : Key(s, x, l).stem = s /\ Key(s, x, l).line = l
  BY DEF Key
<1>8. \A f, l : FileKey(f, l).stem = f.stem /\ FileKey(f, l).line = l
  BY <1>7 DEF FileKey
<1>9. \A f, l : Location(f, l).file = f /\ Location(f, l).line = l
  BY DEF Location
<1>10. d \in CSpots(ms) => \E r \in here : d = Entry(FileKey(r.file, r.line), r.addr)
  <2> SUFFICES ASSUME d \in CSpots(ms)
               PROVE  \E r \in here : d = Entry(FileKey(r.file, r.line), r.addr)
    OBVIOUS
  <2>1. PICK i \in DOMAIN ms :
          d \in {Entry(FileKey(r.file, r.line), r.addr) : r \in Range(ms[i].lines)}
    BY DEF CSpots
  <2>2. PICK r \in Range(ms[i].lines) : d = Entry(FileKey(r.file, r.line), r.addr)
    BY <2>1
  <2>3. r \in Lines /\ r.addr = addr
    BY <1>6, <2>2
  <2> QED  BY <2>2, <2>3
<1>11. ASSUME NEW r \in here PROVE Shows(r.file, r.line)
  <2>1. CASE d \in apart
    <3>1. Entry(FileKey(r.file, r.line), r.addr) \in CSpots(ms) /\ r.addr = addr
      BY <1>5
    <3> QED  BY <1>4, <1>6, <1>8, <2>1, <3>1
  <2>2. CASE d \in CSpots(ms)
    <3>1. PICK r0 \in here : d = Entry(FileKey(r0.file, r0.line), r0.addr)
      BY <1>10, <2>2
    <3>2. IsFiniteSet(here) /\ Cardinality(here) <= 1
      <4>1. here \subseteq R
        BY <1>2
      <4>2. here = LinesAt(ms, addr)
        BY DEF LinesAt
      <4> HIDE DEF here
      <4> QED  BY <1>1, <4>1, <4>2, FS_Subset
    <3>3. r = r0
      <4> HIDE DEF here
      <4> QED  BY <3>2, AtMostOne
    <3> QED  BY <1>6, <1>8, <3>1, <3>3
  <2> QED  BY <2>1, <2>2
<1>12. CASE atCdb # {}
  <2>1. atCdb \subseteq Nat /\ \A i \in atCdb : i <= Len(cLines)
    BY <1>2
  <2>2. Max(atCdb) \in atCdb
    <3> HIDE DEF atCdb
    <3> QED  BY <1>2, <1>12, <2>1, MaxIsGreatest
  <2>3. shown = cLines[Max(atCdb)] /\ cLines[Max(atCdb)] \in here
    BY <1>2, <1>12, <2>2 DEF Range
  <2>4. Shows(shown.file, shown.line)
    BY <1>11, <2>3
  <2>5. LookupSource(ms, ss, addr) = {Location(shown.file, shown.line)}
    BY <1>3, <1>12
  <2> HIDE DEF shown
  <2> QED  BY <1>9, <2>4, <2>5 DEF LookupSourceAny
<1>13. CASE atCdb = {}
  <2>1. here = {}
    BY <1>2, <1>13 DEF Range
  <2>2. d \in apart
    BY <1>10, <2>1
  <2>3. CASE atMap # {}
    <3>1. Markers(ss) \subseteq Nat
      BY ProgramAssumption DEF Markers
    <3>2. First(atMap) \in atMap
      <4>1. atMap \subseteq Nat
        BY <3>1
      <4> HIDE DEF atMap
      <4> QED  BY <2>3, <4>1, FirstIsLeast
    <3>3. Entry(MarkerKey(ss[First(atMap)]), ss[First(atMap)].addr) \in MapSpots(ss)
          /\ ss[First(atMap)].addr = addr /\ shown = ss[First(atMap)]
      BY <1>13, <3>2 DEF MapSpots
    <3>4. LookupSource(ms, ss, addr) = {Location(shown.file, shown.line)}
      BY <1>3, <2>3
    <3> HIDE DEF shown
    <3>5. Shows(shown.file, shown.line)
      <4>1. Entry(FileKey(shown.file, shown.line), shown.addr) \in apart /\ shown.addr = addr
        BY <3>3 DEF MarkerKey
      <4> HIDE DEF apart
      <4> QED  BY <1>4, <1>6, <1>8, <2>2, <4>1
    <3> QED  BY <1>9, <3>4, <3>5 DEF LookupSourceAny
  <2>4. CASE atMap = {}
    <3>1. LookupSourceAny(ms, ss, addr) = LookupAsm(ms, addr)
      BY <1>3, <1>13, <2>4 DEF LookupSourceAny
    <3>2. d \notin MapSpots(ss)
      BY <1>6, <2>4 DEF MapSpots
    <3> DEFINE found == {i \in DOMAIN ms :
                           IsAsmModule(ms[i]) /\ \E r \in ms[i].asm : r.addr = addr}
               m == ms[First(found)]
    <3>3. found # {}
      <4>1. PICK i \in DOMAIN ms :
              /\ IsAsmModule(ms[i])
              /\ \E r \in ms[i].asm : d = Entry(Key(ms[i].name, "", r.line), r.addr)
        <5>1. d \in AsmSpots(ms)
          BY <2>2, <3>2
        <5> QED  BY ONLY <5>1, AsmSpot
      <4>2. PICK r \in ms[i].asm : d = Entry(Key(ms[i].name, "", r.line), r.addr)
        BY <4>1
      <4>3. r.addr = addr
        BY <1>6, <4>2
      <4>4. i \in found
        BY <4>1, <4>3
      <4> QED  BY <4>4
    <3>4. First(found) \in found
      <4>1. found \subseteq Nat
        BY <1>1
      <4> HIDE DEF found
      <4> QED  BY <3>3, <4>1, FirstIsLeast
    <3>5. LookupAsm(ms, addr) = {Location(m.file, r.line) : r \in {s \in m.asm : s.addr = addr}}
      BY <3>3 DEF LookupAsm
    <3>6. ASSUME NEW r \in m.asm, r.addr = addr PROVE Shows(m.file, r.line)
      <4>1. Entry(Key(m.name, "", r.line), r.addr) \in AsmSpots(ms)
        BY <3>4, AsmSpot
      <4>2. m.file.stem = m.name
        BY <1>1, <3>4, Changed
      <4> HIDE DEF m
      <4> DEFINE e == Entry(Key(m.name, "", r.line), r.addr)
      <4>3. e.addr = addr /\ e.key.stem = m.name /\ e.key.line = r.line
        BY <3>6 DEF Entry, Key
      <4> HIDE DEF e, addr, apart
      <4>4. e.key.stem = d.key.stem /\ e.key.line = d.key.line
        <5>1. e \in apart
          BY <4>1 DEF e, apart
        <5> QED  BY <1>4, <2>2, <4>3, <5>1
      <4> QED  BY <4>2, <4>3, <4>4
    <3>7. \E r \in m.asm : r.addr = addr
      BY <3>4
    <3> HIDE DEF m
    <3> QED  BY <1>9, <3>1, <3>5, <3>6, <3>7
  <2> QED  BY <2>3, <2>4
<1> QED  BY <1>12, <1>13

(* If an assembly line or a MAP marker begins where nothing else does, a   *)
(* stop at a breakpoint set on a source line is shown on that line         *)
(* (dbg.cpp:231-283, z80_target.cpp:341-359).                              *)
THEOREM StopsAreShownWhereSet == LinesApart => (Spec => []StopShownWhereSet)
<1> SUFFICES ASSUME LinesApart PROVE Spec => []StopShownWhereSet
  OBVIOUS
<1>1. TypeInv /\ FromProgram => StopShownWhereSet
  <2> SUFFICES ASSUME TypeInv, FromProgram,
                      NEW f \in Files \ Listings, NEW l \in Range(wanted[f]),
                      modules # << >>, LookupAddress(index, f, l) \in sourceBps,
                      Cardinality(LinesAt(modules, LookupAddress(index, f, l))) <= 1,
                      NEW at \in Frame(LookupAddress(index, f, l))
               PROVE  at.line = l /\ at.file.stem = f.stem
    BY DEF StopShownWhereSet
  <2> DEFINE addr == LookupAddress(index, f, l)
  <2>1. PICK p \in Programs : modules = Parse(p.records) /\ symbols = p.symbols
                              /\ index = AddrByFileLine(modules, symbols)
    BY DEF FromProgram
  <2>2. addr # NoAddr
    BY AddrAssumption DEF TypeInv, TypeOK, Addr
  <2>3. PICK k \in DOMAIN index : k \in {FileKey(f, l), Key(f.stem, "", l)} /\ index[k] = addr
    BY <2>2 DEF LookupAddress
  <2>4. PICK d \in AsmSpots(modules) \cup MapSpots(symbols) \cup CSpots(modules) :
          d.key = k /\ d.addr = addr
    <3>1. k \in DOMAIN AddrByFileLine(Parse(p.records), p.symbols)
          /\ AddrByFileLine(Parse(p.records), p.symbols)[k] = addr
      BY <2>1, <2>3
    <3> HIDE DEF addr
    <3>2. PICK d \in AsmSpots(Parse(p.records)) \cup CSpots(Parse(p.records))
                       \cup MapSpots(p.symbols) :
            d.key = k /\ d.addr = addr
      BY <3>1, IndexFinds
    <3> QED  BY <2>1, <3>2
  <2>5. d.key.line = l /\ d.key.stem = f.stem
    <3>1. /\ FileKey(f, l).line = l /\ FileKey(f, l).stem = f.stem
          /\ Key(f.stem, "", l).line = l /\ Key(f.stem, "", l).stem = f.stem
      BY DEF FileKey, Key
    <3>2. k.line = l /\ k.stem = f.stem
      BY <2>3, <3>1
    <3> QED  BY <2>4, <3>2
  <2>6. Cardinality(LinesAt(modules, d.addr)) <= 1
    BY <2>4
  <2>7. /\ LookupSourceAny(modules, symbols, d.addr) # {}
        /\ \A x \in LookupSourceAny(modules, symbols, d.addr) :
             x.line = d.key.line /\ x.file.stem = d.key.stem
    BY <2>1, <2>6, LineShown
  <2>8. Frame(addr) = LookupSourceAny(modules, symbols, addr)
    BY <2>4, <2>7 DEF Frame
  <2> QED  BY <2>4, <2>5, <2>7, <2>8
<1> QED  BY <1>1, TypesHold, LoadedTogether, PTL
=============================================================================
