---------------------------- MODULE Breakpoints ----------------------------
(***************************************************************************)
(* The four kinds of breakpoints of z80_target and dbg, over the requests  *)
(* of a session: set before or after the launch, replaced, removed, and    *)
(* resolved again when a program is loaded.  The requests are handled one  *)
(* at a time by the session thread; how the emulation thread sees the      *)
(* merged set change is in DebugServer.                                    *)
(***************************************************************************)
EXTENDS DebugInfo, FiniteSets

CONSTANTS
  Programs,        \* what can be launched: [records, symbols, length, virtual]
  Files,           \* the paths breakpoints are set in
  DefaultVirtual,  \* virtual_lst_path_ before a launch
  EmptyVirtual,    \* virtual_lst_path_ after a launch without a program
  LineSets,        \* the lines a request may hold, as sequences
  FunctionSets,    \* the names a request may hold, as sequences
  ReferenceSets,   \* the instruction references a request may hold
  Unparsable,      \* a reference that is not a number
  LastLine,        \* the last line a client asks locations for
  MaxLaunches      \* bound of the model

ASSUME BoundAssumption == MaxLaunches \in Nat

VARIABLES
  launches,       \* not in the code: how many there were
  loaded,         \* not in the code: the last of them named a program
  modules,        \* cdb_modules_
  symbols,        \* map_symbols_
  index,          \* addr_by_file_line_
  listing,        \* full_listing_addrs_
  virtual,        \* virtual_lst_path_
  byFile,         \* source_breakpoints_by_file_
  sourceBps,      \* source_breakpoint_addresses_
  instructionBps, \* instruction_breakpoints_
  functionBps,    \* function_breakpoints_
  asmBps,         \* asm_breakpoints_
  allBps,         \* all_breakpoints_
  wanted,         \* not in the code: the last request for each list
  verified        \* not in the code: the addresses answered verified since
                  \* the launch, for each list

program == <<launches, loaded, modules, symbols, index, listing, virtual>>
lists   == <<byFile, sourceBps, instructionBps, functionBps, asmBps, allBps>>
vars    == <<program, lists, wanted, verified>>

Addr    == 0..(AddrSpace - 1)

(* Addresses are cast to uint16_t when they are read (cdb_parser.cpp:222,  *)
(* 287, 318, dbg.cpp:273, 361), and a reference is an unsigned number      *)
(* (stoul, z80_target.cpp:510).                                            *)
ASSUME ProgramAssumption ==
  \A p \in Programs :
    /\ p.records \in Seq(Range(p.records))
    /\ \A i \in DOMAIN p.records :
         p.records[i].kind \in {"A", "C", "L"} => p.records[i].addr \in Addr
    /\ \A i \in DOMAIN p.symbols : i \in Nat /\ p.symbols[i].addr \in Addr
    /\ \A a \in Addr : p.length[a] \in Int
ASSUME ReferenceAssumption ==
  \A refs \in ReferenceSets : Range(refs) \subseteq Nat \cup {Unparsable}

(* The lists a request replaces: one for each file, and two more. *)
Functions    == [dir |-> "", stem |-> "functions", ext |-> ""]
Instructions == [dir |-> "", stem |-> "instructions", ext |-> ""]
ListIds      == Files \cup {Functions, Instructions}

ASSUME ListIdAssumption == Functions \notin Files /\ Instructions \notin Files

(* The paths a listing can have. *)
Listings == {p.virtual : p \in Programs} \cup {DefaultVirtual, EmptyVirtual}

(* Every armed address is one of the Z80's (a reference is cut to 16 bits, *)
(* z80_target.cpp:512), and the listing is known under one of its names.   *)
TypeOK ==
  /\ launches \in 0..MaxLaunches
  /\ loaded \in BOOLEAN
  /\ \A i \in DOMAIN listing : listing[i] \in Addr
  /\ virtual \in Listings
  /\ DOMAIN byFile \subseteq Files
  /\ \A bps \in {sourceBps, instructionBps, functionBps, asmBps, allBps} : bps \subseteq Addr
  /\ DOMAIN wanted = ListIds
  /\ DOMAIN verified = ListIds

Init ==
  /\ launches = 0 /\ loaded = FALSE
  /\ modules = << >> /\ symbols = << >> /\ index = << >> /\ listing = << >>
  /\ virtual = DefaultVirtual
  /\ byFile = << >>
  /\ sourceBps = {} /\ instructionBps = {} /\ functionBps = {} /\ asmBps = {}
  /\ allBps = {}
  /\ wanted = [k \in ListIds |-> << >>]
  /\ verified = [k \in ListIds |-> {}]

-----------------------------------------------------------------------------
Resolved(idx, file, lines) ==
  {LookupAddress(idx, file, l) : l \in Range(lines)} \ {NoAddr}

Sources(idx, files) == UNION {Resolved(idx, f, files[f]) : f \in DOMAIN files}

Merge_NoAsm == allBps' = sourceBps' \cup instructionBps' \cup functionBps'

(* rebuild_all_breakpoints *)
Merge == allBps' = sourceBps' \cup instructionBps' \cup functionBps' \cup asmBps'

(* rebuild_source_breakpoint_addresses *)
RebuildSource ==
  /\ sourceBps' = Sources(index', byFile')
  /\ Merge

(* set_source_breakpoints_for_file *)
Stored(file, lines) ==
  IF lines = << >>
  THEN [f \in DOMAIN byFile \ {file} |-> byFile[f]]
  ELSE [f \in DOMAIN byFile \cup {file} |-> IF f = file THEN lines ELSE byFile[f]]

(* What the answer tells the client, for each kind of request. *)
Answer(list, request, addrs) ==
  /\ wanted' = [wanted EXCEPT ![list] = request]
  /\ verified' = [verified EXCEPT ![list] = addrs]

-----------------------------------------------------------------------------
(* setBreakpoints in the listing: one address a line *)
SetListing(file, lines) ==
  /\ file = virtual
  /\ asmBps' = {listing[l] : l \in Range(lines) \cap DOMAIN listing}
  /\ UNCHANGED <<program, byFile, sourceBps, instructionBps, functionBps>>
  /\ Merge
  /\ Answer(file, lines, asmBps')

(* setBreakpoints in any other file *)
SetSource(file, lines) ==
  /\ file # virtual
  /\ byFile' = Stored(file, lines)
  /\ UNCHANGED <<program, instructionBps, functionBps, asmBps>>
  /\ RebuildSource
  /\ Answer(file, lines, Resolved(index, file, lines))

SetFunctions(names) ==
  /\ functionBps' = {LookupFunctionAddress(symbols, n) : n \in Range(names)} \ {NoAddr}
  /\ UNCHANGED <<program, byFile, sourceBps, instructionBps, asmBps>>
  /\ Merge
  /\ Answer(Functions, names, functionBps')

SetInstructions_NoClear(refs) ==
  /\ instructionBps' = instructionBps
       \cup {r % AddrSpace : r \in Range(refs) \ {Unparsable}}
  /\ UNCHANGED <<program, byFile, sourceBps, functionBps, asmBps>>
  /\ Merge
  /\ Answer(Instructions, refs, instructionBps')

SetInstructions_NoTruncation(refs) ==
  /\ instructionBps' = Range(refs) \ {Unparsable}
  /\ UNCHANGED <<program, byFile, sourceBps, functionBps, asmBps>>
  /\ Merge
  /\ Answer(Instructions, refs, instructionBps')

(* A reference that does not parse is left out; one that does is cast to   *)
(* uint16_t.                                                               *)
SetInstructions(refs) ==
  /\ instructionBps' = {r % AddrSpace : r \in Range(refs) \ {Unparsable}}
  /\ UNCHANGED <<program, byFile, sourceBps, functionBps, asmBps>>
  /\ Merge
  /\ Answer(Instructions, refs, instructionBps')

LaunchProgram_NoRebuild(p) ==
  /\ launches < MaxLaunches /\ launches' = launches + 1 /\ loaded' = TRUE
  /\ modules' = Parse(p.records) /\ symbols' = p.symbols
  /\ index' = AddrByFileLine(modules', symbols')
  /\ listing' = Listing(p.length) /\ virtual' = p.virtual
  /\ verified' = [k \in ListIds |-> {}]
  /\ UNCHANGED <<lists, wanted>>

(* launch: clear the symbols, load those of the program, resolve the       *)
(* source breakpoints again, name and build the listing.                   *)
LaunchProgram(p) ==
  /\ launches < MaxLaunches /\ launches' = launches + 1 /\ loaded' = TRUE
  /\ modules' = Parse(p.records) /\ symbols' = p.symbols
  /\ index' = AddrByFileLine(modules', symbols')
  /\ listing' = Listing(p.length) /\ virtual' = p.virtual
  /\ verified' = [k \in ListIds |-> {}]
  /\ UNCHANGED <<byFile, instructionBps, functionBps, asmBps, wanted>>
  /\ RebuildSource

(* A launch that names no program clears memory, the symbols and the       *)
(* listing, and neither resolves a breakpoint nor builds a listing.        *)
LaunchNothing ==
  /\ launches < MaxLaunches /\ launches' = launches + 1 /\ loaded' = FALSE
  /\ modules' = << >> /\ symbols' = << >> /\ index' = << >> /\ listing' = << >>
  /\ virtual' = EmptyVirtual
  /\ verified' = [k \in ListIds |-> {}]
  /\ UNCHANGED <<lists, wanted>>

(* get_source builds the listing that no launch has built, when the client *)
(* asks for it: memory is clear then, a NOP on every line.                 *)
ShowListing ==
  /\ listing = << >>
  /\ listing' = [line \in 1..AddrSpace |-> line - 1]
  /\ UNCHANGED <<launches, loaded, modules, symbols, index, virtual, lists, wanted, verified>>

Next ==
  \/ \E f \in Files, lines \in LineSets : SetListing(f, lines) \/ SetSource(f, lines)
  \/ \E names \in FunctionSets : SetFunctions(names)
  \/ \E refs \in ReferenceSets : SetInstructions(refs)
  \/ \E p \in Programs : LaunchProgram(p)
  \/ LaunchNothing
  \/ ShowListing

Spec == Init /\ [][Next]_vars

-----------------------------------------------------------------------------
(* A breakpoint asked for before the launch, when nothing could resolve    *)
(* it, is armed once a program that maps its line is loaded, and no other  *)
(* source line is, whatever was launched before (z80_target.cpp:181,       *)
(* dbg.cpp:132).                                                           *)
SourceArmed ==
  loaded =>
    /\ sourceBps = Sources(index, byFile)
    /\ sourceBps \subseteq allBps
    /\ \A f \in Files \ Listings : Resolved(index, f, wanted[f]) \subseteq sourceBps

(* What a client was told is verified since the launch stays armed until   *)
(* it replaces that list, whatever it does to the others.                  *)
VerifiedIsArmed == \A k \in ListIds : verified[k] \subseteq allBps

(* The addresses the last request for each list stands for. *)
Wanted ==
  (UNION {Resolved(index, f, wanted[f]) : f \in Files})
    \cup {LookupFunctionAddress(symbols, n) : n \in Range(wanted[Functions])}
    \cup {r % AddrSpace : r \in Range(wanted[Instructions]) \ {Unparsable}}
    \cup (IF virtual \in Files
          THEN {listing[l] : l \in Range(wanted[virtual]) \cap DOMAIN listing} ELSE {})

(* In a session that launches once, no address is armed that the client's  *)
(* last requests do not stand for: what it removed is disarmed.  It is     *)
(* stated for Files without DefaultVirtual: what is set in the listing a   *)
(* client may see before the launch stays armed after it, for no launch    *)
(* clears asm_breakpoints_.                                                *)
NothingElseArmed == launches <= 1 => allBps \subseteq Wanted

(* get_stack: what a stop at pc is shown as *)
Frame(pc) ==
  LET source == IF modules # << >> THEN LookupSourceAny(modules, symbols, pc) ELSE {}
      lines  == {i \in DOMAIN listing : listing[i] = pc}
  IN  IF source # {} THEN source
      ELSE {Location(virtual, IF lines # {} THEN First(lines) ELSE 1)}

(* Two C lines that begin at one address cannot both be shown there. *)
LinesAt(ms, addr) ==
  {r \in UNION {Range(ms[i].lines) : i \in DOMAIN ms} : r.addr = addr}

(* A stop at a breakpoint set on a source line is shown on that line, if   *)
(* no other line begins there: the index from lines to addresses and the   *)
(* ones from addresses to lines agree on which records count, and none is  *)
(* of generated assembly (dbg.cpp:231-283, USING-LIBDAP.md:533-535).       *)
StopShownWhereSet ==
  \A f \in Files \ Listings : \A l \in Range(wanted[f]) :
    LET addr == LookupAddress(index, f, l)
    IN  modules # << >> /\ addr \in sourceBps /\ Cardinality(LinesAt(modules, addr)) <= 1
          => \A at \in Frame(addr) : at.line = l /\ at.file.stem = f.stem

(* The functions a program declares *)
DeclaredIn(ms) == UNION {Range(ms[i].functions) : i \in DOMAIN ms}

(* A stop at a breakpoint set on a function is in that function, so that   *)
(* the locals shown are its own: MAP symbols and CDB markers agree         *)
(* (dbg.cpp:356-372, 603-633).                                             *)
StopInFunction ==
  \A n \in Range(wanted[Functions]) :
    LET addr == LookupFunctionAddress(symbols, n)
    IN  addr # NoAddr /\ n \in {f.name : f \in DeclaredIn(modules)}
          => FunctionAt(modules, symbols, addr).name = n

(* The addresses from the start marker of a function to its end marker. *)
Inside(records, function, addr) ==
  \E r, s \in Range(records) :
    /\ r.kind = "L" /\ r.name = function /\ ~r.isEnd /\ r.addr <= addr
    /\ s.kind = "L" /\ s.name = function /\ s.isEnd   /\ addr < s.addr

(* At any address of a program its locals are exactly those the CDB        *)
(* declares for the function whose markers enclose it, and its globals     *)
(* those of every module: no record of a later function or module takes or *)
(* hides them (cdb_parser.cpp:167-184, z80_target.cpp:411-423).            *)
VariablesInScope ==
  \A p \in Programs : loaded /\ virtual = p.virtual =>
    LET declared == {r \in Range(p.records) : r.kind = "S"}
        local    == {r \in declared : r.scope = "L"}
    IN  /\ Globals(modules) = {r \in declared \ local : ~r.ofFunction}
        /\ \A f \in {r.name : r \in {q \in Range(p.records) : q.kind = "F"}}, a \in Addr :
             Inside(p.records, f, a) =>
               Range(Locals(modules, symbols, a)) = {r \in local : r.function = f}

(* A line offered for a breakpoint can have one (USING-LIBDAP.md:538:      *)
(* "Discard `A$` records from C (`.c`) modules entirely").                 *)
OfferedLinesResolve ==
  \A f \in Files :
    \A l \in BreakpointLocations(modules, symbols, f, 1, LastLine) :
      LookupAddress(index, f, l) # NoAddr

-----------------------------------------------------------------------------
(* What files must say for the lookups to agree, in either direction.      *)
(*                                                                         *)
(* What the assembly lines, the C lines and the MAP markers of a program   *)
(* offer the index: a key, and the address that begins there               *)
AsmSpots(ms) ==
  UNION {{Entry(Key(ms[i].name, "", r.line), r.addr) : r \in ms[i].asm} :
           i \in {j \in DOMAIN ms : ms[j].file.ext \in {"s", "asm"}}}

CSpots(ms) ==
  UNION {{Entry(FileKey(r.file, r.line), r.addr) : r \in Range(ms[i].lines)} : i \in DOMAIN ms}

MapSpots(ss) == {Entry(MarkerKey(ss[i]), ss[i].addr) : i \in Markers(ss)}

(* Where a line of an assembly module or a marker of the MAP file begins,  *)
(* no other line does.                                                     *)
LinesApart ==
  \A p \in Programs :
    LET ms    == Parse(p.records)
        apart == AsmSpots(ms) \cup MapSpots(p.symbols)
    IN  \A d \in apart, e \in apart \cup CSpots(ms) :
          d.addr = e.addr => d.key.stem = e.key.stem /\ d.key.line = e.key.line

(* The functions of a CDB file, and the modules begun up to a record *)
FunctionNames(records) == {r.name : r \in {q \in Range(records) : q.kind = "F"}}

Begun(records, i) == {j \in 1..i : records[j].kind = "M"}

(* Markers of the same side of a function *)
SameSide(r, s) == (r.isEnd /\ s.isEnd) \/ (~r.isEnd /\ ~s.isEnd)

(* Each function has a name of its own; functions and variables stand      *)
(* behind the module they are in, and locals and markers behind their      *)
(* function, locals in the same module; a function has one start, and an   *)
(* end if it has a start, at an address that does not stand for none, and  *)
(* no two functions enclose one address.                                   *)
InOrder(records) ==
  LET names == FunctionNames(records)
      declares(j, name) == records[j].kind = "F" /\ records[j].name = name
      marks(r) == r.kind = "L" /\ r.name \in names
  IN  /\ \A i \in DOMAIN records : records[i].kind \in {"F", "S"} => Begun(records, i) # {}
      /\ \A i, j \in DOMAIN records, f \in names : declares(i, f) /\ declares(j, f) => i = j
      /\ \A i \in DOMAIN records : records[i].kind = "S" /\ records[i].scope = "L" =>
           \E j \in 1..i : /\ declares(j, records[i].function)
                          /\ Begun(records, j) = Begun(records, i)
      /\ \A i, j \in DOMAIN records : marks(records[i]) /\ declares(j, records[i].name) =>
           j < i /\ records[i].module \in {"", records[Max(Begun(records, j))].name}
      /\ \A r, s \in Range(records) :
           marks(r) /\ marks(s) /\ r.name = s.name /\ SameSide(r, s) => r.addr = s.addr
      /\ \A r \in Range(records) : marks(r) /\ ~r.isEnd =>
           \E s \in Range(records) : marks(s) /\ s.isEnd /\ s.name = r.name /\ s.addr # Unset
      /\ \A f, g \in names, a \in Addr : Inside(records, f, a) /\ Inside(records, g, a) => f = g

RecordsInOrder == \A p \in Programs : InOrder(p.records)

(* The MAP symbol of a function is not that of another, nor between its    *)
(* markers.                                                                *)
MarkersAgree ==
  \A p \in Programs : \A f, g \in FunctionNames(p.records) :
    LET addr == LookupFunctionAddress(p.symbols, f)
    IN  f # g /\ addr # NoAddr =>
          addr # LookupFunctionAddress(p.symbols, g) /\ ~Inside(p.records, g, addr)

(* Programs are told apart by their listings. *)
ListingsDiffer == \A p, q \in Programs : p.virtual = q.virtual => p.records = q.records
=============================================================================
