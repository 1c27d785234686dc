----------------------------- MODULE Inspection -----------------------------
(***************************************************************************)
(* What a client sees of a stopped program: what launch loads, where it    *)
(* starts, and what disassemble, readMemory, variables, evaluate and       *)
(* stackTrace show of its memory afterwards.  The views are computed apart *)
(* from each other in z80_target and dbg; the properties relate them.      *)
(* Requests are answered one at a time (Session); a program runs and stops *)
(* between them in one step (DebugServer has the steps of a run).          *)
(***************************************************************************)
EXTENDS Disassembler, Values

CONSTANTS
  Programs,        \* what can be launched: [kind, records or bytes, symbols]
  Again,           \* bound: those that are launched after another one
  StartAddresses,  \* the startAddress of a launch
  Resets,          \* what z80ex_reset and a run leave in the registers: [IX, BC]
  Writes,          \* what a run may do: [address, value]
  Places,          \* the (memoryReference, offset) a client asks for
  Skips,           \* the instructionOffset of disassemble
  Count,           \* its instructionCount, and the count of readMemory
  CVariables,      \* the C variables a scope shows
  Expressions,     \* what is evaluated
  None

(* What a file holds, by its kind, and where its symbols lie. *)
ASSUME ProgramAssumption ==
  \A p \in Programs :
    /\ p.kind = "ihx" => p.records \in Seq(Records)
    /\ p.kind = "binary" => p.bytes \in Seq(Byte)
    /\ p.symbols \in Seq(Range(p.symbols))
    /\ \A i \in DOMAIN p.symbols : p.symbols[i].addr \in Nat /\ p.symbols[i].c \in BOOLEAN

ASSUME CountAssumption == Count \in Nat \ {0}
ASSUME StartAssumption == NoStart \in StartAddresses /\ StartAddresses \subseteq Nat \cup {NoStart}

(* A run leaves 16 bits in a register and a byte in memory. *)
ASSUME RunAssumption ==
  /\ \A r \in Resets : r.IX \in Addr /\ r.BC \in Addr
  /\ \A w \in Writes : w.address \in Addr /\ w.value \in Byte

(* A request has integers; the size of a variable is cut to 1..4. *)
ASSUME RequestAssumption ==
  /\ Places \subseteq Int \X Int /\ Skips \subseteq Int
  /\ \A v \in CVariables : v.offset \in Int /\ v.size \in 1..4

VARIABLES
  memory,     \* memory_
  registers,  \* of the CPU
  symbols,    \* map_symbols_
  listing,    \* full_listing_addrs_
  hung,       \* the address whose sweep the session thread never ends, or None
  answer,     \* the response being sent
  launched,   \* the program and the startAddress of the last launch, or None
  fresh       \* nothing has run since

machine == <<memory, registers>>
program == <<symbols, listing>>
history == <<launched, fresh>>
vars == <<machine, program, hung, answer, history>>

Reset(r, pc) == [PC |-> pc, SP |-> AddrSpace - 1, IX |-> r.IX, BC |-> r.BC]

Init ==
  /\ memory = Zero
  /\ \E r \in Resets : registers = Reset(r, 0)
  /\ symbols = << >>
  /\ listing = << >>
  /\ hung = None
  /\ answer = None
  /\ launched = None
  /\ fresh = TRUE

-----------------------------------------------------------------------------
LaunchListing_Kept(p, m) == IF listing # << >> THEN listing ELSE Listing(m)

(* clear_full_listing, and build_full_listing if a program is named *)
LaunchListing(p, m) == IF p.kind = "none" THEN << >> ELSE Listing(m)

Launch(p, start) ==
  /\ launched = None \/ p \in Again
  /\ answer = None /\ hung = None
  /\ memory' = Loaded(p)
  /\ \E r \in Resets : registers' = Reset(r, EntryPoint(p, start))
  /\ symbols' = p.symbols
  /\ listing' = LaunchListing(p, memory')
  /\ launched' = [program |-> p, start |-> start]
  /\ fresh' = TRUE
  /\ UNCHANGED <<hung, answer>>

(* The program runs and stops; it may have changed any memory.  Bound: it  *)
(* runs once between two launches.                                         *)
Run(w) ==
  /\ answer = None /\ hung = None
  /\ fresh
  /\ memory' = [memory EXCEPT ![w.address] = w.value]
  /\ \E r \in Resets :
       registers' = [registers EXCEPT
         !["PC"] = (@ + Advance(memory, @)) % AddrSpace, !["IX"] = r.IX, !["BC"] = r.BC]
  /\ fresh' = FALSE
  /\ UNCHANGED <<program, hung, answer, launched>>

-----------------------------------------------------------------------------
(* A handler leaves everything but its answer alone. *)
Answer(a) ==
  /\ answer = None /\ hung = None
  /\ answer' = a
  /\ UNCHANGED <<machine, program, hung, history>>

(* The response is on its way; the next request may be read. *)
Sent ==
  /\ answer # None
  /\ answer' = None
  /\ UNCHANGED <<machine, program, hung, history>>

WithSymbol(row) == [address |-> row.address, bytes |-> row.bytes,
                    symbol |-> LookupSymbolExact(symbols, row.address)]

Instructions(base, skip) ==
  LET rows == Rows(memory, FirstRow(memory, base, skip), Count)
  IN  [kind |-> "instructions", base |-> base, skip |-> skip,
       rows |-> [i \in DOMAIN rows |-> WithSymbol(rows[i])]]

(* The sweep of disassemble may never get past its end. *)
Hangs(base, skip) == skip < 0 /\ Endless(memory, base, -skip)

Disassemble(place, skip) ==
  LET base == Base(place[1], place[2])
  IN  /\ answer = None /\ hung = None
      /\ IF Hangs(base, skip)
         THEN hung' = base /\ UNCHANGED <<machine, program, answer, history>>
         ELSE Answer(Instructions(base, skip))

Contents(a) == [kind |-> "memory", address |-> a, data |-> ReadMemory(memory, a, Count)]

ReadMemoryRequest(place) == Answer(Contents(MemoryStart(place[1], place[2])))

Valued(v) == [kind |-> "variable", variable |-> v,
              value |-> CVariableValue(v, memory, registers, symbols)]

Variable(v) == Answer(Valued(v))

Evaluated(e) == [kind |-> "evaluated", expression |-> e,
                 value |-> Evaluate(e, memory, registers, symbols)]

EvaluateRequest(e) == Answer(Evaluated(e))

(* stackTrace without a CDB: a name, and a line of the listing *)
Frame == [kind |-> "frame", name |-> LookupSymbol(symbols, registers["PC"]),
          line |-> LineOf(listing, registers["PC"])]

StackTrace == Answer(Frame)

(* get_source for the listing builds it if launch did not. *)
SourceListing ==
  /\ answer = None /\ hung = None
  /\ listing = << >>
  /\ listing' = Listing(memory)
  /\ UNCHANGED <<machine, symbols, hung, answer, history>>

Next ==
  \/ \E p \in Programs, start \in StartAddresses : Launch(p, start)
  \/ \E w \in Writes : Run(w)
  \/ \E place \in Places, skip \in Skips : Disassemble(place, skip)
  \/ \E place \in Places : ReadMemoryRequest(place)
  \/ \E v \in CVariables : Variable(v)
  \/ \E e \in Expressions : EvaluateRequest(e)
  \/ StackTrace \/ SourceListing
  \/ Sent

Spec == Init /\ [][Next]_vars

-----------------------------------------------------------------------------
JustLaunched == launched # None /\ fresh /\ answer = None

Shows(kind) == answer # None /\ answer.kind = kind

(* Every value fits the type the code keeps it in: bytes in memory and in  *)
(* readMemory, 16 bits in the registers and in every address shown.        *)
TypeOK ==
  /\ memory \in [Addr -> Byte]
  /\ registers \in [{"PC", "SP", "IX", "BC"} -> Addr]
  /\ listing \in Seq(Addr)
  /\ hung \in Addr \cup {None} /\ fresh \in BOOLEAN
  /\ Shows("instructions") => \A i \in DOMAIN answer.rows : answer.rows[i].address \in Addr
  /\ Shows("memory") => answer.data \in Seq(Byte)
  /\ Shows("variable") /\ answer.value # Unknown => answer.value.hex \in Addr

(* After a launch (load_ihx) each address holds the byte of the last       *)
(* record that covers it under the extended address in force there, and 0  *)
(* where none does: nothing of a program launched before is left.          *)
LoadedFaithfully ==
  JustLaunched /\ launched.program.kind = "ihx" =>
    \A a \in Addr : memory[a] = Says(launched.program.records, a)

StartRecords(records) ==
  {i \in Effective(records) : records[i].type \in {"start", "address"}}

Covered(records) == {a \in Addr : Covering(records, a) # {}}

(* Without a startAddress and a start record, a program is entered at the  *)
(* lowest byte that it puts in memory, if it puts any there (load_ihx,     *)
(* launch): in whatever record that is, and although bytes above 64 KB     *)
(* count for the lowest address too.  If all of a file lies above 64 KB,   *)
(* the entry is the low half of its lowest address, where nothing is.      *)
EntryIsLoaded ==
  JustLaunched /\ launched.program.kind = "ihx" /\ launched.start = NoStart =>
    LET records == launched.program.records
    IN  StartRecords(records) = {} /\ Unwrapped(records) /\ Covered(records) # {}
          => registers["PC"] = Min(Covered(records))

(* disassemble with a negative instructionOffset never ends near the top   *)
(* of memory and there only: within seven bytes of it, where an            *)
(* instruction may reach over it, and surely within four, where addr + 3   *)
(* is no uint16_t any more.                                                *)
HangsOnlyAtTop ==
  /\ hung # None => hung >= AddrSpace - 7
  /\ Shows("instructions") /\ answer.skip < 0 => answer.base < AddrSpace - 4

(* A disassembly that starts k instructions back has, k rows on, the row   *)
(* of the address it was asked for, if its sweep meets that address, and   *)
(* else one that begins within three bytes after it.  Only near the bottom *)
(* of memory, where the sweep starts at 0 and may have fewer than k        *)
(* instructions before the address, does that row come earlier; the rows   *)
(* before it are below the address always (disassemble).                   *)
BackwardLands ==
  Shows("instructions") =>
    LET k        == -answer.skip
        base     == answer.base
        pos      == Walk(memory, IF base < 4 * k THEN 0 ELSE base - 4 * k)
        shown(i) == answer.rows[i + 1].address
    IN  k \in 1..(Count - 1) =>
          \E i \in 0..k :
            /\ i < k => base < 4 * k /\ shown(0) = 0
            /\ \A j \in 0..(i - 1) : shown(j) < base
            /\ shown(i) \in base..(base + 3)
            /\ (\E n \in 0..(4 * k) : pos[n] = base /\ \A j \in 0..(n - 1) : pos[j] < base)
                 => shown(i) = base

(* Until the program runs, a forward disassembly from a line of the        *)
(* listing is the listing from there on, as far as that goes: the listing  *)
(* is that of the program in memory (build_full_listing, disassemble).     *)
ListingAgrees ==
  fresh /\ Shows("instructions") /\ answer.skip >= 0 =>
    \A i \in DOMAIN listing, row \in 1..Count :
      LET line == i + answer.skip + row - 1
      IN  listing[i] = answer.base /\ line <= Len(listing) =>
            answer.rows[row].address = listing[line]

(* The hexadecimal value of a C variable in memory is that of the bytes    *)
(* readMemory shows at its address, low byte first, as much of them as     *)
(* there is below the top of memory and as 16 bits show (c_variable_value, *)
(* read_memory); evaluate shows the first of them (evaluate).              *)
ViewsAgree ==
  Shows("variable") =>
    LET v     == answer.variable
        a     == AddressOf(v, registers, symbols)
        bytes == ReadMemory(memory, a, v.size)
    IN  a # Unknown =>
          /\ answer.value.hex =
               bytes[1] + (IF Len(bytes) > 1 THEN bytes[2] * ByteSpace ELSE 0)
          /\ Evaluate([value |-> a], memory, registers, symbols).result = Low(answer.value.hex)

(* The name of a register hides it, or a C object of that name comes first *)
Hidden(n) ==
  /\ ~n.c
  /\ n.name \in RegisterNames \/ \E i \in DOMAIN symbols : symbols[i].name = n.name /\ symbols[i].c

LeadsTo(n, a) ==
  Hidden(n) \/ Evaluate(n, memory, registers, symbols) = [result |-> a, reference |-> a]

(* A name the debugger shows leads back to the place it was shown for: the *)
(* symbol of an instruction evaluates to its address, and that of a frame  *)
(* to PC less the offset beside it (lookup_symbol_exact, lookup_symbol,    *)
(* evaluate), unless evaluate takes it for something else.                 *)
SymbolsAgree ==
  /\ Shows("instructions") =>
       \A i \in DOMAIN answer.rows :
         LET row == answer.rows[i]
         IN  row.symbol # Unknown => LeadsTo(row.symbol, row.address)
  /\ Shows("frame") /\ answer.name # Unknown =>
       LeadsTo(answer.name.symbol, registers["PC"] - answer.name.offset)

(* "Show as signed decimal when type_info indicates signed integer." An    *)
(* integer of up to two bytes in memory has a signed decimal beside its    *)
(* hexadecimal value if and only if its type says S, not U (is_signed in   *)
(* c_variable_value).                                                      *)
ShownSigned ==
  Shows("variable") =>
    LET v == answer.variable
    IN  AddressOf(v, registers, symbols) # Unknown /\ v.base \in {"SI", "SC"} /\ v.size <= 2
        => (answer.value.decimal # Unknown <=> v.sign = "S")
=============================================================================
