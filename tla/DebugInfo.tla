----------------------------- MODULE DebugInfo -----------------------------
(***************************************************************************)
(* What the debugger knows about a program: the modules cdb_parser builds  *)
(* from the records of a CDB file, the file-and-line index of dbg over     *)
(* them and the symbols of the MAP file, and the answers computed from     *)
(* both.  Everything here is a pure operator.                              *)
(*                                                                         *)
(* A file is a record [dir, stem, ext]: its directory, its name up to the  *)
(* last dot, and what follows the dot.  resolve_source_path, which looks   *)
(* for it below the source roots, may change the directory only, and no    *)
(* key holds a directory: it is left out.                                  *)
(***************************************************************************)
EXTENDS Integers, SequencesExt

CONSTANTS
  AddrSpace,  \* 2^16
  NoAddr      \* no address

ASSUME AddrAssumption == AddrSpace \in Nat \ {0} /\ NoAddr \notin 0..(AddrSpace - 1)

(* The address that stands for none in a function's range: 0xFFFF. *)
Unset == AddrSpace - 1

(* The key of addr_by_file_line_: a file name, or a stem alone, and a line. *)
Key(stem, ext, line) == [stem |-> stem, ext |-> ext, line |-> line]

FileKey(file, line) == Key(file.stem, file.ext, line)

SameName(f, g) == f.stem = g.stem /\ f.ext = g.ext

-----------------------------------------------------------------------------
(* cdb_parser: the records of a CDB file in order, to a list of modules.   *)

Stub(name, ext) ==
  [name |-> name, file |-> [dir |-> "", stem |-> name, ext |-> ext],
   functions |-> << >>, globals |-> << >>, lines |-> << >>, asm |-> {}]

Named(modules, name) == {i \in DOMAIN modules : modules[i].name = name}

First(indices) == CHOOSE i \in indices : \A j \in indices : i <= j

(* M:<module> *)
ParseModule(modules, r) == Append(modules, Stub(r.name, "c"))

(* F:<scope>$<name>...: a function of the current module, which is the     *)
(* last one                                                                *)
ParseFunction(modules, r) ==
  IF modules = << >> THEN modules
  ELSE [modules EXCEPT ![Len(modules)].functions =
          Append(@, [name |-> r.name, start |-> Unset, end |-> Unset, locals |-> << >>])]

ParseSymbol_LastFunction(modules, r) ==
  IF modules = << >> THEN modules
  ELSE IF r.scope # "L"
  THEN [modules EXCEPT ![Len(modules)].globals = Append(@, r)]
  ELSE [modules EXCEPT ![Len(modules)].functions[Len(Last(modules).functions)].locals =
          Append(@, r)]

(* S:L<module>.<function>$<name>... is a local of the first function of    *)
(* that name in the current module, whatever module it names, or lost if   *)
(* there is none; S:G and S:F are variables of the current module.         *)
ParseSymbol(modules, r) ==
  LET m      == Last(modules)
      owners == {j \in DOMAIN m.functions : m.functions[j].name = r.function}
  IN  IF modules = << >> \/ (r.scope = "L" /\ owners = {}) THEN modules
      ELSE IF r.scope # "L"
      THEN [modules EXCEPT ![Len(modules)].globals = Append(@, r)]
      ELSE [modules EXCEPT ![Len(modules)].functions[First(owners)].locals = Append(@, r)]

ParseMarker_StartOnly(modules, r) ==
  LET found == {i \in DOMAIN modules :
                  /\ r.module \in {"", modules[i].name}
                  /\ \E f \in Range(modules[i].functions) : f.name = r.name}
      i     == First(found)
      j     == First({k \in DOMAIN modules[i].functions :
                        modules[i].functions[k].name = r.name})
  IN  IF found = {} THEN modules
      ELSE [modules EXCEPT ![i].functions[j].start = r.addr]

(* L:F<module>$<name> and L:G$<name>, which names no module, with X before *)
(* them for the end: the first function of that name, in any module if     *)
(* none is named                                                           *)
ParseMarker(modules, r) ==
  LET found == {i \in DOMAIN modules :
                  /\ r.module \in {"", modules[i].name}
                  /\ \E f \in Range(modules[i].functions) : f.name = r.name}
      i     == First(found)
      j     == First({k \in DOMAIN modules[i].functions :
                        modules[i].functions[k].name = r.name})
  IN  IF found = {} THEN modules
      ELSE IF r.isEnd
      THEN [modules EXCEPT ![i].functions[j].end = r.addr]
      ELSE [modules EXCEPT ![i].functions[j].start = r.addr]

(* L:C$<file>$<line>...: to the current module, if the path of the file    *)
(* less its extension is its name, or else to the first so named.          *)
ParseCLine(modules, r) ==
  LET named == IF r.file.dir = "" /\ r.file.ext # "" THEN Named(modules, r.file.stem) ELSE {}
      i     == IF Len(modules) \in named THEN Len(modules) ELSE First(named)
      m     == modules[i]
  IN  IF named = {} THEN modules
      ELSE [modules EXCEPT ![i] =
              [m EXCEPT !.file = IF @ = Stub(m.name, "c").file THEN r.file ELSE @,
                        !.lines = Append(@, r)]]

(* L:A$<module>$<line>:<address>, kept apart until merge_asm_lines; of two *)
(* records for a line the first counts.                                    *)
AsmLines(records, name) ==
  LET of(line) == {i \in DOMAIN records :
                     records[i].kind = "A" /\ records[i].name = name /\ records[i].line = line}
  IN  {records[i] : i \in {i \in DOMAIN records :
                             records[i].kind = "A" /\ records[i].name = name
                               /\ i = First(of(records[i].line))}}

MergeAsmLines(modules, records) ==
  LET names   == {r.name : r \in {s \in Range(records) : s.kind = "A"}}
      missing == SetToSeq({n \in names : Named(modules, n) = {}})
      all     == modules \o [i \in DOMAIN missing |-> Stub(missing[i], "s")]
  IN  [i \in DOMAIN all |->
         IF i = First(Named(all, all[i].name))
         THEN [all[i] EXCEPT !.asm = AsmLines(records, all[i].name)]
         ELSE all[i]]

ParseRecord(modules, r) ==
  CASE r.kind = "M" -> ParseModule(modules, r)
    [] r.kind = "F" -> ParseFunction(modules, r)
    [] r.kind = "S" -> ParseSymbol(modules, r)
    [] r.kind = "L" -> ParseMarker(modules, r)
    [] r.kind = "C" -> ParseCLine(modules, r)
    [] OTHER        -> modules

Parse(records) == MergeAsmLines(FoldLeft(ParseRecord, << >>, records), records)

-----------------------------------------------------------------------------
(* dbg: the file-and-line index, and the lookups the breakpoints use.      *)

IsAsmModule_Any(m) == m.asm # {}

IsAsmModule(m) == m.file.ext \in {"s", "asm"}

Entry(key, addr) == [key |-> key, addr |-> addr]

AsmEntries(m) ==
  SetToSeq({Entry(Key(m.name, "", r.line), r.addr) : r \in m.asm})

CEntries(m) ==
  [i \in DOMAIN m.lines |->
     Entry(FileKey(m.lines[i].file, m.lines[i].line), m.lines[i].addr)]

(* The entries in the order rebuild_source_index offers them to the index. *)
Entries(modules) ==
  FlattenSeq([i \in DOMAIN modules |->
                (IF IsAsmModule(modules[i]) THEN AsmEntries(modules[i]) ELSE << >>)
                  \o CEntries(modules[i])])

(* MAP symbols are C$<file>$<line> markers or functions. *)
Markers(symbols) == {i \in DOMAIN symbols : symbols[i].kind = "C"}

MarkerKey(s) == FileKey(s.file, s.line)

(* emplace keeps the first entry of a key, and those of the CDB come first. *)
AddrByFileLine(modules, symbols) ==
  LET all      == Entries(modules)
      entry(k) == {i \in DOMAIN all : all[i].key = k}
      marks(k) == {i \in Markers(symbols) : MarkerKey(symbols[i]) = k}
  IN  [k \in {all[i].key : i \in DOMAIN all}
               \cup {MarkerKey(symbols[i]) : i \in Markers(symbols)} |->
         IF entry(k) # {} THEN all[First(entry(k))].addr
         ELSE symbols[First(marks(k))].addr]

(* By file name, or else by stem. *)
LookupAddress(index, file, line) ==
  LET byName == FileKey(file, line)
      byStem == Key(file.stem, "", line)
  IN  IF byName \in DOMAIN index THEN index[byName]
      ELSE IF byStem \in DOMAIN index THEN index[byStem]
      ELSE NoAddr

(* A symbol holds the names it answers to: _main those of main and _main,  *)
(* G$main$0$0 that of main, a label its own.  The first one is taken.      *)
LookupFunctionAddress(symbols, name) ==
  LET found == {i \in DOMAIN symbols : symbols[i].kind = "F" /\ name \in symbols[i].names}
  IN  IF found = {} THEN NoAddr ELSE symbols[First(found)].addr

(* source_by_addr_: of the CDB lines at an address the last, or else the   *)
(* first MAP marker.  asm_by_addr_: of the first module with a line there, *)
(* any of its lines, for they come from an unordered map.  A location is a *)
(* set, of the values it may have.                                         *)
Location(file, line) == [file |-> file, line |-> line]

LookupSource(modules, symbols, addr) ==
  LET cLines == FlattenSeq([i \in DOMAIN modules |-> modules[i].lines])
      atCdb  == {i \in DOMAIN cLines : cLines[i].addr = addr}
      atMap  == {i \in Markers(symbols) : symbols[i].addr = addr}
      shown  == IF atCdb # {} THEN cLines[Max(atCdb)] ELSE symbols[First(atMap)]
  IN  IF atCdb = {} /\ atMap = {} THEN {} ELSE {Location(shown.file, shown.line)}

LookupAsm(modules, addr) ==
  LET found == {i \in DOMAIN modules :
                  IsAsmModule(modules[i]) /\ \E r \in modules[i].asm : r.addr = addr}
      m     == modules[First(found)]
  IN  IF found = {} THEN {}
      ELSE {Location(m.file, r.line) : r \in {s \in m.asm : s.addr = addr}}

LookupSourceAny(modules, symbols, addr) ==
  IF LookupSource(modules, symbols, addr) # {}
  THEN LookupSource(modules, symbols, addr)
  ELSE LookupAsm(modules, addr)

(* No function is shown at an address. *)
NoFunction == << >>

(* The range of a function holds the address. *)
Encloses(f, addr) == f.start # Unset /\ f.start <= addr /\ (f.end = Unset \/ addr < f.end)

(* lookup_function_at: the first function whose range holds the address,   *)
(* or the one whose MAP symbol is nearest below, the last of several.      *)
FunctionAt(modules, symbols, addr) ==
  LET all     == FlattenSeq([i \in DOMAIN modules |-> modules[i].functions])
      symbol(k) == LookupFunctionAddress(symbols, all[k].name)
      inRange == {k \in DOMAIN all : Encloses(all[k], addr)}
      below   == {k \in DOMAIN all : symbol(k) # NoAddr /\ symbol(k) <= addr}
      nearest == CHOOSE k \in below : \A j \in below :
                   symbol(j) < symbol(k) \/ (symbol(j) = symbol(k) /\ j <= k)
  IN  IF inRange # {} THEN all[First(inRange)]
      ELSE IF below # {} THEN all[nearest]
      ELSE NoFunction

(* get_variables: what the scopes Locals, at an address, and Globals show, *)
(* the globals without their order.  A type that mentions a function is    *)
(* taken for that of a function.                                           *)
Locals(modules, symbols, addr) ==
  LET f == FunctionAt(modules, symbols, addr)
  IN  IF f = NoFunction THEN << >> ELSE f.locals

Globals(modules) ==
  {v \in UNION {Range(modules[i].globals) : i \in DOMAIN modules} : ~v.ofFunction}

(* build_full_listing: the addresses of its lines, from the lengths of the *)
(* instructions; a length that is not positive counts as one.              *)
Listing(length) ==
  LET from[a \in Nat] ==
        IF a >= AddrSpace THEN << >>
        ELSE <<a>> \o from[a + (IF length[a] <= 0 THEN 1 ELSE length[a])]
  IN  from[0]

(* get_breakpoint_locations: the lines offered for breakpoints in a file *)
BreakpointLocations(modules, symbols, file, first, last) ==
  LET cLines  == {r \in UNION {Range(modules[i].lines) : i \in DOMAIN modules} :
                    SameName(r.file, file)}
      asm     == UNION {modules[i].asm : i \in
                          {i \in DOMAIN modules : SameName(modules[i].file, file)}}
      markers == {s \in {symbols[i] : i \in Markers(symbols)} : SameName(s.file, file)}
  IN  {r.line : r \in cLines \cup asm \cup markers} \cap first..last
=============================================================================
