-------------------------- MODULE DebugInfoProofs --------------------------
(***************************************************************************)
(* What cdb_parser makes of the records of a CDB file, whatever they are:  *)
(* modules of those very records, and, if the records are in order, each   *)
(* function with the locals and the range declared for it.                 *)
(***************************************************************************)
EXTENDS Breakpoints, FiniteSetTheorems, SequenceTheorems, Recursion

(* What the records R of a CDB file can make modules of *)
Names(R)        == {r.name : r \in R}
CLines(R)       == {r \in R : r.kind = "C"}
ALines(R)       == {r \in R : r.kind = "A"}
FilesOf(R)      == {r.file : r \in R} \cup {Stub(n, e).file : n \in Names(R), e \in {"c", "s"}}
AddrsOf(R)      == {r.addr : r \in R} \cup {Unset}
CdbFunctions(R) ==
  [name : Names(R), start : AddrsOf(R), end : AddrsOf(R), locals : Seq(R)]
CdbModules(R) ==
  {m \in [name : Names(R), file : FilesOf(R), functions : Seq(CdbFunctions(R)), globals : Seq(R),
          lines : Seq(CLines(R)), asm : SUBSET ALines(R)] : m.file.stem = m.name}

(* The first of some places is one of them. *)
LEMMA FirstIsLeast ==
  ASSUME NEW T, T \subseteq Nat, T # {}
  PROVE  First(T) \in T /\ \A k \in T : First(T) <= k
<1>1. \E m \in T : \A k \in T : m <= k
  BY LeastExists
<1> QED  BY <1>1 DEF First

(* A module changed in one of its fields *)
LEMMA Changed ==
  ASSUME NEW R, NEW m \in CdbModules(R)
  PROVE  /\ m.name \in Names(R) /\ m.file \in FilesOf(R) /\ m.functions \in Seq(CdbFunctions(R))
         /\ m.globals \in Seq(R) /\ m.lines \in Seq(CLines(R)) /\ m.asm \in SUBSET ALines(R)
         /\ m.file.stem = m.name
         /\ \A x \in Seq(CdbFunctions(R)) : [m EXCEPT !.functions = x] \in CdbModules(R)
         /\ \A x \in Seq(R) : [m EXCEPT !.globals = x] \in CdbModules(R)
         /\ \A x \in SUBSET ALines(R) : [m EXCEPT !.asm = x] \in CdbModules(R)
         /\ \A f \in FilesOf(R), x \in Seq(CLines(R)) : f.stem = m.name =>
              [m EXCEPT !.file = f, !.lines = x] \in CdbModules(R)
BY DEF CdbModules

(* A module in its place *)
LEMMA Replaced ==
  ASSUME NEW S, NEW s \in Seq(S), NEW i, NEW x, i \in DOMAIN s => x \in S
  PROVE  [s EXCEPT ![i] = x] \in Seq(S)
<1>1. DOMAIN s = 1..Len(s)
  BY LenProperties
<1>2. CASE i \in DOMAIN s
  BY <1>1, <1>2, ExceptSeq
<1>3. CASE i \notin DOMAIN s
  <2>1. [s EXCEPT ![i] = x] = s
    BY <1>1, <1>3, LenProperties
  <2> QED  BY <2>1
<1> QED  BY <1>2, <1>3

(* The places of a sequence *)
LEMMA Places ==
  ASSUME NEW S, NEW s \in Seq(S)
  PROVE  /\ DOMAIN s = 1..Len(s) /\ Len(s) \in Nat /\ DOMAIN s \subseteq Nat
         /\ \A i \in DOMAIN s : s[i] \in S
         /\ Range(s) \subseteq S
         /\ \A x \in S : Append(s, x) \in Seq(S)
<1>1. /\ DOMAIN s = 1..Len(s) /\ Len(s) \in Nat /\ DOMAIN s \subseteq Nat
      /\ \A i \in DOMAIN s : s[i] \in S
  BY LenProperties, ElementOfSeq
<1>2. Range(s) \subseteq S
  BY <1>1 DEF Range
<1> QED  BY <1>1, <1>2, AppendProperties

(* A new module *)
LEMMA StubTyped ==
  ASSUME NEW R, NEW n \in Names(R), NEW e \in {"c", "s"}
  PROVE  Stub(n, e) \in CdbModules(R)
<1> DEFINE file == [dir |-> "", stem |-> n, ext |-> e]
<1>0. file.stem = n
  OBVIOUS
<1>1. Stub(n, e) = [name |-> n, file |-> file, functions |-> << >>, globals |-> << >>,
                    lines |-> << >>, asm |-> {}]
  BY DEF Stub
<1>2. Stub(n, e).file = file
  BY DEF Stub
<1>3. file \in FilesOf(R)
  <2>1. Stub(n, e).file \in FilesOf(R)
    BY DEF FilesOf
  <2> QED  BY <1>2, <2>1
<1> HIDE DEF file
<1>4. << >> \in Seq(CdbFunctions(R)) /\ << >> \in Seq(R) /\ << >> \in Seq(CLines(R))
  OBVIOUS
<1> QED  BY <1>0, <1>1, <1>3, <1>4 DEF CdbModules

(* An M record: a new module *)
LEMMA ParseModuleTyped ==
  ASSUME NEW R, NEW ms \in Seq(CdbModules(R)), NEW r \in R
  PROVE  ParseModule(ms, r) \in Seq(CdbModules(R))
<1>1. r.name \in Names(R)
  BY DEF Names
<1> QED  BY <1>1, StubTyped, Places DEF ParseModule

(* An F record: a function of the last module, without markers yet *)
LEMMA ParseFunctionTyped ==
  ASSUME NEW R, NEW ms \in Seq(CdbModules(R)), NEW r \in R
  PROVE  ParseFunction(ms, r) \in Seq(CdbModules(R))
<1> DEFINE f == [name |-> r.name, start |-> Unset, end |-> Unset, locals |-> << >>]
           n == Len(ms)
<1>1. f \in CdbFunctions(R)
  BY DEF CdbFunctions, Names, AddrsOf
<1> HIDE DEF f
<1>2. CASE ms # << >>
  <2>1. n \in DOMAIN ms /\ ms[n] \in CdbModules(R)
    BY <1>2
  <2>2. Append(ms[n].functions, f) \in Seq(CdbFunctions(R))
    BY <1>1, <2>1, Changed, Places
  <2>3. [ms[n] EXCEPT !.functions = Append(ms[n].functions, f)] \in CdbModules(R)
    BY <2>1, <2>2, Changed
  <2>4. ParseFunction(ms, r) =
          [ms EXCEPT ![n] = [ms[n] EXCEPT !.functions = Append(ms[n].functions, f)]]
    BY <1>2, <2>1 DEF ParseFunction, f
  <2> QED  BY <2>3, <2>4, Replaced
<1> QED  BY <1>2 DEF ParseFunction

(* An S record: a variable of the last module or of one of its functions *)
LEMMA ParseSymbolTyped ==
  ASSUME NEW R, NEW ms \in Seq(CdbModules(R)), NEW r \in R
  PROVE  ParseSymbol(ms, r) \in Seq(CdbModules(R))
<1> DEFINE n == Len(ms)
           m == Last(ms)
           owners == {j \in DOMAIN m.functions : m.functions[j].name = r.function}
           j == First(owners)
           locals == Append(m.functions[j].locals, r)
           function == [m.functions[j] EXCEPT !.locals = locals]
           functions == [m.functions EXCEPT ![j] = function]
<1>1. CASE ms # << >>
  <2>1. n \in DOMAIN ms /\ m = ms[n] /\ m \in CdbModules(R)
    BY <1>1 DEF Last
  <2>2. m.functions \in Seq(CdbFunctions(R)) /\ m.globals \in Seq(R)
    BY <2>1, Changed
  <2>3. CASE r.scope # "L"
    <3>1. [m EXCEPT !.globals = Append(m.globals, r)] \in CdbModules(R)
      <4> HIDE DEF m
      <4>1. Append(m.globals, r) \in Seq(R)
        BY <2>2, Places
      <4> QED  BY <2>1, <4>1, Changed
    <3>2. ParseSymbol(ms, r) = [ms EXCEPT ![n] = [m EXCEPT !.globals = Append(m.globals, r)]]
      BY <1>1, <2>1, <2>3 DEF ParseSymbol
    <3> QED  BY <3>1, <3>2, Replaced
  <2>4. CASE r.scope = "L" /\ owners # {}
    <3>1. owners \subseteq Nat /\ owners \subseteq DOMAIN m.functions
      BY <2>2
    <3>2. j \in DOMAIN m.functions
      BY <2>4, <3>1, FirstIsLeast
    <3> HIDE DEF j, m, owners
    <3>3. m.functions[j] \in CdbFunctions(R)
      BY <2>2, <3>2, Places
    <3>4. locals \in Seq(R) /\ function \in CdbFunctions(R)
      <4>1. m.functions[j].locals \in Seq(R)
        BY <3>3 DEF CdbFunctions
      <4>2. locals \in Seq(R)
        BY <4>1, Places
      <4> HIDE DEF locals
      <4> QED  BY <3>3, <4>2 DEF CdbFunctions
    <3>5. functions \in Seq(CdbFunctions(R))
      BY <2>2, <3>4, Replaced
    <3>6. [m EXCEPT !.functions = functions] \in CdbModules(R)
      BY <2>1, <3>5, Changed
    <3>7. ParseSymbol(ms, r) = [ms EXCEPT ![n] = [m EXCEPT !.functions = functions]]
      <4>1. ParseSymbol(ms, r) = [ms EXCEPT ![n].functions[j].locals = Append(@, r)]
        BY <1>1, <2>4 DEF ParseSymbol, j, m, owners
      <4> QED  BY <2>1, <4>1, Zenon
    <3> QED  BY <3>6, <3>7, Replaced
  <2>5. CASE r.scope = "L" /\ owners = {}
    BY <2>5 DEF ParseSymbol
  <2> QED  BY <2>3, <2>4, <2>5
<1> QED  BY <1>1 DEF ParseSymbol

(* An L record of a function: the address is its start or its end. *)
LEMMA ParseMarkerTyped ==
  ASSUME NEW R, NEW ms \in Seq(CdbModules(R)), NEW r \in R, r.kind = "L"
  PROVE  ParseMarker(ms, r) \in Seq(CdbModules(R))
<1> DEFINE found == {i \in DOMAIN ms : /\ r.module \in {"", ms[i].name}
                                       /\ \E f \in Range(ms[i].functions) : f.name = r.name}
           i == First(found)
           j == First({k \in DOMAIN ms[i].functions : ms[i].functions[k].name = r.name})
<1>1. CASE found # {}
  <2>1. found \subseteq Nat /\ found \subseteq DOMAIN ms
    <3>1. found \subseteq DOMAIN ms
      OBVIOUS
    <3> HIDE DEF found
    <3> QED  BY <3>1, Places
  <2>2. i \in DOMAIN ms
    BY <1>1, <2>1, FirstIsLeast
  <2>3. ms[i] \in CdbModules(R) /\ ms[i].functions \in Seq(CdbFunctions(R))
    <3> HIDE DEF i
    <3>1. ms[i] \in CdbModules(R)
      BY <2>2, Places
    <3> QED  BY <3>1, Changed
  <2>4. r.addr \in AddrsOf(R)
    BY DEF AddrsOf
  <2>5. ParseMarker(ms, r) = IF r.isEnd THEN [ms EXCEPT ![i].functions[j].end = r.addr]
                             ELSE [ms EXCEPT ![i].functions[j].start = r.addr]
    BY <1>1 DEF ParseMarker
  <2> HIDE DEF i, j, found
  <2>6. ASSUME NEW f \in {[ms[i].functions[j] EXCEPT !.end = r.addr],
                          [ms[i].functions[j] EXCEPT !.start = r.addr]}
        PROVE  [ms EXCEPT ![i] = [ms[i] EXCEPT !.functions = [ms[i].functions EXCEPT ![j] = f]]]
                 \in Seq(CdbModules(R))
    <3>1. j \in DOMAIN ms[i].functions => f \in CdbFunctions(R)
      <4> SUFFICES ASSUME j \in DOMAIN ms[i].functions PROVE f \in CdbFunctions(R)
        OBVIOUS
      <4>1. ms[i].functions[j] \in CdbFunctions(R)
        BY <2>3
      <4> QED  BY <2>4, <4>1 DEF CdbFunctions
    <3>2. [ms[i].functions EXCEPT ![j] = f] \in Seq(CdbFunctions(R))
      BY <2>3, <3>1, Replaced
    <3>3. [ms[i] EXCEPT !.functions = [ms[i].functions EXCEPT ![j] = f]] \in CdbModules(R)
      BY <2>3, <3>2, Changed
    <3> QED  BY <3>3, Replaced
  <2>7. /\ [ms EXCEPT ![i].functions[j].end = r.addr] =
             [ms EXCEPT ![i] = [ms[i] EXCEPT !.functions =
                [ms[i].functions EXCEPT ![j] = [ms[i].functions[j] EXCEPT !.end = r.addr]]]]
        /\ [ms EXCEPT ![i].functions[j].start = r.addr] =
             [ms EXCEPT ![i] = [ms[i] EXCEPT !.functions =
                [ms[i].functions EXCEPT ![j] = [ms[i].functions[j] EXCEPT !.start = r.addr]]]]
    BY Zenon
  <2> QED  BY <2>5, <2>6, <2>7
<1> QED  BY <1>1 DEF ParseMarker

(* An L record of a C line: a line of the module called as its file is *)
LEMMA ParseCLineTyped ==
  ASSUME NEW R, NEW ms \in Seq(CdbModules(R)), NEW r \in R, r.kind = "C"
  PROVE  ParseCLine(ms, r) \in Seq(CdbModules(R))
<1> DEFINE named == IF r.file.dir = "" /\ r.file.ext # "" THEN Named(ms, r.file.stem) ELSE {}
           i == IF Len(ms) \in named THEN Len(ms) ELSE First(named)
           m == ms[i]
           file == IF m.file = Stub(m.name, "c").file THEN r.file ELSE m.file
<1>1. CASE named # {}
  <2>1. named \subseteq Nat /\ named \subseteq DOMAIN ms
    <3>1. named \subseteq DOMAIN ms
      BY DEF Named
    <3> HIDE DEF named
    <3> QED  BY <3>1, Places
  <2>2. First(named) \in named
    BY <1>1, <2>1, FirstIsLeast
  <2>3. m \in CdbModules(R)
    <3>1. i \in DOMAIN ms
      BY <2>1, <2>2
    <3> HIDE DEF i
    <3> QED  BY <3>1, Places
  <2>4. r.file \in FilesOf(R) /\ r \in CLines(R) /\ r.file.stem = m.name
    <3>1. r.file \in FilesOf(R) /\ r \in CLines(R)
      BY DEF FilesOf, CLines
    <3>2. i \in named
      BY <2>2
    <3> QED  BY <3>1, <3>2 DEF Named
  <2>5. ParseCLine(ms, r) = [ms EXCEPT ![i] = [m EXCEPT !.file = file, !.lines = Append(m.lines, r)]]
    <3>1. ParseCLine(ms, r) =
            [ms EXCEPT ![i] = [m EXCEPT !.file = IF @ = Stub(m.name, "c").file THEN r.file ELSE @,
                                        !.lines = Append(@, r)]]
      BY <1>1 DEF ParseCLine
    <3> HIDE DEF i, named
    <3> QED  BY <2>3, <3>1 DEF CdbModules
  <2> HIDE DEF i, named, m
  <2>6. file \in FilesOf(R) /\ Append(m.lines, r) \in Seq(CLines(R)) /\ file.stem = m.name
    <3>1. m.file \in FilesOf(R) /\ m.lines \in Seq(CLines(R)) /\ m.file.stem = m.name
      BY <2>3, Changed
    <3> QED  BY <2>4, <3>1, Places
  <2>7. [m EXCEPT !.file = file, !.lines = Append(m.lines, r)] \in CdbModules(R)
    BY <2>3, <2>6, Changed
  <2> QED  BY <2>5, <2>7, Replaced
<1> QED  BY <1>1 DEF ParseCLine

(* cdb_parser::parse_line: any record *)
LEMMA ParseRecordTyped ==
  ASSUME NEW R, NEW ms \in Seq(CdbModules(R)), NEW r \in R
  PROVE  ParseRecord(ms, r) \in Seq(CdbModules(R))
BY ParseModuleTyped, ParseFunctionTyped, ParseSymbolTyped, ParseMarkerTyped, ParseCLineTyped
   DEF ParseRecord

(* The assembly lines of a module are among the records. *)
LEMMA AsmLinesTyped ==
  ASSUME NEW records, NEW name
  PROVE  AsmLines(records, name) \subseteq ALines(Range(records))
BY DEF AsmLines, ALines, Range

(* A finite set has its elements in a sequence. *)
LEMMA InSequence ==
  ASSUME NEW S, IsFiniteSet(S)
  PROVE  SetToSeq(S) \in Seq(S)
<1> DEFINE n == Cardinality(S)
<1>1. n \in Nat /\ ExistsBijection(1..n, S)
  BY FS_CardinalityType
<1>2. \E f \in [1..n -> S] : IsInjective(f)
  BY <1>1 DEF ExistsBijection, Bijection, Injection, IsInjective
<1>3. SetToSeq(S) \in [1..n -> S]
  BY <1>2, Zenon DEF SetToSeq
<1> QED  BY <1>1, <1>3, IsASeq, SeqDef

(* The records of a file are finite in number. *)
LEMMA RangeFinite ==
  ASSUME NEW S, NEW s \in Seq(S)
  PROVE  IsFiniteSet(Range(s))
<1>1. DOMAIN s = 1..Len(s) /\ Len(s) \in Nat
  BY Places
<1>2. IsFiniteSet(1..Len(s))
  BY <1>1, FS_Interval
<1>3. s \in Surjection(DOMAIN s, Range(s))
  BY Places DEF Surjection, Range
<1> QED  BY <1>1, <1>2, <1>3, FS_Surjection

(* The modules, the first of each name with its assembly lines *)
GivenAsm(all, records) ==
  [i \in DOMAIN all |-> IF i = First(Named(all, all[i].name))
                        THEN [all[i] EXCEPT !.asm = AsmLines(records, all[i].name)]
                        ELSE all[i]]

(* merge_asm_lines adds modules and gives the first of each name its lines. *)
LEMMA MergeParts ==
  ASSUME NEW R, NEW records \in Seq(R), R = Range(records), NEW ms \in Seq(CdbModules(R))
  PROVE  \E stubs \in Seq(CdbModules(R)) :
           /\ \A i \in DOMAIN stubs : \E name : stubs[i] = Stub(name, "s")
           /\ MergeAsmLines(ms, records) = GivenAsm(ms \o stubs, records)
<1> DEFINE names   == {r.name : r \in {s \in Range(records) : s.kind = "A"}}
           T       == {n \in names : Named(ms, n) = {}}
           missing == SetToSeq(T)
           stubs   == [i \in DOMAIN missing |-> Stub(missing[i], "s")]
           all     == ms \o stubs
<1>1. names \subseteq Names(R) /\ IsFiniteSet(names)
  <2>1. IsFiniteSet(R)
    BY RangeFinite
  <2>2. IsFiniteSet({s \in Range(records) : s.kind = "A"})
    BY <2>1, FS_Subset
  <2>3. IsFiniteSet(names)
    <3> DEFINE A == {s \in Range(records) : s.kind = "A"}
               name == [r \in A |-> r.name]
    <3>1. name \in Surjection(A, names)
      BY DEF Surjection
    <3> QED  BY <2>2, <3>1, FS_Surjection
  <2> QED  BY <2>3 DEF Names
<1>2. T \subseteq Names(R) /\ IsFiniteSet(T)
  BY <1>1, FS_Subset
<1> HIDE DEF T
<1>3. missing \in Seq(Names(R))
  <2>1. missing \in Seq(T)
    BY <1>2, InSequence
  <2> QED  BY <1>2, <2>1, SeqMonotonic
<1> HIDE DEF missing
<1>4. stubs \in Seq(CdbModules(R))
  <2>1. DOMAIN missing = 1..Len(missing) /\ Len(missing) \in Nat
        /\ \A i \in DOMAIN missing : missing[i] \in Names(R)
    BY <1>3, Places
  <2>2. \A i \in 1..Len(missing) : Stub(missing[i], "s") \in CdbModules(R)
    BY <2>1, StubTyped
  <2>3. stubs \in [1..Len(missing) -> CdbModules(R)]
    BY <2>1, <2>2
  <2> QED  BY <2>1, <2>3, SeqDef
<1>5. \A i \in DOMAIN stubs : \E name : stubs[i] = Stub(name, "s")
  OBVIOUS
<1> HIDE DEF stubs
<1>6. MergeAsmLines(ms, records) = GivenAsm(all, records)
  BY Zenon DEF MergeAsmLines, GivenAsm, stubs, missing, T
<1> QED  BY <1>4, <1>5, <1>6, Zenon

(* What it makes are modules of the records. *)
LEMMA MergeTyped ==
  ASSUME NEW R, NEW records \in Seq(R), R = Range(records), NEW ms \in Seq(CdbModules(R))
  PROVE  MergeAsmLines(ms, records) \in Seq(CdbModules(R))
<1>1. PICK stubs \in Seq(CdbModules(R)) :
        MergeAsmLines(ms, records) = GivenAsm(ms \o stubs, records)
  BY MergeParts, Zenon
<1> DEFINE all == ms \o stubs
<1>2. all \in Seq(CdbModules(R))
  BY <1>1, ConcatProperties
<1>3. MergeAsmLines(ms, records) =
        [i \in DOMAIN all |-> IF i = First(Named(all, all[i].name))
                              THEN [all[i] EXCEPT !.asm = AsmLines(records, all[i].name)]
                              ELSE all[i]]
  BY <1>1 DEF GivenAsm
<1> HIDE DEF all
<1>4. DOMAIN all = 1..Len(all) /\ Len(all) \in Nat
      /\ \A i \in DOMAIN all : all[i] \in CdbModules(R)
  BY <1>2, Places
<1>5. \A i \in DOMAIN all :
        [all[i] EXCEPT !.asm = AsmLines(records, all[i].name)] \in CdbModules(R)
  BY <1>4, AsmLinesTyped, Changed
<1>6. MergeAsmLines(ms, records) \in [1..Len(all) -> CdbModules(R)]
  BY <1>3, <1>4, <1>5
<1> QED  BY <1>4, <1>6, SeqDef

(* cdb_parser goes from record to record. *)
LEMMA FoldSteps ==
  ASSUME NEW R, NEW records \in Seq(R)
  PROVE  \E F \in [0..Len(records) -> Seq(CdbModules(R))] :
           /\ F[0] = << >>
           /\ \A k \in 1..Len(records) : F[k] = ParseRecord(F[k - 1], records[k])
           /\ FoldLeft(ParseRecord, << >>, records) = F[Len(records)]
<1> DEFINE n == Len(records)
           S == Seq(CdbModules(R))
           step == [p \in S \X Nat |->
                      IF p[2] \in DOMAIN records THEN ParseRecord(p[1], records[p[2]]) ELSE p[1]]
<1>1. n \in Nat /\ DOMAIN records = 1..n /\ \A i \in 1..n : records[i] \in R
  BY Places
<1>2. \A v \in S, k \in Nat :
        step[<<v, k>>] = IF k \in DOMAIN records THEN ParseRecord(v, records[k]) ELSE v
  OBVIOUS
<1>3. << >> \in S
  OBVIOUS
<1> HIDE DEF step, n
<1>4. \A v \in S, k \in Nat : step[<<v, k>>] \in S
  <2> TAKE v \in S, k \in Nat
  <2>1. k \in DOMAIN records => ParseRecord(v, records[k]) \in S
    BY <1>1, ParseRecordTyped
  <2> QED  BY <1>2, <2>1
<1> HIDE DEF S
<1>5. PICK g \in [SUBSET (1..n) -> S] : IsFold(g, << >>, step, n)
  BY <1>1, <1>3, <1>4, FoldExists
<1>6. g = [s \in SUBSET DOMAIN records |->
             IF s = {} THEN << >> ELSE ParseRecord(g[s \ {Max(s)}], records[Max(s)])]
  <2>1. ASSUME NEW s \in SUBSET (1..n)
        PROVE  g[s] = IF s = {} THEN << >> ELSE ParseRecord(g[s \ {Max(s)}], records[Max(s)])
    <3>1. g[s] = IF s = {} THEN << >> ELSE step[<<g[s \ {Max(s)}], Max(s)>>]
      BY <1>5 DEF IsFold
    <3>2. CASE s # {}
      <4>1. s \subseteq Nat /\ \A x \in s : x <= n  BY <1>1
      <4>2. Max(s) \in s  BY <1>1, <3>2, <4>1, MaxIsGreatest
      <4>3. Max(s) \in DOMAIN records /\ Max(s) \in Nat
        BY <1>1, <4>1, <4>2
      <4>4. g[s \ {Max(s)}] \in S
        OBVIOUS
      <4> QED  BY <1>2, <3>1, <3>2, <4>3, <4>4
    <3> QED  BY <3>1, <3>2
  <2> QED  BY <1>1, <2>1
<1>7. PICK h : /\ h = [s \in SUBSET DOMAIN records |->
                        IF s = {} THEN << >>
                        ELSE ParseRecord(h[s \ {Max(s)}], records[Max(s)])]
               /\ FoldLeft(ParseRecord, << >>, records) = h[DOMAIN records]
  BY <1>6, Zenon DEF FoldLeft, MapThenFoldSet
<1> DEFINE F == [k \in 0..n |-> h[1..k]]
           P == {k \in 0..n : F[k] \in S}
<1>8. ASSUME NEW k \in 1..n PROVE h[1..k] = ParseRecord(h[1..(k - 1)], records[k])
  <2>1. 1..k \in SUBSET DOMAIN records /\ k \in Nat \ {0}
    BY <1>1
  <2>2. 1..k # {} /\ Max(1..k) = k /\ (1..k) \ {Max(1..k)} = 1..(k - 1)
    BY <2>1, Intervals
  <2>3. h[1..k] = IF 1..k = {} THEN << >>
                  ELSE ParseRecord(h[(1..k) \ {Max(1..k)}], records[Max(1..k)])
    BY <1>7, <2>1
  <2> QED  BY <2>2, <2>3
<1>9. F[0] = << >> /\ 0 \in 0..n
  <2>1. 0 \in 0..n /\ 1..0 = {}  BY <1>1, Intervals
  <2>2. h[{}] = << >>  BY <1>7
  <2> QED  BY <2>1, <2>2
<1>10. \A k \in 1..n : F[k] = ParseRecord(F[k - 1], records[k])
  <2> TAKE k \in 1..n
  <2>1. k \in 0..n /\ k - 1 \in 0..n  BY <1>1
  <2> QED  BY <1>8, <2>1
<1>11. FoldLeft(ParseRecord, << >>, records) = F[n]
  <2>1. n \in 0..n  BY <1>1
  <2> QED  BY <1>1, <1>7, <2>1
<1> HIDE DEF F
<1>12. 0 \in P
  BY <1>3, <1>9
<1>13. ASSUME NEW k \in 0..(n - 1), k \in P PROVE k + 1 \in P
  <2>1. k + 1 \in 1..n /\ k + 1 \in 0..n /\ k + 1 - 1 = k  BY <1>1
  <2>2. F[k + 1] = ParseRecord(F[k], records[k + 1])  BY <1>10, <2>1
  <2>3. F[k] \in S /\ records[k + 1] \in R  BY <1>1, <1>13, <2>1
  <2>4. ParseRecord(F[k], records[k + 1]) \in S
    BY <2>3, ParseRecordTyped DEF S
  <2> QED  BY <2>1, <2>2, <2>4
<1> HIDE DEF P
<1>14. 0..n \subseteq P
  BY <1>1, <1>12, <1>13, InductionUpTo
<1>15. F \in [0..n -> S]
  <2>1. F = [k \in 0..n |-> F[k]]
    BY DEF F
  <2>2. \A k \in 0..n : F[k] \in S
    BY <1>14 DEF P
  <2> QED  BY <2>1, <2>2
<1> QED  BY <1>9, <1>10, <1>11, <1>15 DEF S, n

(* What is parsed so far is a list of modules. *)
LEMMA FoldTyped ==
  ASSUME NEW R, NEW records \in Seq(R)
  PROVE  FoldLeft(ParseRecord, << >>, records) \in Seq(CdbModules(R))
<1>1. Len(records) \in Nat
  BY Places
<1>2. Len(records) \in 0..Len(records)
  BY <1>1
<1>3. PICK F \in [0..Len(records) -> Seq(CdbModules(R))] :
        FoldLeft(ParseRecord, << >>, records) = F[Len(records)]
  BY FoldSteps
<1>4. F[Len(records)] \in Seq(CdbModules(R))
  BY <1>2
<1> QED  BY <1>3, <1>4, Zenon

(* The modules of a file hold its records. *)
LEMMA ParseTyped ==
  ASSUME NEW records, records \in Seq(Range(records))
  PROVE  Parse(records) \in Seq(CdbModules(Range(records)))
BY FoldTyped, MergeTyped DEF Parse

-----------------------------------------------------------------------------
(* Two sequences in one hold what each of them held. *)
LEMMA ConcatHolds ==
  ASSUME NEW S, NEW s \in Seq(S), NEW t \in Seq(S)
  PROVE  s \o t \in Seq(S) /\ Range(s) \subseteq Range(s \o t) /\ Range(t) \subseteq Range(s \o t)
<1>1. /\ DOMAIN s = 1..Len(s) /\ Len(s) \in Nat
      /\ DOMAIN t = 1..Len(t) /\ Len(t) \in Nat
      /\ s \o t \in Seq(S) /\ DOMAIN (s \o t) = 1..(Len(s) + Len(t))
  BY Places, ConcatProperties
<1>2. ASSUME NEW i \in 1..Len(s) PROVE i \in DOMAIN (s \o t) /\ (s \o t)[i] = s[i]
  BY <1>1, ConcatProperties
<1>3. ASSUME NEW i \in 1..Len(t)
      PROVE  Len(s) + i \in DOMAIN (s \o t) /\ (s \o t)[Len(s) + i] = t[i]
  BY <1>1, ConcatProperties
<1> QED  BY <1>1, <1>2, <1>3 DEF Range

(* What a sequence of sequences is made of *)
LEMMA FlattenTyped ==
  ASSUME NEW S, NEW seqs \in Seq(Seq(S))
  PROVE  /\ FlattenSeq(seqs) \in Seq(S)
         /\ \A i \in DOMAIN seqs : Range(seqs[i]) \subseteq Range(FlattenSeq(seqs))
<1> DEFINE n == Len(seqs)
           step == [p \in Seq(S) \X Nat |->
                      IF p[2] \in 1..n THEN p[1] \o seqs[p[2]] ELSE p[1]]
<1>1. n \in Nat /\ DOMAIN seqs = 1..n /\ \A i \in 1..n : seqs[i] \in Seq(S)
  BY Places
<1>2. CASE n = 0
  <2>1. seqs = << >>  BY <1>2, EmptySeq
  <2>2. FlattenSeq(seqs) = << >> /\ << >> \in Seq(S) /\ DOMAIN seqs = {}
    BY <1>2, <2>1 DEF FlattenSeq
  <2> QED  BY <2>2
<1>3. CASE n # 0
  <2>1. \A v \in Seq(S), k \in Nat :
          step[<<v, k>>] = IF k \in 1..n THEN v \o seqs[k] ELSE v
    OBVIOUS
  <2> HIDE DEF step, n
  <2>2. \A v \in Seq(S), k \in Nat : step[<<v, k>>] \in Seq(S)
    <3> TAKE v \in Seq(S), k \in Nat
    <3>1. k \in 1..n => v \o seqs[k] \in Seq(S)
      BY <1>1, ConcatProperties
    <3> QED  BY <2>1, <3>1
  <2>3. PICK g \in [Nat -> Seq(S)] : IsRecursion(g, << >>, step)
    <3>1. << >> \in Seq(S)  OBVIOUS
    <3> QED  BY <2>2, <3>1, RecursionExists
  <2>4. g[0] = << >> /\ \A k \in 1..n : g[k] = g[k - 1] \o seqs[k]
    <3>1. \A k \in 1..n : k \in Nat \ {0} /\ k \in Nat /\ k - 1 \in Nat
      BY <1>1
    <3> QED  BY <2>1, <2>3, <3>1 DEF IsRecursion
  <2> DEFINE f == [i \in 1..n |-> g[i]]
  <2>5. f = [i \in 1..n |-> IF i = 1 THEN seqs[i] ELSE f[i - 1] \o seqs[i]]
    <3>1. ASSUME NEW i \in 1..n
          PROVE  f[i] = IF i = 1 THEN seqs[i] ELSE f[i - 1] \o seqs[i]
      <4>1. CASE i = 1
        <5>1. g[1] = << >> \o seqs[1] /\ seqs[1] \in Seq(S)
          <6>1. 1 \in 1..n /\ 1 - 1 = 0  BY <4>1, <1>1
          <6> QED  BY <1>1, <2>4, <6>1
        <5>2. << >> \o seqs[1] = seqs[1]
          BY <5>1
        <5> QED  BY <4>1, <5>1, <5>2
      <4>2. CASE i # 1
        <5>1. i - 1 \in 1..n  BY <1>1, <4>2
        <5> QED  BY <2>4, <4>2, <5>1
      <4> QED  BY <4>1, <4>2
    <3> QED  BY <3>1
  <2>6. PICK h : /\ h = [i \in 1..n |-> IF i = 1 THEN seqs[i] ELSE h[i - 1] \o seqs[i]]
                 /\ FlattenSeq(seqs) = h[n]
    BY <1>3, <2>5, Zenon DEF FlattenSeq, n
  <2> DEFINE Holds(k) == k # 0 =>
                h[k] \in Seq(S) /\ \A i \in 1..k : Range(seqs[i]) \subseteq Range(h[k])
             P == {k \in 0..n : Holds(k)}
  <2>7. 0 \in P
    BY <1>1
  <2>8. ASSUME NEW k \in 0..(n - 1), k \in P PROVE k + 1 \in P
    <3>1. k + 1 \in 1..n /\ k + 1 \in 0..n /\ k + 1 - 1 = k /\ (k = 0 <=> k + 1 = 1)
      BY <1>1
    <3>2. h[k + 1] = IF k = 0 THEN seqs[k + 1] ELSE h[k] \o seqs[k + 1]
      <4> DEFINE Next1(i) == h[i] = IF i = 1 THEN seqs[i] ELSE h[i - 1] \o seqs[i]
      <4>1. \A i \in 1..n : Next1(i)
        BY <2>6
      <4> HIDE DEF Next1
      <4>2. Next1(k + 1)
        BY <3>1, <4>1
      <4> QED  BY <3>1, <4>2 DEF Next1
    <3>3. seqs[k + 1] \in Seq(S)
      BY <1>1, <3>1
    <3>4. CASE k = 0
      <4>1. h[k + 1] = seqs[k + 1] /\ \A i \in 1..(k + 1) : i = k + 1
        BY <3>2, <3>4
      <4> QED  BY <3>1, <3>3, <4>1
    <3>5. CASE k # 0
      <4>1. h[k] \in Seq(S) /\ \A i \in 1..k : Range(seqs[i]) \subseteq Range(h[k])
        BY <2>8, <3>5
      <4>2. h[k + 1] = h[k] \o seqs[k + 1]
        BY <3>2, <3>5
      <4>3. h[k + 1] \in Seq(S) /\ Range(h[k]) \subseteq Range(h[k + 1])
            /\ Range(seqs[k + 1]) \subseteq Range(h[k + 1])
        BY <3>3, <4>1, <4>2, ConcatHolds
      <4>4. \A i \in 1..(k + 1) : i \in 1..k \/ i = k + 1
        BY <1>1
      <4> QED  BY <3>1, <4>1, <4>3, <4>4
    <3> QED  BY <3>4, <3>5
  <2> HIDE DEF P
  <2>9. 0..n \subseteq P
    BY <1>1, <2>7, <2>8, InductionUpTo
  <2>10. n \in P
    BY <1>1, <2>9
  <2> QED  BY <1>1, <1>3, <2>6, <2>10 DEF P
<1> QED  BY <1>2, <1>3



(* A sequence of values of S is one over S. *)
LEMMA SeqTyped ==
  ASSUME NEW T, NEW s \in Seq(T), NEW S, \A i \in DOMAIN s : s[i] \in S
  PROVE  s \in Seq(S)
<1>1. DOMAIN s = 1..Len(s) /\ Len(s) \in Nat /\ s \in [1..Len(s) -> T]
  BY LenProperties
<1>2. s \in [1..Len(s) -> S]
  BY <1>1
<1> QED  BY <1>1, <1>2, SeqDef

(* The parts of a program one after another hold what each part holds. *)
LEMMA Together ==
  ASSUME NEW T, NEW parts \in Seq(Seq(T))
  PROVE  LET all == FlattenSeq(parts)
         IN  /\ DOMAIN all = 1..Len(all) /\ Len(all) \in Nat
             /\ Range(all) = UNION {Range(parts[i]) : i \in DOMAIN parts}
<1> DEFINE U == UNION {Range(parts[i]) : i \in DOMAIN parts}
<1>1. DOMAIN parts = 1..Len(parts) /\ Len(parts) \in Nat
      /\ \A i \in DOMAIN parts : parts[i] \in Seq(T)
  BY Places
<1>2. ASSUME NEW i \in DOMAIN parts PROVE parts[i] \in Seq(U)
  <2>1. \A j \in DOMAIN parts[i] : parts[i][j] \in U
    BY DEF Range
  <2> HIDE DEF U
  <2> QED  BY <1>1, <2>1, SeqTyped
<1> HIDE DEF U
<1>3. parts \in Seq(Seq(U))
  BY <1>2, SeqTyped
<1>4. FlattenSeq(parts) \in Seq(U)
      /\ \A i \in DOMAIN parts : Range(parts[i]) \subseteq Range(FlattenSeq(parts))
  BY <1>3, FlattenTyped
<1>5. Range(FlattenSeq(parts)) \subseteq U
  BY <1>4, Places
<1>6. U \subseteq Range(FlattenSeq(parts))
  BY <1>4 DEF U
<1> QED  BY <1>4, <1>5, <1>6, Places DEF U

-----------------------------------------------------------------------------
(* What the first k records of a CDB file say of the modules ms            *)
(*                                                                         *)
(* The last module is the one begun last.                                  *)
InModule(rec, k, ms) ==
  /\ Len(ms) = 0 <=> Begun(rec, k) = {}
  /\ Len(ms) # 0 => ms[Len(ms)].name = rec[Max(Begun(rec, k))].name

(* Each function declared is in one place, in the module begun last before *)
(* it.                                                                     *)
Placed(rec, k, ms) ==
  /\ \A j \in 1..k : rec[j].kind = "F" =>
       \E i \in DOMAIN ms : \E n \in DOMAIN ms[i].functions :
         ms[i].functions[n].name = rec[j].name
  /\ \A i \in DOMAIN ms : \A n \in DOMAIN ms[i].functions : \E j \in 1..k :
       /\ rec[j].kind = "F" /\ rec[j].name = ms[i].functions[n].name
       /\ ms[i].name = rec[Max(Begun(rec, j))].name
       /\ i = Len(ms) <=> Begun(rec, j) = Begun(rec, k)
  /\ \A i, i2 \in DOMAIN ms :
       \A n \in DOMAIN ms[i].functions, n2 \in DOMAIN ms[i2].functions :
         ms[i].functions[n].name = ms[i2].functions[n2].name => i = i2 /\ n = n2

IsLocal(r, name) == r.kind = "S" /\ r.scope = "L" /\ r.function = name

(* A function has the locals declared for it. *)
LocalsSaid(rec, k, ms) ==
  \A i \in DOMAIN ms : \A n \in DOMAIN ms[i].functions :
    LET f == ms[i].functions[n]
    IN  /\ \A v \in DOMAIN f.locals :
             \E j \in 1..k : IsLocal(rec[j], f.name) /\ f.locals[v] = rec[j]
        /\ \A j \in 1..k : IsLocal(rec[j], f.name) =>
             \E v \in DOMAIN f.locals : f.locals[v] = rec[j]

IsMarker(r, name) == r.kind = "L" /\ r.name = name

(* A function lies between its markers. *)
MarkersSaid(rec, k, ms) ==
  \A i \in DOMAIN ms : \A n \in DOMAIN ms[i].functions :
    LET f == ms[i].functions[n]
    IN  /\ \A j \in 1..k : IsMarker(rec[j], f.name) =>
             /\ rec[j].isEnd => f.end = rec[j].addr
             /\ ~rec[j].isEnd => f.start = rec[j].addr
        /\ f.start # Unset => \E j \in 1..k : IsMarker(rec[j], f.name) /\ ~rec[j].isEnd
                                              /\ f.start = rec[j].addr

IsGlobal(r) == r.kind = "S" /\ r.scope # "L"

(* The globals are those declared. *)
GlobalsSaid(rec, k, ms) ==
  /\ \A i \in DOMAIN ms : \A v \in DOMAIN ms[i].globals :
       \E j \in 1..k : IsGlobal(rec[j]) /\ ms[i].globals[v] = rec[j]
  /\ \A j \in 1..k : IsGlobal(rec[j]) =>
       \E i \in DOMAIN ms : \E v \in DOMAIN ms[i].globals : ms[i].globals[v] = rec[j]

Said(rec, k, ms) ==
  /\ InModule(rec, k, ms) /\ Placed(rec, k, ms)
  /\ LocalsSaid(rec, k, ms) /\ MarkersSaid(rec, k, ms) /\ GlobalsSaid(rec, k, ms)

(* Modules ns that have the functions of ms, their locals and markers      *)
SamePlaces(ms, ns) ==
  /\ Len(ns) = Len(ms) /\ DOMAIN ns = DOMAIN ms
  /\ \A i \in DOMAIN ms :
       /\ ns[i].name = ms[i].name /\ DOMAIN ns[i].functions = DOMAIN ms[i].functions
       /\ \A n \in DOMAIN ms[i].functions : ns[i].functions[n].name = ms[i].functions[n].name

SameLocals(ms, ns) ==
  \A i \in DOMAIN ms : \A n \in DOMAIN ms[i].functions :
    ns[i].functions[n].locals = ms[i].functions[n].locals

SameMarkers(ms, ns) ==
  \A i \in DOMAIN ms : \A n \in DOMAIN ms[i].functions :
    /\ ns[i].functions[n].start = ms[i].functions[n].start
    /\ ns[i].functions[n].end = ms[i].functions[n].end

SameGlobals(ms, ns) == \A i \in DOMAIN ms : ns[i].globals = ms[i].globals

(* M records begin modules. *)
LEMMA BegunNext ==
  ASSUME NEW rec, NEW k \in Nat
  PROVE  /\ rec[k + 1].kind # "M" => Begun(rec, k + 1) = Begun(rec, k)
         /\ rec[k + 1].kind = "M" => /\ Begun(rec, k + 1) # {}
                                     /\ Max(Begun(rec, k + 1)) = k + 1
                                     /\ \A j \in 1..k : Begun(rec, j) # Begun(rec, k + 1)
<1>1. 1..(k + 1) = 1..k \cup {k + 1} /\ k + 1 \in Nat
  OBVIOUS
<1>2. rec[k + 1].kind # "M" => Begun(rec, k + 1) = Begun(rec, k)
  BY <1>1 DEF Begun
<1>3. ASSUME rec[k + 1].kind = "M"
      PROVE  /\ Begun(rec, k + 1) # {} /\ Max(Begun(rec, k + 1)) = k + 1
             /\ \A j \in 1..k : Begun(rec, j) # Begun(rec, k + 1)
  <2>1. k + 1 \in Begun(rec, k + 1)
    BY <1>1, <1>3 DEF Begun
  <2>2. Begun(rec, k + 1) \subseteq Nat /\ \A i \in Begun(rec, k + 1) : i <= k + 1
    BY DEF Begun
  <2>3. Max(Begun(rec, k + 1)) \in Begun(rec, k + 1)
        /\ \A i \in Begun(rec, k + 1) : i <= Max(Begun(rec, k + 1))
    BY <1>1, <2>1, <2>2, MaxIsGreatest
  <2>4. Max(Begun(rec, k + 1)) = k + 1
    BY <2>1, <2>2, <2>3
  <2>5. ASSUME NEW j \in 1..k PROVE k + 1 \notin Begun(rec, j)
    BY DEF Begun
  <2> QED  BY <2>1, <2>4, <2>5
<1> QED  BY <1>2, <1>3

(* Other records leave functions in their places. *)
LEMMA PlacesKept ==
  ASSUME NEW rec, NEW k \in Nat, NEW ms, NEW ns,
         InModule(rec, k, ms), Placed(rec, k, ms), SamePlaces(ms, ns),
         Len(ms) # 0 => Len(ms) \in DOMAIN ms,
         rec[k + 1].kind \notin {"M", "F"}
  PROVE  InModule(rec, k + 1, ns) /\ Placed(rec, k + 1, ns)
<1>1. Begun(rec, k + 1) = Begun(rec, k)
  BY BegunNext
<1>2. \A j \in 1..(k + 1) : rec[j].kind = "F" => j \in 1..k
  OBVIOUS
<1>3. \A j \in 1..k : j \in 1..(k + 1)
  OBVIOUS
<1>4. InModule(rec, k + 1, ns)
  BY <1>1 DEF InModule, SamePlaces
<1>5. ASSUME NEW j \in 1..(k + 1), rec[j].kind = "F"
      PROVE  \E i \in DOMAIN ns : \E n \in DOMAIN ns[i].functions :
               ns[i].functions[n].name = rec[j].name
  <2>1. PICK i \in DOMAIN ms : \E n \in DOMAIN ms[i].functions :
          ms[i].functions[n].name = rec[j].name
    BY <1>2, <1>5 DEF Placed
  <2> QED  BY <2>1 DEF SamePlaces
<1>6. ASSUME NEW i \in DOMAIN ns, NEW n \in DOMAIN ns[i].functions
      PROVE  \E j \in 1..(k + 1) :
               /\ rec[j].kind = "F" /\ rec[j].name = ns[i].functions[n].name
               /\ ns[i].name = rec[Max(Begun(rec, j))].name
               /\ i = Len(ns) <=> Begun(rec, j) = Begun(rec, k + 1)
  <2>1. i \in DOMAIN ms /\ n \in DOMAIN ms[i].functions
    BY DEF SamePlaces
  <2>2. PICK j \in 1..k :
               /\ rec[j].kind = "F" /\ rec[j].name = ms[i].functions[n].name
               /\ ms[i].name = rec[Max(Begun(rec, j))].name
               /\ i = Len(ms) <=> Begun(rec, j) = Begun(rec, k)
    BY <2>1 DEF Placed
  <2> QED  BY <1>1, <1>3, <2>1, <2>2 DEF SamePlaces
<1>7. ASSUME NEW i \in DOMAIN ns, NEW i2 \in DOMAIN ns,
             NEW n \in DOMAIN ns[i].functions, NEW n2 \in DOMAIN ns[i2].functions,
             ns[i].functions[n].name = ns[i2].functions[n2].name
      PROVE  i = i2 /\ n = n2
  <2>1. i \in DOMAIN ms /\ n \in DOMAIN ms[i].functions
        /\ i2 \in DOMAIN ms /\ n2 \in DOMAIN ms[i2].functions
    BY DEF SamePlaces
  <2>2. ms[i].functions[n].name = ms[i2].functions[n2].name
    BY <1>7, <2>1 DEF SamePlaces
  <2> QED  BY <2>1, <2>2 DEF Placed
<1> QED  BY <1>4, <1>5, <1>6, <1>7 DEF Placed

(* A record that declares no local leaves the locals said. *)
LEMMA LocalsKept ==
  ASSUME NEW rec, NEW k \in Nat, NEW ms, NEW ns,
         LocalsSaid(rec, k, ms), SamePlaces(ms, ns), SameLocals(ms, ns),
         \A name : ~IsLocal(rec[k + 1], name)
  PROVE  LocalsSaid(rec, k + 1, ns)
<1> SUFFICES ASSUME NEW i \in DOMAIN ns, NEW n \in DOMAIN ns[i].functions
             PROVE  LET f == ns[i].functions[n]
                    IN  /\ \A v \in DOMAIN f.locals :
                             \E j \in 1..(k + 1) : IsLocal(rec[j], f.name) /\ f.locals[v] = rec[j]
                        /\ \A j \in 1..(k + 1) : IsLocal(rec[j], f.name) =>
                             \E v \in DOMAIN f.locals : f.locals[v] = rec[j]
  BY DEF LocalsSaid
<1> DEFINE f == ms[i].functions[n]
<1>1. i \in DOMAIN ms /\ n \in DOMAIN ms[i].functions
      /\ ns[i].functions[n].name = f.name /\ ns[i].functions[n].locals = f.locals
  BY DEF SamePlaces, SameLocals
<1>2. /\ \A v \in DOMAIN f.locals : \E j \in 1..k : IsLocal(rec[j], f.name) /\ f.locals[v] = rec[j]
      /\ \A j \in 1..k : IsLocal(rec[j], f.name) => \E v \in DOMAIN f.locals : f.locals[v] = rec[j]
  BY <1>1 DEF LocalsSaid
<1>3. 1..k \subseteq 1..(k + 1) /\ \A j \in 1..(k + 1) : IsLocal(rec[j], f.name) => j \in 1..k
  <2>1. \A j \in 1..(k + 1) : j \in 1..k \/ j = k + 1
    OBVIOUS
  <2> QED  BY <2>1
<1> HIDE DEF f
<1> QED  BY <1>1, <1>2, <1>3

(* A record that is no marker of a function leaves the markers said. *)
LEMMA MarkersKept ==
  ASSUME NEW rec, NEW k \in Nat, NEW ms, NEW ns,
         MarkersSaid(rec, k, ms), SamePlaces(ms, ns), SameMarkers(ms, ns),
         \A i \in DOMAIN ms : \A n \in DOMAIN ms[i].functions :
           ~IsMarker(rec[k + 1], ms[i].functions[n].name)
  PROVE  MarkersSaid(rec, k + 1, ns)
<1> SUFFICES ASSUME NEW i \in DOMAIN ns, NEW n \in DOMAIN ns[i].functions
             PROVE  LET f == ns[i].functions[n]
                    IN  /\ \A j \in 1..(k + 1) : IsMarker(rec[j], f.name) =>
                             /\ rec[j].isEnd => f.end = rec[j].addr
                             /\ ~rec[j].isEnd => f.start = rec[j].addr
                        /\ f.start # Unset =>
                             \E j \in 1..(k + 1) : IsMarker(rec[j], f.name) /\ ~rec[j].isEnd
                                                   /\ f.start = rec[j].addr
  BY DEF MarkersSaid
<1> DEFINE f == ms[i].functions[n]
<1>1. i \in DOMAIN ms /\ n \in DOMAIN ms[i].functions /\ ns[i].functions[n].name = f.name
      /\ ns[i].functions[n].start = f.start /\ ns[i].functions[n].end = f.end
  BY DEF SamePlaces, SameMarkers
<1>2. /\ \A j \in 1..k : IsMarker(rec[j], f.name) =>
           /\ rec[j].isEnd => f.end = rec[j].addr
           /\ ~rec[j].isEnd => f.start = rec[j].addr
      /\ f.start # Unset => \E j \in 1..k : IsMarker(rec[j], f.name) /\ ~rec[j].isEnd
                                            /\ f.start = rec[j].addr
  BY <1>1 DEF MarkersSaid
<1>3. 1..k \subseteq 1..(k + 1) /\ \A j \in 1..(k + 1) : IsMarker(rec[j], f.name) => j \in 1..k
  <2>1. \A j \in 1..(k + 1) : j \in 1..k \/ j = k + 1
    OBVIOUS
  <2>2. ~IsMarker(rec[k + 1], f.name)
    BY <1>1
  <2> QED  BY <2>1, <2>2
<1> HIDE DEF f
<1> QED  BY <1>1, <1>2, <1>3

(* A record that declares no global leaves the globals said. *)
LEMMA GlobalsKept ==
  ASSUME NEW rec, NEW k \in Nat, NEW ms, NEW ns,
         GlobalsSaid(rec, k, ms), DOMAIN ns = DOMAIN ms, SameGlobals(ms, ns),
         ~IsGlobal(rec[k + 1])
  PROVE  GlobalsSaid(rec, k + 1, ns)
<1>1. 1..k \subseteq 1..(k + 1) /\ \A j \in 1..(k + 1) : IsGlobal(rec[j]) => j \in 1..k
  <2>1. \A j \in 1..(k + 1) : j \in 1..k \/ j = k + 1
    OBVIOUS
  <2> QED  BY <2>1
<1> QED  BY <1>1 DEF GlobalsSaid, SameGlobals

(* ns is ms with the function f in the place of another of its name. *)
Put(ms, ns, i, n, f) ==
  /\ Len(ns) = Len(ms) /\ DOMAIN ns = DOMAIN ms
  /\ \A a \in DOMAIN ms : a # i => ns[a] = ms[a]
  /\ ns[i].name = ms[i].name /\ ns[i].globals = ms[i].globals
  /\ DOMAIN ns[i].functions = DOMAIN ms[i].functions
  /\ ns[i].functions[n] = f /\ f.name = ms[i].functions[n].name
  /\ \A b \in DOMAIN ms[i].functions : b # n => ns[i].functions[b] = ms[i].functions[b]

(* It changes nothing else. *)
LEMMA PutSame ==
  ASSUME NEW ms, NEW i \in DOMAIN ms, NEW n \in DOMAIN ms[i].functions, NEW f, NEW ns,
         Put(ms, ns, i, n, f)
  PROVE  /\ SamePlaces(ms, ns) /\ SameGlobals(ms, ns) /\ ns[i].functions[n] = f
         /\ \A a \in DOMAIN ms : \A b \in DOMAIN ms[a].functions :
              a # i \/ b # n => ns[a].functions[b] = ms[a].functions[b]
<1>1. SamePlaces(ms, ns)
  BY DEF Put, SamePlaces
<1>2. SameGlobals(ms, ns)
  BY DEF Put, SameGlobals
<1>3. \A a \in DOMAIN ms : \A b \in DOMAIN ms[a].functions :
        a # i \/ b # n => ns[a].functions[b] = ms[a].functions[b]
  BY DEF Put
<1> QED  BY <1>1, <1>2, <1>3 DEF Put

(* An M record adds a module without functions and globals. *)
LEMMA ModuleSaid ==
  ASSUME NEW R, NEW rec, NEW k \in Nat, rec[k + 1].kind = "M",
         NEW ms \in Seq(CdbModules(R)), Said(rec, k, ms)
  PROVE  Said(rec, k + 1, ParseModule(ms, rec[k + 1]))
<1> DEFINE r == rec[k + 1]
           stub == Stub(r.name, "c")
           ns == Append(ms, stub)
<1>1. /\ DOMAIN ms = 1..Len(ms) /\ Len(ms) \in Nat
      /\ DOMAIN ns = 1..(Len(ms) + 1) /\ Len(ns) = Len(ms) + 1
      /\ ns[Len(ms) + 1] = stub /\ \A i \in DOMAIN ms : ns[i] = ms[i]
  <2>1. DOMAIN ms = 1..Len(ms) /\ Len(ms) \in Nat
    BY Places
  <2>2. Len(ns) = Len(ms) + 1 /\ DOMAIN ns = 1..(Len(ms) + 1)
    OBVIOUS
  <2> HIDE DEF stub
  <2> QED  BY <2>1, <2>2
<1>2. stub.name = r.name /\ DOMAIN stub.functions = {} /\ DOMAIN stub.globals = {}
  BY DEF Stub
<1> HIDE DEF ns, stub
<1>3. /\ DOMAIN ms \subseteq DOMAIN ns /\ Len(ns) \notin DOMAIN ms
      /\ \A i \in DOMAIN ns : i \in DOMAIN ms \/ ns[i] = stub
  BY <1>1
<1>4. \A i \in DOMAIN ns : \A n \in DOMAIN ns[i].functions : i \in DOMAIN ms /\ ns[i] = ms[i]
  BY <1>1, <1>2, <1>3
<1>5. 1..k \subseteq 1..(k + 1) /\ \A j \in 1..(k + 1) : rec[j].kind # "M" => j \in 1..k
  <2>1. \A j \in 1..(k + 1) : j \in 1..k \/ j = k + 1
    OBVIOUS
  <2> QED  BY <2>1
<1>6. InModule(rec, k + 1, ns)
  <2>1. Len(ns) # 0 /\ ns[Len(ns)] = stub
    BY <1>1
  <2>2. Begun(rec, k + 1) # {} /\ Max(Begun(rec, k + 1)) = k + 1
    BY BegunNext
  <2> QED  BY <1>2, <2>1, <2>2 DEF InModule
<1>7. Placed(rec, k + 1, ns)
  <2>1. ASSUME NEW j \in 1..(k + 1), rec[j].kind = "F"
        PROVE  \E i \in DOMAIN ns : \E n \in DOMAIN ns[i].functions :
                 ns[i].functions[n].name = rec[j].name
    <3>1. PICK i \in DOMAIN ms : \E n \in DOMAIN ms[i].functions :
            ms[i].functions[n].name = rec[j].name
      BY <1>5, <2>1 DEF Said, Placed
    <3> QED  BY <1>1, <1>3, <3>1
  <2>2. ASSUME NEW i \in DOMAIN ns, NEW n \in DOMAIN ns[i].functions
        PROVE  \E j \in 1..(k + 1) :
                 /\ rec[j].kind = "F" /\ rec[j].name = ns[i].functions[n].name
                 /\ ns[i].name = rec[Max(Begun(rec, j))].name
                 /\ i = Len(ns) <=> Begun(rec, j) = Begun(rec, k + 1)
    <3>1. i \in DOMAIN ms /\ ns[i] = ms[i] /\ i # Len(ns)
      BY <1>3, <1>4
    <3>2. PICK j \in 1..k : /\ rec[j].kind = "F" /\ rec[j].name = ms[i].functions[n].name
                            /\ ms[i].name = rec[Max(Begun(rec, j))].name
      BY <3>1 DEF Said, Placed
    <3>3. Begun(rec, j) # Begun(rec, k + 1)
      BY BegunNext
    <3> QED  BY <1>5, <3>1, <3>2, <3>3
  <2>3. ASSUME NEW i \in DOMAIN ns, NEW i2 \in DOMAIN ns,
               NEW n \in DOMAIN ns[i].functions, NEW n2 \in DOMAIN ns[i2].functions,
               ns[i].functions[n].name = ns[i2].functions[n2].name
        PROVE  i = i2 /\ n = n2
    BY <1>4, <2>3 DEF Said, Placed
  <2> QED  BY <2>1, <2>2, <2>3 DEF Placed
<1>8. LocalsSaid(rec, k + 1, ns)
  <2>1. \A j \in 1..(k + 1) : \A name : IsLocal(rec[j], name) => j \in 1..k
    BY <1>5 DEF IsLocal
  <2>2. LocalsSaid(rec, k, ms)
    BY DEF Said
  <2> SUFFICES ASSUME NEW i \in DOMAIN ns, NEW n \in DOMAIN ns[i].functions
               PROVE  LET g == ns[i].functions[n]
                      IN  /\ \A v \in DOMAIN g.locals :
                               \E j \in 1..(k + 1) : IsLocal(rec[j], g.name) /\ g.locals[v] = rec[j]
                          /\ \A j \in 1..(k + 1) : IsLocal(rec[j], g.name) =>
                               \E v \in DOMAIN g.locals : g.locals[v] = rec[j]
    BY DEF LocalsSaid
  <2> DEFINE g == ns[i].functions[n]
  <2>3. /\ \A v \in DOMAIN g.locals : \E j \in 1..k : IsLocal(rec[j], g.name) /\ g.locals[v] = rec[j]
        /\ \A j \in 1..k : IsLocal(rec[j], g.name) => \E v \in DOMAIN g.locals : g.locals[v] = rec[j]
    BY <1>4, <2>2 DEF LocalsSaid
  <2> HIDE DEF g
  <2>4. \A v \in DOMAIN g.locals :
          \E j \in 1..(k + 1) : IsLocal(rec[j], g.name) /\ g.locals[v] = rec[j]
    BY <1>5, <2>3
  <2>5. \A j \in 1..(k + 1) : IsLocal(rec[j], g.name) =>
          \E v \in DOMAIN g.locals : g.locals[v] = rec[j]
    BY <2>1, <2>3
  <2> QED  BY <2>4, <2>5 DEF g
<1>9. MarkersSaid(rec, k + 1, ns)
  <2>1. \A j \in 1..(k + 1) : \A name : IsMarker(rec[j], name) => j \in 1..k
    BY <1>5 DEF IsMarker
  <2>2. MarkersSaid(rec, k, ms)
    BY DEF Said
  <2> SUFFICES ASSUME NEW i \in DOMAIN ns, NEW n \in DOMAIN ns[i].functions
               PROVE  LET f == ns[i].functions[n]
                      IN  /\ \A j \in 1..(k + 1) : IsMarker(rec[j], f.name) =>
                               /\ rec[j].isEnd => f.end = rec[j].addr
                               /\ ~rec[j].isEnd => f.start = rec[j].addr
                          /\ f.start # Unset =>
                               \E j \in 1..(k + 1) : IsMarker(rec[j], f.name) /\ ~rec[j].isEnd
                                                     /\ f.start = rec[j].addr
    BY DEF MarkersSaid
  <2>3. i \in DOMAIN ms /\ ns[i] = ms[i]
    BY <1>4
  <2>4. LET f == ms[i].functions[n]
        IN  /\ \A j \in 1..k : IsMarker(rec[j], f.name) =>
                 /\ rec[j].isEnd => f.end = rec[j].addr
                 /\ ~rec[j].isEnd => f.start = rec[j].addr
            /\ f.start # Unset => \E j \in 1..k : IsMarker(rec[j], f.name) /\ ~rec[j].isEnd
                                                  /\ f.start = rec[j].addr
    BY <2>2, <2>3 DEF MarkersSaid
  <2> QED  BY <1>5, <2>1, <2>3, <2>4
<1>10. GlobalsSaid(rec, k + 1, ns)
  <2>1. \A j \in 1..(k + 1) : IsGlobal(rec[j]) => j \in 1..k
    BY <1>5 DEF IsGlobal
  <2>2. \A i \in DOMAIN ns : \A v \in DOMAIN ns[i].globals : i \in DOMAIN ms /\ ns[i] = ms[i]
    BY <1>1, <1>2, <1>3
  <2>3. GlobalsSaid(rec, k, ms)
    BY DEF Said
  <2> QED  BY <1>1, <1>3, <1>5, <2>1, <2>2, <2>3 DEF GlobalsSaid
<1> QED  BY <1>6, <1>7, <1>8, <1>9, <1>10 DEF Said, ParseModule, ns, stub

(* An F record adds a function to the last module. *)
LEMMA FunctionSaid ==
  ASSUME NEW R, NEW rec, NEW k \in Nat, rec[k + 1].kind = "F", rec[k + 1] \in R,
         NEW ms \in Seq(CdbModules(R)), Said(rec, k, ms),
         Begun(rec, k + 1) # {},
         \A j \in 1..k : rec[j].kind = "F" => rec[j].name # rec[k + 1].name,
         \A j \in 1..k : ~IsLocal(rec[j], rec[k + 1].name) /\ ~IsMarker(rec[j], rec[k + 1].name)
  PROVE  Said(rec, k + 1, ParseFunction(ms, rec[k + 1]))
<1> DEFINE r == rec[k + 1]
           f == [name |-> r.name, start |-> Unset, end |-> Unset, locals |-> << >>]
           l == Len(ms)
           fs == Append(ms[l].functions, f)
           m == [ms[l] EXCEPT !.functions = fs]
           ns == [ms EXCEPT ![l] = m]
           last == Len(ms[l].functions) + 1
<1>1. Begun(rec, k + 1) = Begun(rec, k)
  BY BegunNext
<1>2. DOMAIN ms = 1..l /\ l \in Nat /\ l # 0 /\ l \in DOMAIN ms
  <2>1. l # 0
    BY <1>1 DEF Said, InModule
  <2> QED  BY <2>1, Places
<1>3. ms[l] \in CdbModules(R) /\ ms[l].functions \in Seq(CdbFunctions(R))
  <2>1. ms[l] \in CdbModules(R)
    BY <1>2, Places
  <2> QED  BY <2>1, Changed
<1>4. /\ DOMAIN ms[l].functions = 1..(last - 1) /\ last - 1 \in Nat
      /\ DOMAIN fs = DOMAIN ms[l].functions \cup {last} /\ last \notin DOMAIN ms[l].functions
      /\ fs[last] = f /\ \A n \in DOMAIN ms[l].functions : fs[n] = ms[l].functions[n]
  <2>1. DOMAIN ms[l].functions = 1..(last - 1) /\ last - 1 \in Nat
    BY <1>3, Places
  <2>2. DOMAIN fs = 1..last /\ fs[last] = f
        /\ \A n \in DOMAIN ms[l].functions : fs[n] = ms[l].functions[n]
    <3> HIDE DEF f
    <3> QED  BY <1>3, <2>1
  <2>3. last \in Nat
    BY <1>3, <2>1
  <2> HIDE DEF fs, last
  <2>4. 1..last = 1..(last - 1) \cup {last} /\ last \notin 1..(last - 1)
    BY <2>1, <2>3
  <2> QED  BY <2>1, <2>2, <2>4
<1>5. f.name = r.name /\ f.start = Unset /\ DOMAIN f.locals = {}
  OBVIOUS
<1>6. ParseFunction(ms, r) = ns
  <2>1. ms # << >>
    BY <1>2
  <2> QED  BY <1>2, <1>3, <2>1 DEF ParseFunction, CdbModules
<1> HIDE DEF f, fs, last
<1>7. m.functions = fs /\ m.name = ms[l].name /\ m.globals = ms[l].globals
  BY <1>3 DEF CdbModules
<1>8. Len(ns) = l
  <2>1. ns \in Seq(CdbModules(R))
    <3>1. fs \in Seq(CdbFunctions(R))
      <4>1. f \in CdbFunctions(R)
        BY DEF f, CdbFunctions, Names, AddrsOf
      <4> QED  BY <1>3, <4>1, Places DEF fs
    <3>2. m \in CdbModules(R)
      BY <1>3, <3>1, Changed
    <3> HIDE DEF m
    <3> QED  BY <3>2, Replaced
  <2>2. DOMAIN ns = 1..l
    BY <1>2
  <2> HIDE DEF ns
  <2> QED  BY <1>2, <2>1, <2>2, Places
<1> HIDE DEF m
<1>9. DOMAIN ns = DOMAIN ms /\ ns[l] = m /\ \A i \in DOMAIN ms : i # l => ns[i] = ms[i]
  BY <1>2
<1> HIDE DEF ns, l
<1>10. \A i \in DOMAIN ns : \A n \in DOMAIN ns[i].functions :
         \/ i = l /\ n = last /\ ns[i].functions[n] = f
         \/ n \in DOMAIN ms[i].functions /\ ns[i].functions[n] = ms[i].functions[n]
  BY <1>4, <1>7, <1>9
<1>11. \A i \in DOMAIN ms : \A n \in DOMAIN ms[i].functions :
         n \in DOMAIN ns[i].functions /\ ns[i].functions[n] = ms[i].functions[n]
  BY <1>4, <1>7, <1>9
<1>12. l \in DOMAIN ns /\ last \in DOMAIN ns[l].functions /\ ns[l].functions[last] = f
  BY <1>2, <1>4, <1>7, <1>9
<1>13. \A i \in DOMAIN ms : ns[i].name = ms[i].name /\ ns[i].globals = ms[i].globals
  BY <1>7, <1>9
<1>14. 1..k \subseteq 1..(k + 1) /\ k + 1 \in 1..(k + 1) /\ \A j \in 1..(k + 1) : j \in 1..k \/ j = k + 1
  OBVIOUS
<1>15. InModule(rec, k + 1, ns)
  BY <1>1, <1>2, <1>8, <1>9, <1>13 DEF Said, InModule, l
<1>16. Placed(rec, k + 1, ns)
  <2>1. ASSUME NEW j \in 1..(k + 1), rec[j].kind = "F"
        PROVE  \E i \in DOMAIN ns : \E n \in DOMAIN ns[i].functions :
                 ns[i].functions[n].name = rec[j].name
    <3>1. CASE j = k + 1
      BY <1>5, <1>12, <3>1
    <3>2. CASE j \in 1..k
      <4>1. PICK i \in DOMAIN ms : \E n \in DOMAIN ms[i].functions :
              ms[i].functions[n].name = rec[j].name
        BY <2>1, <3>2 DEF Said, Placed
      <4> QED  BY <1>9, <1>11, <4>1
    <3> QED  BY <1>14, <3>1, <3>2
  <2>2. ASSUME NEW i \in DOMAIN ns, NEW n \in DOMAIN ns[i].functions
        PROVE  \E j \in 1..(k + 1) :
                 /\ rec[j].kind = "F" /\ rec[j].name = ns[i].functions[n].name
                 /\ ns[i].name = rec[Max(Begun(rec, j))].name
                 /\ i = Len(ns) <=> Begun(rec, j) = Begun(rec, k + 1)
    <3>1. CASE n \in DOMAIN ms[i].functions /\ ns[i].functions[n] = ms[i].functions[n]
      <4>1. PICK j \in 1..k : /\ rec[j].kind = "F" /\ rec[j].name = ms[i].functions[n].name
                              /\ ms[i].name = rec[Max(Begun(rec, j))].name
                              /\ i = Len(ms) <=> Begun(rec, j) = Begun(rec, k)
        BY <1>9, <3>1 DEF Said, Placed
      <4> QED  BY <1>1, <1>8, <1>9, <1>13, <1>14, <3>1, <4>1 DEF l
    <3>2. CASE i = l /\ n = last /\ ns[i].functions[n] = f
      <4>1. ns[i].name = rec[Max(Begun(rec, k + 1))].name /\ i = Len(ns)
        BY <1>8, <1>15, <3>2, <1>2 DEF InModule
      <4> QED  BY <1>5, <1>14, <3>2, <4>1
    <3> QED  BY <1>10, <3>1, <3>2
  <2>3. ASSUME NEW i \in DOMAIN ms, NEW n \in DOMAIN ms[i].functions
        PROVE  ms[i].functions[n].name # r.name
    BY DEF Said, Placed
  <2>4. ASSUME NEW i \in DOMAIN ns, NEW i2 \in DOMAIN ns,
               NEW n \in DOMAIN ns[i].functions, NEW n2 \in DOMAIN ns[i2].functions,
               ns[i].functions[n].name = ns[i2].functions[n2].name
        PROVE  i = i2 /\ n = n2
    <3>1. CASE /\ n \in DOMAIN ms[i].functions /\ ns[i].functions[n] = ms[i].functions[n]
               /\ n2 \in DOMAIN ms[i2].functions /\ ns[i2].functions[n2] = ms[i2].functions[n2]
      BY <1>9, <2>4, <3>1 DEF Said, Placed
    <3>2. CASE ns[i].functions[n] = f /\ ns[i2].functions[n2] # f
      BY <1>5, <1>9, <1>10, <2>3, <2>4, <3>2
    <3>3. CASE ns[i].functions[n] # f /\ ns[i2].functions[n2] = f
      BY <1>5, <1>9, <1>10, <2>3, <2>4, <3>3
    <3>4. CASE ns[i].functions[n] = f /\ ns[i2].functions[n2] = f
      BY <1>5, <1>9, <1>10, <2>3, <3>4
    <3> QED  BY <1>10, <3>1, <3>2, <3>3, <3>4
  <2> QED  BY <2>1, <2>2, <2>4 DEF Placed
<1>17. LocalsSaid(rec, k + 1, ns)
  <2>1. \A j \in 1..(k + 1) : \A name : IsLocal(rec[j], name) => j \in 1..k
    BY <1>14 DEF IsLocal
  <2>2. LocalsSaid(rec, k, ms)
    BY DEF Said
  <2> SUFFICES ASSUME NEW i \in DOMAIN ns, NEW n \in DOMAIN ns[i].functions
               PROVE  LET g == ns[i].functions[n]
                      IN  /\ \A v \in DOMAIN g.locals :
                               \E j \in 1..(k + 1) : IsLocal(rec[j], g.name) /\ g.locals[v] = rec[j]
                          /\ \A j \in 1..(k + 1) : IsLocal(rec[j], g.name) =>
                               \E v \in DOMAIN g.locals : g.locals[v] = rec[j]
    BY DEF LocalsSaid
  <2>3. CASE ns[i].functions[n] = f
    <3>1. \A j \in 1..(k + 1) : ~IsLocal(rec[j], f.name)
      BY <1>5, <2>1
    <3> QED  BY <1>5, <2>3, <3>1
  <2>4. CASE n \in DOMAIN ms[i].functions /\ ns[i].functions[n] = ms[i].functions[n]
    <3> DEFINE g == ns[i].functions[n]
    <3>1. /\ \A v \in DOMAIN g.locals :
               \E j \in 1..k : IsLocal(rec[j], g.name) /\ g.locals[v] = rec[j]
          /\ \A j \in 1..k : IsLocal(rec[j], g.name) =>
               \E v \in DOMAIN g.locals : g.locals[v] = rec[j]
      BY <1>9, <2>2, <2>4 DEF LocalsSaid
    <3> HIDE DEF g
    <3>2. \A v \in DOMAIN g.locals :
            \E j \in 1..(k + 1) : IsLocal(rec[j], g.name) /\ g.locals[v] = rec[j]
      BY <1>14, <3>1
    <3>3. \A j \in 1..(k + 1) : IsLocal(rec[j], g.name) =>
            \E v \in DOMAIN g.locals : g.locals[v] = rec[j]
      BY <2>1, <3>1
    <3> QED  BY <3>2, <3>3 DEF g
  <2> QED  BY <1>10, <2>3, <2>4
<1>18. MarkersSaid(rec, k + 1, ns)
  <2>1. \A j \in 1..(k + 1) : \A name : IsMarker(rec[j], name) => j \in 1..k
    BY <1>14 DEF IsMarker
  <2>2. MarkersSaid(rec, k, ms)
    BY DEF Said
  <2> SUFFICES ASSUME NEW i \in DOMAIN ns, NEW n \in DOMAIN ns[i].functions
               PROVE  LET g == ns[i].functions[n]
                      IN  /\ \A j \in 1..(k + 1) : IsMarker(rec[j], g.name) =>
                               /\ rec[j].isEnd => g.end = rec[j].addr
                               /\ ~rec[j].isEnd => g.start = rec[j].addr
                          /\ g.start # Unset =>
                               \E j \in 1..(k + 1) : IsMarker(rec[j], g.name) /\ ~rec[j].isEnd
                                                     /\ g.start = rec[j].addr
    BY DEF MarkersSaid
  <2>3. CASE ns[i].functions[n] = f
    BY <1>5, <2>1, <2>3
  <2>4. CASE n \in DOMAIN ms[i].functions /\ ns[i].functions[n] = ms[i].functions[n]
    <3>1. LET g == ms[i].functions[n]
          IN  /\ \A j \in 1..k : IsMarker(rec[j], g.name) =>
                   /\ rec[j].isEnd => g.end = rec[j].addr
                   /\ ~rec[j].isEnd => g.start = rec[j].addr
              /\ g.start # Unset => \E j \in 1..k : IsMarker(rec[j], g.name) /\ ~rec[j].isEnd
                                                    /\ g.start = rec[j].addr
      BY <1>9, <2>2, <2>4 DEF MarkersSaid
    <3> QED  BY <1>14, <2>1, <2>4, <3>1
  <2> QED  BY <1>10, <2>3, <2>4
<1>19. GlobalsSaid(rec, k + 1, ns)
  <2>1. ~IsGlobal(rec[k + 1])
    BY DEF IsGlobal
  <2> QED  BY <1>9, <1>13, <2>1, GlobalsKept DEF Said, SameGlobals
<1> QED  BY <1>6, <1>15, <1>16, <1>17, <1>18, <1>19 DEF Said

(* An S record of a global adds to the last module's. *)
LEMMA GlobalSaid ==
  ASSUME NEW R, NEW rec, NEW k \in Nat, IsGlobal(rec[k + 1]), rec[k + 1] \in R,
         NEW ms \in Seq(CdbModules(R)), Said(rec, k, ms), Begun(rec, k + 1) # {}
  PROVE  Said(rec, k + 1, ParseSymbol(ms, rec[k + 1]))
<1> DEFINE r == rec[k + 1]
           l == Len(ms)
           gs == Append(ms[l].globals, r)
           m == [ms[l] EXCEPT !.globals = gs]
           ns == [ms EXCEPT ![l] = m]
           last == Len(ms[l].globals) + 1
<1>1. Begun(rec, k + 1) = Begun(rec, k)
  BY BegunNext DEF IsGlobal
<1>2. DOMAIN ms = 1..l /\ l \in Nat /\ l # 0 /\ l \in DOMAIN ms
  <2>1. l # 0
    BY <1>1 DEF Said, InModule
  <2> QED  BY <2>1, Places
<1>3. ms[l] \in CdbModules(R) /\ ms[l].globals \in Seq(R)
  <2>1. ms[l] \in CdbModules(R)
    BY <1>2, Places
  <2> QED  BY <2>1, Changed
<1>4. /\ DOMAIN gs = DOMAIN ms[l].globals \cup {last}
      /\ gs[last] = r /\ \A v \in DOMAIN ms[l].globals : gs[v] = ms[l].globals[v]
  <2>1. DOMAIN ms[l].globals = 1..(last - 1) /\ last - 1 \in Nat /\ last \in Nat
    BY <1>3, Places
  <2>2. DOMAIN gs = 1..last /\ gs[last] = r
        /\ \A v \in DOMAIN ms[l].globals : gs[v] = ms[l].globals[v]
    BY <1>3, <2>1
  <2> HIDE DEF gs, last
  <2>3. 1..last = 1..(last - 1) \cup {last}
    BY <2>1
  <2> QED  BY <2>1, <2>2, <2>3
<1>5. ParseSymbol(ms, r) = ns
  <2>1. ms # << >> /\ r.scope # "L"
    BY <1>2 DEF IsGlobal
  <2>2. ParseSymbol(ms, r) = [ms EXCEPT ![Len(ms)].globals = Append(@, r)]
    BY <2>1 DEF ParseSymbol
  <2> QED  BY <1>2, <2>2, Zenon
<1>6. m.globals = gs /\ m.name = ms[l].name /\ m.functions = ms[l].functions
  BY <1>3 DEF CdbModules
<1>7. Len(ns) = l
  <2>1. ns \in Seq(CdbModules(R))
    <3>1. gs \in Seq(R)
      BY <1>3, Places
    <3>2. m \in CdbModules(R)
      BY <1>3, <3>1, Changed
    <3> HIDE DEF m
    <3> QED  BY <3>2, Replaced
  <2>2. DOMAIN ns = 1..l
    BY <1>2
  <2> HIDE DEF ns
  <2> QED  BY <1>2, <2>1, <2>2, Places
<1> HIDE DEF gs, last, m
<1>8. DOMAIN ns = DOMAIN ms /\ ns[l] = m /\ \A i \in DOMAIN ms : i # l => ns[i] = ms[i]
  BY <1>2
<1> HIDE DEF ns
<1>9. \A i \in DOMAIN ms : ns[i].name = ms[i].name /\ ns[i].functions = ms[i].functions
  BY <1>6, <1>8
<1>10. SamePlaces(ms, ns) /\ SameLocals(ms, ns) /\ SameMarkers(ms, ns)
  BY <1>7, <1>8, <1>9 DEF SamePlaces, SameLocals, SameMarkers
<1>11. InModule(rec, k + 1, ns) /\ Placed(rec, k + 1, ns)
  BY <1>2, <1>10, PlacesKept DEF Said, IsGlobal
<1>12. LocalsSaid(rec, k + 1, ns)
  BY <1>10, LocalsKept DEF Said, IsLocal, IsGlobal
<1>13. MarkersSaid(rec, k + 1, ns)
  BY <1>10, MarkersKept DEF Said, IsMarker, IsGlobal
<1>14. GlobalsSaid(rec, k + 1, ns)
  <2>1. 1..k \subseteq 1..(k + 1) /\ k + 1 \in 1..(k + 1) /\ \A j \in 1..(k + 1) : j \in 1..k \/ j = k + 1
    OBVIOUS
  <2>2. GlobalsSaid(rec, k, ms)
    BY DEF Said
  <2>3. ASSUME NEW i \in DOMAIN ns, NEW v \in DOMAIN ns[i].globals
        PROVE  \E j \in 1..(k + 1) : IsGlobal(rec[j]) /\ ns[i].globals[v] = rec[j]
    <3>1. \/ ns[i].globals[v] = r
          \/ v \in DOMAIN ms[i].globals /\ ns[i].globals[v] = ms[i].globals[v]
      BY <1>4, <1>6, <1>8
    <3> QED  BY <1>8, <2>1, <2>2, <3>1 DEF GlobalsSaid
  <2>4. ASSUME NEW j \in 1..(k + 1), IsGlobal(rec[j])
        PROVE  \E i \in DOMAIN ns : \E v \in DOMAIN ns[i].globals : ns[i].globals[v] = rec[j]
    <3>1. CASE j = k + 1
      <4>1. last \in DOMAIN ns[l].globals /\ ns[l].globals[last] = r
        BY <1>4, <1>6, <1>8
      <4> QED  BY <1>2, <1>8, <3>1, <4>1
    <3>2. CASE j \in 1..k
      <4>1. PICK i \in DOMAIN ms : \E v \in DOMAIN ms[i].globals : ms[i].globals[v] = rec[j]
        BY <2>2, <2>4, <3>2 DEF GlobalsSaid
      <4>2. PICK v \in DOMAIN ms[i].globals : ms[i].globals[v] = rec[j]
        BY <4>1
      <4>3. v \in DOMAIN ns[i].globals /\ ns[i].globals[v] = rec[j]
        BY <1>4, <1>6, <1>8, <4>2
      <4> QED  BY <1>8, <4>3
    <3> QED  BY <2>1, <3>1, <3>2
  <2> QED  BY <2>3, <2>4 DEF GlobalsSaid
<1> QED  BY <1>5, <1>11, <1>12, <1>13, <1>14 DEF Said

(* An S record of a local adds to those of the function it names. *)
LEMMA LocalSaid ==
  ASSUME NEW R, NEW rec, NEW k \in Nat, rec[k + 1] \in R,
         IsLocal(rec[k + 1], rec[k + 1].function),
         NEW ms \in Seq(CdbModules(R)), Said(rec, k, ms),
         \E j \in 1..k : /\ rec[j].kind = "F" /\ rec[j].name = rec[k + 1].function
                         /\ Begun(rec, j) = Begun(rec, k + 1)
                         /\ \A i \in 1..k : rec[i].kind = "F" /\ rec[i].name = rec[j].name => i = j
  PROVE  Said(rec, k + 1, ParseSymbol(ms, rec[k + 1]))
<1> DEFINE r == rec[k + 1]
           l == Len(ms)
<1>1. Begun(rec, k + 1) = Begun(rec, k)
  BY BegunNext DEF IsLocal
<1>2. PICK h \in 1..k :
        /\ rec[h].kind = "F" /\ rec[h].name = r.function /\ Begun(rec, h) = Begun(rec, k)
        /\ \A i \in 1..k : rec[i].kind = "F" /\ rec[i].name = rec[h].name => i = h
  BY <1>1
<1>3. PICK i \in DOMAIN ms : \E n \in DOMAIN ms[i].functions : ms[i].functions[n].name = r.function
  BY <1>2 DEF Said, Placed
<1>4. PICK n \in DOMAIN ms[i].functions : ms[i].functions[n].name = r.function
  BY <1>3
<1>5. i = l
  BY <1>2, <1>4 DEF Said, Placed
<1>6. DOMAIN ms = 1..l /\ l \in Nat /\ l \in DOMAIN ms
  BY <1>5, Places
<1>7. ms[l] \in CdbModules(R) /\ ms[l].functions \in Seq(CdbFunctions(R))
  <2>1. ms[l] \in CdbModules(R)
    BY <1>6, Places
  <2> QED  BY <2>1, Changed
<1>8. n \in DOMAIN ms[l].functions /\ ms[l].functions[n].name = r.function
  BY <1>4, <1>5
<1> DEFINE old == ms[l].functions[n]
           locals == Append(old.locals, r)
           f == [old EXCEPT !.locals = locals]
           last == Len(old.locals) + 1
           fs == [ms[l].functions EXCEPT ![n] = f]
           m == [ms[l] EXCEPT !.functions = fs]
           ns == [ms EXCEPT ![l] = m]
<1>9. old \in CdbFunctions(R) /\ old.locals \in Seq(R)
  <2>1. old \in CdbFunctions(R)
    BY <1>7, <1>8, Places
  <2> QED  BY <2>1 DEF CdbFunctions
<1>10. ParseSymbol(ms, r) = ns
  <2> DEFINE owners == {j \in DOMAIN Last(ms).functions : Last(ms).functions[j].name = r.function}
  <2>1. ms # << >> /\ Last(ms) = ms[l]
    BY <1>6 DEF Last
  <2>2. owners = {n}
    BY <1>6, <1>8, <2>1 DEF Said, Placed
  <2>3. First({n}) = n
    <3>1. n \in Nat
      BY <1>7, <1>8, Places
    <3>2. {n} \subseteq Nat /\ {n} # {}
      BY <3>1
    <3>3. First({n}) \in {n}
      BY <3>2, FirstIsLeast
    <3> QED  BY <3>3
  <2>4. ParseSymbol(ms, r) = [ms EXCEPT ![l].functions[First(owners)].locals = Append(@, r)]
    <3>1. r.scope = "L" /\ owners # {}
      BY <2>2 DEF IsLocal
    <3> QED  BY <2>1, <3>1 DEF ParseSymbol
  <2>5. ParseSymbol(ms, r) = [ms EXCEPT ![l].functions[n].locals = Append(@, r)]
    <3> HIDE DEF owners
    <3> QED  BY <2>2, <2>3, <2>4
  <2> QED  BY <1>6, <1>8, <2>5, Zenon
<1>11. /\ DOMAIN locals = DOMAIN old.locals \cup {last}
       /\ locals[last] = r /\ \A v \in DOMAIN old.locals : locals[v] = old.locals[v]
  <2> HIDE DEF old
  <2>1. DOMAIN old.locals = 1..(last - 1) /\ last - 1 \in Nat /\ last \in Nat
    BY <1>9, Places
  <2>2. DOMAIN locals = 1..last /\ locals[last] = r
        /\ \A v \in DOMAIN old.locals : locals[v] = old.locals[v]
    BY <1>9, <2>1
  <2> HIDE DEF locals, last
  <2>3. 1..last = 1..(last - 1) \cup {last}
    BY <2>1
  <2> QED  BY <2>1, <2>2, <2>3
<1>12. f.name = old.name /\ f.start = old.start /\ f.end = old.end /\ f.locals = locals
       /\ f \in CdbFunctions(R)
  <2>1. locals \in Seq(R)
    BY <1>9, Places
  <2> HIDE DEF old, locals
  <2> QED  BY <1>9, <2>1 DEF CdbFunctions
<1>13. Len(ns) = l
  <2>1. ParseSymbol(ms, r) \in Seq(CdbModules(R))
    BY ParseSymbolTyped
  <2>2. DOMAIN ns = 1..l
    BY <1>6
  <2> HIDE DEF ns
  <2> QED  BY <1>6, <1>10, <2>1, <2>2, Places
<1> HIDE DEF f, locals, last
<1>14. /\ SamePlaces(ms, ns) /\ SameGlobals(ms, ns) /\ ns[l].functions[n] = f
       /\ \A a \in DOMAIN ms : \A b \in DOMAIN ms[a].functions :
            a # l \/ b # n => ns[a].functions[b] = ms[a].functions[b]
  <2>1. Put(ms, ns, l, n, f)
    <3>1. DOMAIN fs = DOMAIN ms[l].functions /\ fs[n] = f
          /\ \A b \in DOMAIN ms[l].functions : b # n => fs[b] = ms[l].functions[b]
      BY <1>8
    <3> HIDE DEF fs
    <3>2. m.functions = fs /\ m.name = ms[l].name /\ m.globals = ms[l].globals
      BY <1>7 DEF CdbModules
    <3> HIDE DEF m
    <3>3. DOMAIN ns = DOMAIN ms /\ ns[l] = m /\ \A a \in DOMAIN ms : a # l => ns[a] = ms[a]
      BY <1>6
    <3> HIDE DEF ns
    <3> QED  BY <1>12, <1>13, <3>1, <3>2, <3>3 DEF Put
  <2> HIDE DEF ns
  <2> QED  BY <1>6, <1>8, <2>1, PutSame
<1> HIDE DEF ns
<1>15. SameMarkers(ms, ns)
  <2> SUFFICES ASSUME NEW a \in DOMAIN ms, NEW b \in DOMAIN ms[a].functions
               PROVE  /\ ns[a].functions[b].start = ms[a].functions[b].start
                      /\ ns[a].functions[b].end = ms[a].functions[b].end
    BY DEF SameMarkers
  <2> QED  BY <1>12, <1>14
<1>16. InModule(rec, k + 1, ns) /\ Placed(rec, k + 1, ns)
  BY <1>6, <1>14, PlacesKept DEF Said, IsLocal
<1>17. MarkersSaid(rec, k + 1, ns)
  BY <1>14, <1>15, MarkersKept DEF Said, IsMarker, IsLocal
<1>18. GlobalsSaid(rec, k + 1, ns)
  BY <1>14, GlobalsKept DEF Said, SamePlaces, IsGlobal, IsLocal
<1>19. LocalsSaid(rec, k + 1, ns)
  <2> SUFFICES ASSUME NEW a \in DOMAIN ns, NEW b \in DOMAIN ns[a].functions
               PROVE  LET g == ns[a].functions[b]
                      IN  /\ \A v \in DOMAIN g.locals :
                               \E j \in 1..(k + 1) : IsLocal(rec[j], g.name) /\ g.locals[v] = rec[j]
                          /\ \A j \in 1..(k + 1) : IsLocal(rec[j], g.name) =>
                               \E v \in DOMAIN g.locals : g.locals[v] = rec[j]
    BY DEF LocalsSaid
  <2>1. a \in DOMAIN ms /\ b \in DOMAIN ms[a].functions
    BY <1>14 DEF SamePlaces
  <2> DEFINE o == ms[a].functions[b]
  <2>2. /\ \A v \in DOMAIN o.locals : \E j \in 1..k : IsLocal(rec[j], o.name) /\ o.locals[v] = rec[j]
        /\ \A j \in 1..k : IsLocal(rec[j], o.name) => \E v \in DOMAIN o.locals : o.locals[v] = rec[j]
    BY <2>1 DEF Said, LocalsSaid
  <2>3. 1..k \subseteq 1..(k + 1) /\ k + 1 \in 1..(k + 1) /\ \A j \in 1..(k + 1) : j \in 1..k \/ j = k + 1
    OBVIOUS
  <2>4. CASE a = l /\ b = n
    <3>1. ns[a].functions[b] = f /\ o = old
      BY <1>14, <2>4
    <3>2. IsLocal(r, f.name)
      BY <1>8, <1>12
    <3> HIDE DEF o, old
    <3>3. o.name = f.name /\ f.locals = locals
      BY <1>12, <3>1
    <3>4. ASSUME NEW v \in DOMAIN locals
          PROVE  \E j \in 1..(k + 1) : IsLocal(rec[j], f.name) /\ locals[v] = rec[j]
      BY <1>11, <2>2, <2>3, <3>1, <3>2, <3>3
    <3>5. ASSUME NEW j \in 1..(k + 1), IsLocal(rec[j], f.name)
          PROVE  \E v \in DOMAIN locals : locals[v] = rec[j]
      <4>1. CASE j = k + 1
        BY <1>11, <4>1
      <4>2. CASE j \in 1..k
        BY <1>11, <2>2, <3>1, <3>3, <3>5, <4>2
      <4> QED  BY <2>3, <4>1, <4>2
    <3> QED  BY <3>1, <3>3, <3>4, <3>5
  <2>5. CASE a # l \/ b # n
    <3>1. ns[a].functions[b] = o
      BY <1>14, <2>1, <2>5
    <3>2. ~IsLocal(r, o.name)
      <4>1. o.name # ms[l].functions[n].name
        BY <1>6, <1>8, <2>1, <2>5 DEF Said, Placed
      <4> QED  BY <1>8, <4>1 DEF IsLocal
    <3> HIDE DEF o
    <3> QED  BY <2>2, <2>3, <3>1, <3>2
  <2> QED  BY <2>4, <2>5
<1> QED  BY <1>10, <1>16, <1>17, <1>18, <1>19 DEF Said

(* A record that leaves functions, their variables and markers alone *)
LEMMA RestSaid ==
  ASSUME NEW rec, NEW k \in Nat, NEW ms, NEW ns, Said(rec, k, ms),
         rec[k + 1].kind \notin {"M", "F", "S"},
         Len(ms) # 0 => Len(ms) \in DOMAIN ms,
         SamePlaces(ms, ns), SameLocals(ms, ns), SameMarkers(ms, ns), SameGlobals(ms, ns),
         \A i \in DOMAIN ms : \A n \in DOMAIN ms[i].functions :
           ~IsMarker(rec[k + 1], ms[i].functions[n].name)
  PROVE  Said(rec, k + 1, ns)
<1>1. (\A name : ~IsLocal(rec[k + 1], name)) /\ ~IsGlobal(rec[k + 1])
  BY DEF IsLocal, IsGlobal
<1>2. InModule(rec, k + 1, ns) /\ Placed(rec, k + 1, ns)
  BY PlacesKept DEF Said
<1>3. LocalsSaid(rec, k + 1, ns)
  BY <1>1, LocalsKept DEF Said
<1>4. MarkersSaid(rec, k + 1, ns)
  BY MarkersKept DEF Said
<1>5. GlobalsSaid(rec, k + 1, ns)
  BY <1>1, GlobalsKept DEF Said, SamePlaces
<1> QED  BY <1>2, <1>3, <1>4, <1>5 DEF Said

(* A marker names a module or none. *)
NamesModule(r, name) == r.module \in {"", name}

(* An L record moves the start or the end of the function it names. *)
LEMMA MarkerSaid ==
  ASSUME NEW R, NEW rec, NEW k \in Nat, rec[k + 1] \in R, rec[k + 1].kind = "L",
         NEW ms \in Seq(CdbModules(R)), Said(rec, k, ms),
         \A j \in 1..k : rec[j].kind = "F" /\ rec[j].name = rec[k + 1].name =>
           /\ NamesModule(rec[k + 1], rec[Max(Begun(rec, j))].name)
           /\ \A h \in 1..k : IsMarker(rec[h], rec[k + 1].name)
                                /\ SameSide(rec[h], rec[k + 1])
                              => rec[h].addr = rec[k + 1].addr
  PROVE  Said(rec, k + 1, ParseMarker(ms, rec[k + 1]))
<1> DEFINE r == rec[k + 1]
           found == {i \in DOMAIN ms : /\ NamesModule(r, ms[i].name)
                                       /\ \E f \in Range(ms[i].functions) : f.name = r.name}
<1>1. /\ DOMAIN ms = 1..Len(ms) /\ Len(ms) \in Nat
      /\ \A i \in DOMAIN ms : ms[i] \in CdbModules(R) /\ ms[i].functions \in Seq(CdbFunctions(R))
  <2>1. DOMAIN ms = 1..Len(ms) /\ Len(ms) \in Nat /\ \A i \in DOMAIN ms : ms[i] \in CdbModules(R)
    BY Places
  <2> QED  BY <2>1, Changed
<1>2. ASSUME NEW i \in DOMAIN ms, NEW n \in DOMAIN ms[i].functions,
             ms[i].functions[n].name = r.name
      PROVE  i \in found
             /\ \A h \in 1..k : IsMarker(rec[h], r.name) /\ SameSide(rec[h], r)
                                  => rec[h].addr = r.addr
  <2>1. PICK j \in 1..k : /\ rec[j].kind = "F" /\ rec[j].name = r.name
                          /\ ms[i].name = rec[Max(Begun(rec, j))].name
    BY <1>2 DEF Said, Placed
  <2>2. NamesModule(r, ms[i].name)
    BY <2>1
  <2>3. \E f \in Range(ms[i].functions) : f.name = r.name
    BY <1>2 DEF Range
  <2> QED  BY <2>1, <2>2, <2>3
<1>3. CASE found = {}
  <2>1. ParseMarker(ms, r) = ms
    BY <1>3, Zenon DEF ParseMarker, NamesModule
  <2>2. \A i \in DOMAIN ms : \A n \in DOMAIN ms[i].functions :
          ~IsMarker(r, ms[i].functions[n].name)
    BY <1>2, <1>3 DEF IsMarker
  <2>3. SamePlaces(ms, ms) /\ SameLocals(ms, ms) /\ SameMarkers(ms, ms) /\ SameGlobals(ms, ms)
    BY DEF SamePlaces, SameLocals, SameMarkers, SameGlobals
  <2>4. Len(ms) # 0 => Len(ms) \in DOMAIN ms
    BY <1>1
  <2> QED  BY <2>1, <2>2, <2>3, <2>4, RestSaid
<1>4. CASE found # {}
  <2>1. PICK i \in DOMAIN ms : \E n \in DOMAIN ms[i].functions : ms[i].functions[n].name = r.name
    BY <1>4 DEF Range
  <2>2. PICK n \in DOMAIN ms[i].functions : ms[i].functions[n].name = r.name
    BY <2>1
  <2>3. \A a \in DOMAIN ms : \A b \in DOMAIN ms[a].functions :
          ms[a].functions[b].name = r.name => a = i /\ b = n
    BY <2>2 DEF Said, Placed
  <2>4. found = {i}
    <3>1. i \in found
      BY <1>2, <2>2
    <3>2. \A a \in found : a = i
      BY <2>3 DEF Range
    <3> QED  BY <3>1, <3>2
  <2>5. First(found) = i
    <3>1. {i} \subseteq Nat /\ {i} # {}
      BY <1>1
    <3>2. First({i}) \in {i}
      BY <3>1, FirstIsLeast
    <3> HIDE DEF found
    <3> QED  BY <2>4, <3>2
  <2> DEFINE places == {b \in DOMAIN ms[i].functions : ms[i].functions[b].name = r.name}
  <2>6. First(places) = n
    <3>1. places = {n}
      BY <2>2, <2>3
    <3>2. {n} \subseteq Nat /\ {n} # {}
      <4>1. n \in Nat
        BY <1>1, Places
      <4> QED  BY <4>1
    <3>3. First({n}) \in {n}
      BY <3>2, FirstIsLeast
    <3> HIDE DEF places
    <3> QED  BY <3>1, <3>3
  <2> DEFINE old == ms[i].functions[n]
             f == IF r.isEnd THEN [old EXCEPT !.end = r.addr] ELSE [old EXCEPT !.start = r.addr]
             fs == [ms[i].functions EXCEPT ![n] = f]
             m == [ms[i] EXCEPT !.functions = fs]
             ns == [ms EXCEPT ![i] = m]
  <2>7. ParseMarker(ms, r) = ns
    <3>1. ParseMarker(ms, r) = IF r.isEnd THEN [ms EXCEPT ![i].functions[n].end = r.addr]
                               ELSE [ms EXCEPT ![i].functions[n].start = r.addr]
      <4> DEFINE l == First(found)
                 place == First({b \in DOMAIN ms[l].functions : ms[l].functions[b].name = r.name})
      <4>1. ParseMarker(ms, r) = IF r.isEnd THEN [ms EXCEPT ![l].functions[place].end = r.addr]
                                 ELSE [ms EXCEPT ![l].functions[place].start = r.addr]
        BY <1>4, Zenon DEF ParseMarker, NamesModule
      <4>2. l = i
        BY <2>5
      <4>3. place = n
        <5> HIDE DEF l
        <5> QED  BY <2>6, <4>2
      <4> HIDE DEF l, place
      <4> QED  BY <4>1, <4>2, <4>3
    <3>2. [ms EXCEPT ![i].functions[n].end = r.addr] =
            [ms EXCEPT ![i] = [ms[i] EXCEPT !.functions =
               [ms[i].functions EXCEPT ![n] = [ms[i].functions[n] EXCEPT !.end = r.addr]]]]
      BY Zenon
    <3>3. [ms EXCEPT ![i].functions[n].start = r.addr] =
            [ms EXCEPT ![i] = [ms[i] EXCEPT !.functions =
               [ms[i].functions EXCEPT ![n] = [ms[i].functions[n] EXCEPT !.start = r.addr]]]]
      BY Zenon
    <3>4. CASE r.isEnd
      BY <3>1, <3>2, <3>4
    <3>5. CASE ~r.isEnd
      BY <3>1, <3>3, <3>5
    <3> QED  BY <3>4, <3>5
  <2>8. f.name = old.name /\ f.locals = old.locals
        /\ f.end = (IF r.isEnd THEN r.addr ELSE old.end)
        /\ f.start = (IF r.isEnd THEN old.start ELSE r.addr)
    <3>1. old \in CdbFunctions(R)
      BY <1>1, Places
    <3> HIDE DEF old
    <3> QED  BY <3>1 DEF CdbFunctions
  <2>9. Len(ns) = Len(ms)
    <3>1. ParseMarker(ms, r) \in Seq(CdbModules(R))
      BY ParseMarkerTyped
    <3>2. DOMAIN ns = 1..Len(ms)
      BY <1>1
    <3> HIDE DEF ns
    <3> QED  BY <1>1, <2>7, <3>1, <3>2, Places
  <2> HIDE DEF f, found
  <2>10. Put(ms, ns, i, n, f)
    <3>1. DOMAIN fs = DOMAIN ms[i].functions /\ fs[n] = f
          /\ \A b \in DOMAIN ms[i].functions : b # n => fs[b] = ms[i].functions[b]
      OBVIOUS
    <3> HIDE DEF fs
    <3>2. m.functions = fs /\ m.name = ms[i].name /\ m.globals = ms[i].globals
      BY <1>1 DEF CdbModules
    <3> HIDE DEF m
    <3>3. DOMAIN ns = DOMAIN ms /\ ns[i] = m /\ \A a \in DOMAIN ms : a # i => ns[a] = ms[a]
      OBVIOUS
    <3> HIDE DEF ns
    <3> QED  BY <2>8, <2>9, <3>1, <3>2, <3>3 DEF Put
  <2> HIDE DEF ns
  <2>11. /\ SamePlaces(ms, ns) /\ SameGlobals(ms, ns) /\ ns[i].functions[n] = f
         /\ \A a \in DOMAIN ms : \A b \in DOMAIN ms[a].functions :
              a # i \/ b # n => ns[a].functions[b] = ms[a].functions[b]
    BY <2>10, PutSame
  <2>12. SameLocals(ms, ns)
    <3> SUFFICES ASSUME NEW a \in DOMAIN ms, NEW b \in DOMAIN ms[a].functions
                 PROVE  ns[a].functions[b].locals = ms[a].functions[b].locals
      BY DEF SameLocals
    <3> QED  BY <2>8, <2>11
  <2>13. InModule(rec, k + 1, ns) /\ Placed(rec, k + 1, ns)
    <3>1. Len(ms) # 0 => Len(ms) \in DOMAIN ms
      BY <1>1
    <3> QED  BY <2>11, <3>1, PlacesKept DEF Said
  <2>14. LocalsSaid(rec, k + 1, ns)
    BY <2>11, <2>12, LocalsKept DEF Said, IsLocal
  <2>15. GlobalsSaid(rec, k + 1, ns)
    BY <2>11, GlobalsKept DEF Said, SamePlaces, IsGlobal
  <2>16. MarkersSaid(rec, k + 1, ns)
    <3> SUFFICES ASSUME NEW a \in DOMAIN ns, NEW b \in DOMAIN ns[a].functions
                 PROVE  LET g == ns[a].functions[b]
                        IN  /\ \A j \in 1..(k + 1) : IsMarker(rec[j], g.name) =>
                                 /\ rec[j].isEnd => g.end = rec[j].addr
                                 /\ ~rec[j].isEnd => g.start = rec[j].addr
                            /\ g.start # Unset =>
                                 \E j \in 1..(k + 1) : IsMarker(rec[j], g.name) /\ ~rec[j].isEnd
                                                       /\ g.start = rec[j].addr
      BY DEF MarkersSaid
    <3>1. a \in DOMAIN ms /\ b \in DOMAIN ms[a].functions
      BY <2>11 DEF SamePlaces
    <3> DEFINE o == ms[a].functions[b]
    <3>2. /\ \A j \in 1..k : IsMarker(rec[j], o.name) =>
               /\ rec[j].isEnd => o.end = rec[j].addr
               /\ ~rec[j].isEnd => o.start = rec[j].addr
          /\ o.start # Unset => \E j \in 1..k : IsMarker(rec[j], o.name) /\ ~rec[j].isEnd
                                                /\ o.start = rec[j].addr
      BY <3>1 DEF Said, MarkersSaid
    <3>3. /\ 1..k \subseteq 1..(k + 1) /\ k + 1 \in 1..(k + 1)
          /\ \A j \in 1..(k + 1) : j \in 1..k \/ j = k + 1
      OBVIOUS
    <3>4. CASE a = i /\ b = n
      <4>1. ns[a].functions[b] = f /\ o = old
        BY <2>11, <3>4
      <4>2. IsMarker(r, f.name) /\ o.name = f.name /\ f.name = r.name
        BY <2>2, <2>8, <4>1 DEF IsMarker
      <4>3. \A h \in 1..k : IsMarker(rec[h], r.name) /\ SameSide(rec[h], r)
              => rec[h].addr = r.addr
        BY <1>2, <2>2
      <4> HIDE DEF o, old
      <4>4. ASSUME NEW j \in 1..(k + 1), IsMarker(rec[j], f.name)
            PROVE  /\ rec[j].isEnd => f.end = rec[j].addr
                   /\ ~rec[j].isEnd => f.start = rec[j].addr
        <5>1. CASE j = k + 1
          BY <2>8, <5>1
        <5>2. CASE j \in 1..k
          BY <2>8, <3>2, <4>1, <4>2, <4>3, <4>4, <5>2 DEF SameSide
        <5> QED  BY <3>3, <5>1, <5>2
      <4>5. ASSUME f.start # Unset
            PROVE  \E j \in 1..(k + 1) : IsMarker(rec[j], f.name) /\ ~rec[j].isEnd
                                         /\ f.start = rec[j].addr
        <5>1. CASE r.isEnd
          BY <2>8, <3>2, <3>3, <4>1, <4>2, <4>5, <5>1
        <5>2. CASE ~r.isEnd
          BY <2>8, <3>3, <4>2, <5>2
        <5> QED  BY <5>1, <5>2
      <4> QED  BY <4>1, <4>4, <4>5
    <3>5. CASE a # i \/ b # n
      <4>1. ns[a].functions[b] = o
        BY <2>11, <3>1, <3>5
      <4>2. ~IsMarker(r, o.name)
        BY <2>3, <3>1, <3>5 DEF IsMarker
      <4> HIDE DEF o
      <4> QED  BY <3>2, <3>3, <4>1, <4>2
    <3> QED  BY <3>4, <3>5
  <2> QED  BY <2>7, <2>13, <2>14, <2>15, <2>16 DEF Said
<1> QED  BY <1>3, <1>4

(* A C record leaves functions and variables alone. *)
LEMMA CLineSame ==
  ASSUME NEW R, NEW r \in R, r.kind = "C", NEW ms \in Seq(CdbModules(R))
  PROVE  LET ns == ParseCLine(ms, r)
         IN  SamePlaces(ms, ns) /\ SameLocals(ms, ns) /\ SameMarkers(ms, ns) /\ SameGlobals(ms, ns)
<1> DEFINE named == IF r.file.dir = "" /\ r.file.ext # "" THEN Named(ms, r.file.stem) ELSE {}
           i == IF Len(ms) \in named THEN Len(ms) ELSE First(named)
           m == [ms[i] EXCEPT !.file = IF @ = Stub(ms[i].name, "c").file THEN r.file ELSE @,
                              !.lines = Append(@, r)]
           ns == ParseCLine(ms, r)
<1>1. /\ DOMAIN ms = 1..Len(ms) /\ Len(ms) \in Nat
      /\ \A a \in DOMAIN ms : ms[a] \in CdbModules(R)
  BY Places
<1>2. ns = ms \/ ns = [ms EXCEPT ![i] = m]
  BY Zenon DEF ParseCLine
<1>3. i \in DOMAIN ms => m.name = ms[i].name /\ m.functions = ms[i].functions
                         /\ m.globals = ms[i].globals
  <2> HIDE DEF i
  <2> SUFFICES ASSUME i \in DOMAIN ms
               PROVE  m.name = ms[i].name /\ m.functions = ms[i].functions
                      /\ m.globals = ms[i].globals
    OBVIOUS
  <2>1. ms[i] \in CdbModules(R)
    BY <1>1
  <2> QED  BY <2>1 DEF CdbModules
<1>4. Len(ns) = Len(ms) /\ DOMAIN ns = DOMAIN ms
  <2>1. ns \in Seq(CdbModules(R))
    BY ParseCLineTyped
  <2> HIDE DEF i, m
  <2>2. DOMAIN ns = DOMAIN ms
    <3> HIDE DEF ns
    <3> QED  BY <1>2
  <2>3. Len(ns) \in Nat /\ DOMAIN ns = 1..Len(ns)
    BY <2>1, Places
  <2> HIDE DEF ns
  <2> QED  BY <1>1, <2>2, <2>3
<1> HIDE DEF m, i, ns
<1>5. \A a \in DOMAIN ms : ns[a].name = ms[a].name /\ ns[a].functions = ms[a].functions
                           /\ ns[a].globals = ms[a].globals
  BY <1>2, <1>3
<1>6. SamePlaces(ms, ns) /\ SameLocals(ms, ns)
  BY <1>4, <1>5 DEF SamePlaces, SameLocals
<1>7. SameMarkers(ms, ns) /\ SameGlobals(ms, ns)
  BY <1>5 DEF SameMarkers, SameGlobals
<1> QED  BY <1>6, <1>7 DEF ns

(* What the order of the records says of the next one *)
LEMMA OrderAt ==
  ASSUME NEW R, NEW rec \in Seq(R), InOrder(rec), NEW k \in Nat, k + 1 \in DOMAIN rec
  PROVE  /\ rec[k + 1].kind \in {"F", "S"} => Begun(rec, k + 1) # {}
         /\ rec[k + 1].kind = "F" =>
              /\ \A j \in 1..k : rec[j].kind = "F" => rec[j].name # rec[k + 1].name
              /\ \A j \in 1..k : /\ ~IsLocal(rec[j], rec[k + 1].name)
                                 /\ ~IsMarker(rec[j], rec[k + 1].name)
         /\ IsLocal(rec[k + 1], rec[k + 1].function) =>
              \E j \in 1..k :
                /\ rec[j].kind = "F" /\ rec[j].name = rec[k + 1].function
                /\ Begun(rec, j) = Begun(rec, k + 1)
                /\ \A i \in 1..k : rec[i].kind = "F" /\ rec[i].name = rec[j].name => i = j
         /\ rec[k + 1].kind = "L" =>
              \A j \in 1..k : rec[j].kind = "F" /\ rec[j].name = rec[k + 1].name =>
                /\ NamesModule(rec[k + 1], rec[Max(Begun(rec, j))].name)
                /\ \A h \in 1..k : IsMarker(rec[h], rec[k + 1].name)
                                     /\ SameSide(rec[h], rec[k + 1])
                                   => rec[h].addr = rec[k + 1].addr
<1> DEFINE i == k + 1
           names == FunctionNames(rec)
           Declares(j, name) == rec[j].kind = "F" /\ rec[j].name = name
<1>1. /\ DOMAIN rec = 1..Len(rec) /\ Len(rec) \in Nat /\ 1..k \subseteq DOMAIN rec
      /\ \A j \in 1..i : j \in DOMAIN rec /\ (j = i \/ j \in 1..k)
      /\ \A j \in 1..k : ~(i < j) /\ j # i /\ 1..j \subseteq 1..k
  <2>1. DOMAIN rec = 1..Len(rec) /\ Len(rec) \in Nat
    BY Places
  <2> QED  BY <2>1
<1>2. \A j \in DOMAIN rec : rec[j] \in Range(rec) /\ (rec[j].kind = "F" => rec[j].name \in names)
  BY DEF FunctionNames, Range
<1>3. /\ \A j \in DOMAIN rec : rec[j].kind \in {"F", "S"} => Begun(rec, j) # {}
      /\ \A a, b \in DOMAIN rec, f \in names : Declares(a, f) /\ Declares(b, f) => a = b
      /\ \A a \in DOMAIN rec : rec[a].kind = "S" /\ rec[a].scope = "L" =>
           \E j \in 1..a : Declares(j, rec[a].function) /\ Begun(rec, j) = Begun(rec, a)
      /\ \A a, j \in DOMAIN rec :
           rec[a].kind = "L" /\ rec[a].name \in names /\ Declares(j, rec[a].name) =>
             j < a /\ NamesModule(rec[a], rec[Max(Begun(rec, j))].name)
      /\ \A r, s \in Range(rec) :
           /\ r.kind = "L" /\ r.name \in names /\ s.kind = "L" /\ s.name \in names
           /\ r.name = s.name /\ SameSide(r, s)
           => r.addr = s.addr
  BY Zenon DEF InOrder, NamesModule
<1> HIDE DEF names
<1>4. i \in DOMAIN rec
  OBVIOUS
<1> HIDE DEF i
<1>5. ASSUME rec[i].kind = "F", NEW j \in 1..k
      PROVE  /\ rec[j].kind = "F" => rec[j].name # rec[i].name
             /\ ~IsLocal(rec[j], rec[i].name) /\ ~IsMarker(rec[j], rec[i].name)
  <2>1. rec[j].kind = "F" => rec[j].name # rec[i].name
    BY <1>1, <1>2, <1>3, <1>4, <1>5
  <2>2. ~IsLocal(rec[j], rec[i].name)
    <3> SUFFICES ASSUME IsLocal(rec[j], rec[i].name) PROVE FALSE
      OBVIOUS
    <3>1. PICK h \in 1..j : Declares(h, rec[i].name)
      BY <1>1, <1>3 DEF IsLocal
    <3> QED  BY <1>1, <1>2, <1>3, <1>4, <1>5, <3>1
  <2>3. ~IsMarker(rec[j], rec[i].name)
    BY <1>1, <1>2, <1>3, <1>4, <1>5 DEF IsMarker
  <2> QED  BY <2>1, <2>2, <2>3
<1>6. ASSUME IsLocal(rec[i], rec[i].function)
      PROVE  \E j \in 1..k :
               /\ rec[j].kind = "F" /\ rec[j].name = rec[i].function
               /\ Begun(rec, j) = Begun(rec, i)
               /\ \A h \in 1..k : rec[h].kind = "F" /\ rec[h].name = rec[j].name => h = j
  <2>1. PICK j \in 1..i : Declares(j, rec[i].function) /\ Begun(rec, j) = Begun(rec, i)
    BY <1>3, <1>4, <1>6 DEF IsLocal
  <2>2. j \in 1..k
    BY <1>1, <1>6, <2>1 DEF IsLocal
  <2> QED  BY <1>1, <1>2, <1>3, <2>1, <2>2
<1>7. ASSUME rec[i].kind = "L", NEW j \in 1..k, rec[j].kind = "F", rec[j].name = rec[i].name
      PROVE  /\ NamesModule(rec[i], rec[Max(Begun(rec, j))].name)
             /\ \A h \in 1..k : IsMarker(rec[h], rec[i].name) /\ SameSide(rec[h], rec[i])
                                  => rec[h].addr = rec[i].addr
  <2>1. rec[i].name \in names
    BY <1>1, <1>2, <1>7
  <2> QED  BY <1>1, <1>2, <1>3, <1>4, <1>7, <2>1 DEF IsMarker
<1> QED  BY <1>3, <1>4, <1>5, <1>6, <1>7 DEF i

(* cdb_parser::parse_line keeps the modules what the records say. *)
LEMMA RecordSaid ==
  ASSUME NEW R, NEW rec \in Seq(R), InOrder(rec), NEW k \in Nat, k + 1 \in DOMAIN rec,
         NEW ms \in Seq(CdbModules(R)), Said(rec, k, ms)
  PROVE  Said(rec, k + 1, ParseRecord(ms, rec[k + 1]))
<1> DEFINE r == rec[k + 1]
<1>1. r \in R
  BY Places
<1>2. CASE r.kind = "M"
  <2>1. ParseRecord(ms, r) = ParseModule(ms, r)
    BY <1>2 DEF ParseRecord
  <2> QED  BY <1>2, <2>1, ModuleSaid
<1>3. CASE r.kind = "F"
  <2>1. ParseRecord(ms, r) = ParseFunction(ms, r)
    BY <1>3 DEF ParseRecord
  <2> QED  BY <1>1, <1>3, <2>1, OrderAt, FunctionSaid
<1>4. CASE r.kind = "S"
  <2>1. ParseRecord(ms, r) = ParseSymbol(ms, r)
    BY <1>4 DEF ParseRecord
  <2>2. IsGlobal(r) \/ IsLocal(r, r.function)
    BY <1>4 DEF IsGlobal, IsLocal
  <2>3. CASE IsGlobal(r)
    BY <1>1, <1>4, <2>1, <2>3, OrderAt, GlobalSaid
  <2>4. CASE IsLocal(r, r.function)
    BY <1>1, <2>1, <2>4, OrderAt, LocalSaid
  <2> QED  BY <2>2, <2>3, <2>4
<1>5. CASE r.kind = "L"
  <2>1. ParseRecord(ms, r) = ParseMarker(ms, r)
    BY <1>5 DEF ParseRecord
  <2> QED  BY <1>1, <1>5, <2>1, OrderAt, MarkerSaid
<1>6. CASE r.kind \notin {"M", "F", "S", "L"}
  <2> DEFINE ns == ParseRecord(ms, r)
  <2>1. SamePlaces(ms, ns) /\ SameLocals(ms, ns) /\ SameMarkers(ms, ns) /\ SameGlobals(ms, ns)
    <3>1. CASE r.kind = "C"
      <4>1. ns = ParseCLine(ms, r)
        BY <3>1 DEF ParseRecord
      <4> QED  BY <1>1, <3>1, <4>1, CLineSame
    <3>2. CASE r.kind # "C"
      <4>1. ns = ms
        BY <1>6, <3>2 DEF ParseRecord
      <4> HIDE DEF ns
      <4> QED  BY <4>1 DEF SamePlaces, SameLocals, SameMarkers, SameGlobals
    <3> QED  BY <3>1, <3>2
  <2>2. Len(ms) # 0 => Len(ms) \in DOMAIN ms
    BY Places
  <2>3. \A name : ~IsMarker(r, name)
    BY <1>6 DEF IsMarker
  <2> HIDE DEF ns
  <2>4. Said(rec, k + 1, ns)
    BY <1>6, <2>1, <2>2, <2>3, RestSaid
  <2> QED  BY <2>4 DEF ns
<1> QED  BY <1>2, <1>3, <1>4, <1>5, <1>6

(* At the end of the file the modules are what all its records say. *)
LEMMA FoldSaid ==
  ASSUME NEW R, NEW rec \in Seq(R), InOrder(rec)
  PROVE  Said(rec, Len(rec), FoldLeft(ParseRecord, << >>, rec))
<1> DEFINE n == Len(rec)
<1>1. n \in Nat /\ DOMAIN rec = 1..n
  BY Places
<1>2. PICK F \in [0..n -> Seq(CdbModules(R))] :
        /\ F[0] = << >>
        /\ \A k \in 1..n : F[k] = ParseRecord(F[k - 1], rec[k])
        /\ FoldLeft(ParseRecord, << >>, rec) = F[n]
  BY FoldSteps
<1> DEFINE P == {k \in 0..n : Said(rec, k, F[k])}
<1>3. 0 \in P
  <2>1. Begun(rec, 0) = {} /\ \A j \in 1..0 : FALSE
    BY DEF Begun
  <2>2. Len(<< >>) = 0 /\ DOMAIN << >> = {}
    OBVIOUS
  <2>3. Said(rec, 0, << >>)
    BY <2>1, <2>2 DEF Said, InModule, Placed, LocalsSaid, MarkersSaid, GlobalsSaid
  <2>4. 0 \in 0..n
    BY <1>1
  <2> QED  BY <1>2, <2>3, <2>4
<1>4. ASSUME NEW k \in 0..(n - 1), k \in P PROVE k + 1 \in P
  <2>1. k \in Nat /\ k \in 0..n /\ k + 1 \in 0..n /\ k + 1 \in 1..n /\ (k + 1) - 1 = k
    BY <1>1
  <2>2. F[k] \in Seq(CdbModules(R)) /\ Said(rec, k, F[k])
    BY <1>4, <2>1
  <2>3. F[k + 1] = ParseRecord(F[k], rec[k + 1])
    BY <1>2, <2>1
  <2>4. Said(rec, k + 1, ParseRecord(F[k], rec[k + 1]))
    BY <1>1, <2>1, <2>2, RecordSaid
  <2> QED  BY <2>1, <2>3, <2>4
<1> HIDE DEF P
<1>5. 0..n \subseteq P
  BY <1>1, <1>3, <1>4, InductionUpTo
<1>6. n \in P
  BY <1>1, <1>5
<1> QED  BY <1>2, <1>6 DEF P

(* Stubs of assembly modules have no functions and no variables. *)
LEMMA MergeKeeps ==
  ASSUME NEW R, NEW rec \in Seq(R), R = Range(rec), NEW ms \in Seq(CdbModules(R))
  PROVE  LET ns == MergeAsmLines(ms, rec)
         IN  /\ DOMAIN ms \subseteq DOMAIN ns
             /\ \A i \in DOMAIN ms : ns[i].name = ms[i].name /\ ns[i].functions = ms[i].functions
                                     /\ ns[i].globals = ms[i].globals
             /\ \A i \in DOMAIN ns \ DOMAIN ms :
                  DOMAIN ns[i].functions = {} /\ DOMAIN ns[i].globals = {}
<1>1. PICK stubs \in Seq(CdbModules(R)) :
        /\ \A i \in DOMAIN stubs : \E name : stubs[i] = Stub(name, "s")
        /\ MergeAsmLines(ms, rec) = GivenAsm(ms \o stubs, rec)
  BY MergeParts, Zenon
<1> DEFINE all == ms \o stubs
           ns == MergeAsmLines(ms, rec)
<1>2. /\ DOMAIN ms = 1..Len(ms) /\ Len(ms) \in Nat
      /\ DOMAIN stubs = 1..Len(stubs) /\ Len(stubs) \in Nat
      /\ DOMAIN all = 1..(Len(ms) + Len(stubs)) /\ all \in Seq(CdbModules(R))
      /\ \A i \in DOMAIN ms : all[i] = ms[i]
      /\ \A i \in DOMAIN stubs : all[Len(ms) + i] = stubs[i]
  BY Places, ConcatProperties
<1>3. DOMAIN ns = DOMAIN all
      /\ \A i \in DOMAIN all : ns[i] = all[i]
                               \/ ns[i] = [all[i] EXCEPT !.asm = AsmLines(rec, all[i].name)]
  BY <1>1 DEF GivenAsm
<1> HIDE DEF all, ns
<1>4. ASSUME NEW i \in DOMAIN all
      PROVE  ns[i].name = all[i].name /\ ns[i].functions = all[i].functions
             /\ ns[i].globals = all[i].globals
  <2>1. all[i] \in CdbModules(R)
    BY <1>2, Places
  <2>2. CASE ns[i] = [all[i] EXCEPT !.asm = AsmLines(rec, all[i].name)]
    BY <2>1, <2>2 DEF CdbModules
  <2> QED  BY <1>3, <2>2
<1>5. DOMAIN ms \subseteq DOMAIN all
      /\ \A i \in DOMAIN all \ DOMAIN ms : i - Len(ms) \in DOMAIN stubs
                                           /\ Len(ms) + (i - Len(ms)) = i
  BY <1>2
<1>6. ASSUME NEW i \in DOMAIN all \ DOMAIN ms
      PROVE  DOMAIN all[i].functions = {} /\ DOMAIN all[i].globals = {}
  <2>1. all[i] = stubs[i - Len(ms)] /\ i - Len(ms) \in DOMAIN stubs
    BY <1>2, <1>5
  <2>2. PICK name : all[i] = Stub(name, "s")
    BY <1>1, <2>1
  <2> DEFINE stub == Stub(name, "s")
  <2>3. DOMAIN stub.functions = {} /\ DOMAIN stub.globals = {}
    BY DEF Stub
  <2> HIDE DEF stub
  <2>4. all[i] = stub
    BY <2>2 DEF stub
  <2> QED  BY <2>3, <2>4
<1> QED  BY <1>2, <1>3, <1>4, <1>5, <1>6 DEF ns

(* So it is with what the file is parsed to. *)
LEMMA ParseSaid ==
  ASSUME NEW rec, rec \in Seq(Range(rec)), InOrder(rec)
  PROVE  LET ms == Parse(rec)
         IN  /\ \A j \in DOMAIN rec : rec[j].kind = "F" =>
                  \E i \in DOMAIN ms : \E n \in DOMAIN ms[i].functions :
                    ms[i].functions[n].name = rec[j].name
             /\ \A i \in DOMAIN ms : \A n \in DOMAIN ms[i].functions : \E j \in DOMAIN rec :
                  rec[j].kind = "F" /\ rec[j].name = ms[i].functions[n].name
             /\ LocalsSaid(rec, Len(rec), ms) /\ MarkersSaid(rec, Len(rec), ms)
             /\ GlobalsSaid(rec, Len(rec), ms)
<1> DEFINE R == Range(rec)
           n == Len(rec)
           ms == FoldLeft(ParseRecord, << >>, rec)
           ns == Parse(rec)
<1>1. ms \in Seq(CdbModules(R)) /\ Said(rec, n, ms) /\ DOMAIN rec = 1..n
  <2> HIDE DEF R
  <2>1. rec \in Seq(R)
    BY DEF R
  <2> QED  BY <2>1, FoldTyped, FoldSaid, Places
<1>2. ns = MergeAsmLines(ms, rec)
  BY DEF Parse
<1> HIDE DEF ms, ns
<1>3. /\ DOMAIN ms \subseteq DOMAIN ns
      /\ \A i \in DOMAIN ms : ns[i].name = ms[i].name /\ ns[i].functions = ms[i].functions
                              /\ ns[i].globals = ms[i].globals
      /\ \A i \in DOMAIN ns \ DOMAIN ms :
           DOMAIN ns[i].functions = {} /\ DOMAIN ns[i].globals = {}
  BY <1>1, <1>2, MergeKeeps
<1>4. \A j \in 1..n : rec[j].kind = "F" =>
        \E i \in DOMAIN ns : \E m \in DOMAIN ns[i].functions : ns[i].functions[m].name = rec[j].name
  <2> TAKE j \in 1..n
  <2> HAVE rec[j].kind = "F"
  <2>1. PICK i \in DOMAIN ms : \E m \in DOMAIN ms[i].functions :
          ms[i].functions[m].name = rec[j].name
    BY <1>1 DEF Said, Placed
  <2> QED  BY <1>3, <2>1
<1>5. \A i \in DOMAIN ns : \A m \in DOMAIN ns[i].functions : \E j \in 1..n :
        rec[j].kind = "F" /\ rec[j].name = ns[i].functions[m].name
  <2> TAKE i \in DOMAIN ns
  <2> TAKE m \in DOMAIN ns[i].functions
  <2>1. i \in DOMAIN ms /\ m \in DOMAIN ms[i].functions /\ ns[i].functions[m] = ms[i].functions[m]
    BY <1>3
  <2> QED  BY <1>1, <2>1 DEF Said, Placed
<1>6. LocalsSaid(rec, n, ns)
  <2>1. LocalsSaid(rec, n, ms)
    BY <1>1 DEF Said
  <2> QED  BY <1>3, <2>1 DEF LocalsSaid
<1>7. MarkersSaid(rec, n, ns)
  <2>1. MarkersSaid(rec, n, ms)
    BY <1>1 DEF Said
  <2> SUFFICES ASSUME NEW i \in DOMAIN ns, NEW m \in DOMAIN ns[i].functions
               PROVE  LET f == ns[i].functions[m]
                      IN  /\ \A j \in 1..n : IsMarker(rec[j], f.name) =>
                               /\ rec[j].isEnd => f.end = rec[j].addr
                               /\ ~rec[j].isEnd => f.start = rec[j].addr
                          /\ f.start # Unset =>
                               \E j \in 1..n : IsMarker(rec[j], f.name) /\ ~rec[j].isEnd
                                               /\ f.start = rec[j].addr
    BY DEF MarkersSaid
  <2>2. i \in DOMAIN ms /\ m \in DOMAIN ms[i].functions /\ ns[i].functions[m] = ms[i].functions[m]
    BY <1>3
  <2> QED  BY <2>1, <2>2 DEF MarkersSaid
<1>8. GlobalsSaid(rec, n, ns)
  <2>1. GlobalsSaid(rec, n, ms)
    BY <1>1 DEF Said
  <2> QED  BY <1>3, <2>1 DEF GlobalsSaid
<1> QED  BY <1>1, <1>4, <1>5, <1>6, <1>7, <1>8 DEF ns

=============================================================================
