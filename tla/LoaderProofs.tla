---------------------------- MODULE LoaderProofs ----------------------------
(***************************************************************************)
(* load_ihx leaves in memory what the whole file says, and enters a plain  *)
(* file at its lowest byte: IhxLoader against its reference (Says,         *)
(* Covered), for every file. After each record the loader agrees with the  *)
(* records so far (Agrees).                                                *)
(***************************************************************************)
EXTENDS Inspection, Recursion

(* What the locals of load_ihx can hold *)
Loaders ==
  [memory : [Addr -> Byte], upper : Nat, bases : SUBSET Nat, entry : Nat \cup {NoStart},
   ended : BOOLEAN]

(* The sizes are numbers, and a word is at least four memories. *)
LEMMA Sizes ==
  /\ ByteSpace \in Nat /\ ByteSpace >= 2
  /\ AddrSpace \in Nat /\ AddrSpace >= 4
  /\ Word \in Nat /\ Word >= 4 * AddrSpace
  /\ Paragraph \in Nat
<1>1. ByteSpace \in Nat /\ ByteSpace >= 2 /\ Paragraph \in Nat /\ AddrSpace = ByteSpace * ByteSpace
  BY SizeAssumption
<1>2. \A b \in Nat : b * b \in Nat /\ (b >= 2 => b * b >= 4)
  OBVIOUS
<1>3. AddrSpace \in Nat /\ AddrSpace >= 4
  BY <1>1, <1>2
<1>4. \A b \in Nat : b * b \in Nat /\ (b >= 4 => b * b >= 4 * b)
  OBVIOUS
<1>5. Word \in Nat /\ Word >= 4 * AddrSpace
  BY <1>3, <1>4 DEF Word
<1> QED  BY <1>1, <1>3, <1>5

(* The remainder of a division *)
LEMMA ModRange == \A x \in Int, n \in Nat \ {0} : x % n \in 0..(n - 1)
OBVIOUS

(* Good counts the bytes up to one that is bad. *)
LEMMA GoodBytes ==
  ASSUME NEW bytes \in Seq(Byte \cup {Bad})
  PROVE  /\ Good(bytes) \in 0..Len(bytes)
         /\ \A i \in 1..Good(bytes) : bytes[i] \in Byte
<1> DEFINE bad == {i \in DOMAIN bytes : bytes[i] = Bad}
<1>1. Len(bytes) \in Nat /\ DOMAIN bytes = 1..Len(bytes)
      /\ \A i \in 1..Len(bytes) : bytes[i] \in Byte \cup {Bad}
  OBVIOUS
<1>2. CASE bad = {}
  <2>1. Good(bytes) = Len(bytes)  BY <1>2 DEF Good
  <2> QED  BY <1>1, <1>2, <2>1
<1>3. CASE bad # {}
  <2>1. Good(bytes) = Min(bad) - 1  BY <1>3 DEF Good
  <2>2. bad \subseteq Nat  BY <1>1
  <2> HIDE DEF bad
  <2>3. Min(bad) \in bad /\ \A k \in bad : Min(bad) <= k
    BY <1>3, <2>2, MinIsLeast
  <2>4. Min(bad) \in 1..Len(bytes)  BY <1>1, <2>3 DEF bad
  <2>5. ASSUME NEW i \in 1..Good(bytes) PROVE bytes[i] \in Byte
    <3>1. i \in 1..Len(bytes) /\ i < Min(bad)  BY <1>1, <2>1, <2>4
    <3>2. i \notin bad
      <4>1. Min(bad) \in Nat /\ i \in Nat /\ ~(Min(bad) <= i)
        BY <1>1, <2>4, <3>1
      <4> QED  BY <2>3, <4>1
    <3> QED  BY <1>1, <3>1, <3>2 DEF bad
  <2> QED  BY <1>1, <2>1, <2>4, <2>5
<1> QED  BY <1>2, <1>3

(* What the data of a record puts at an address, if anything *)
LEMMA DataByte ==
  ASSUME NEW base \in Nat, NEW bytes \in Seq(Byte \cup {Bad}), NEW a \in Addr
  PROVE  /\ (a - base) % Word \in Nat
         /\ (a - base) % Word < Good(bytes) => bytes[((a - base) % Word) + 1] \in Byte
<1>1. a - base \in Int /\ Word \in Nat \ {0}
  BY Sizes DEF Addr
<1>2. (a - base) % Word \in Nat
  BY <1>1, ModRange
<1>3. Good(bytes) \in Nat /\ \A i \in 1..Good(bytes) : bytes[i] \in Byte
  BY GoodBytes
<1> QED  BY <1>2, <1>3

(* What the fields of a record are *)
LEMMA RecordFields ==
  ASSUME NEW r \in Records
  PROVE  /\ r.type \in {"data", "segment", "linear", "start", "address", "end", "ignored"}
         /\ r.type = "data" => r.address \in Nat /\ r.bytes \in Seq(Byte \cup {Bad})
         /\ r.type \in {"segment", "linear"} => r.value \in Nat
         /\ r.type = "start" => r.segment \in Nat /\ r.offset \in Nat
         /\ r.type = "address" => r.value \in Nat
<1>1. Addr \subseteq Nat /\ 0..(Word - 1) \subseteq Nat
  BY Sizes DEF Addr
<1>2. CASE r \in [type : {"data"}, address : Addr, bytes : Seq(Byte \cup {Bad})]
  BY <1>1, <1>2
<1>3. CASE r \in [type : {"segment", "linear"}, value : Addr]
  BY <1>1, <1>3
<1>4. CASE r \in [type : {"start"}, segment : Addr, offset : Addr]
  BY <1>1, <1>4
<1>5. CASE r \in [type : {"address"}, value : 0..(Word - 1)]
  BY <1>1, <1>5
<1>6. CASE r \in [type : {"end", "ignored"}]
  BY <1>1, <1>6
<1> QED  BY <1>2, <1>3, <1>4, <1>5, <1>6 DEF Records

(* Loading a record keeps the types of the loader. *)
LEMMA LoadDataTyped ==
  ASSUME NEW l \in Loaders, NEW r \in Records, r.type = "data"
  PROVE  /\ LoadData(l, r) \in Loaders
         /\ LoadData(l, r).upper = l.upper /\ LoadData(l, r).entry = l.entry
         /\ LoadData(l, r).ended = l.ended
         /\ LoadData(l, r).bases =
              IF r.bytes = << >> THEN l.bases ELSE l.bases \cup {l.upper + r.address}
         /\ \A a \in Addr :
              LoadData(l, r).memory[a] =
                LET at == (a - (l.upper + r.address)) % Word
                IN  IF at < Good(r.bytes) THEN r.bytes[at + 1] ELSE l.memory[a]
<1> DEFINE base == l.upper + r.address
           at(a) == (a - base) % Word
           m == [a \in Addr |-> IF at(a) + 1 <= Good(r.bytes) THEN r.bytes[at(a) + 1]
                                ELSE l.memory[a]]
           b == IF r.bytes = << >> THEN l.bases ELSE l.bases \cup {base}
<1>1. /\ l.memory \in [Addr -> Byte] /\ l.upper \in Nat /\ l.bases \in SUBSET Nat
      /\ l.entry \in Nat \cup {NoStart} /\ l.ended \in BOOLEAN
  BY DEF Loaders
<1>2. r.address \in Nat /\ r.bytes \in Seq(Byte \cup {Bad})
  BY RecordFields
<1>3. base \in Nat
  BY <1>1, <1>2
<1>4. LoadData(l, r) = [l EXCEPT !.bases = b, !.memory = m]
  BY DEF LoadData
<1>5. LoadData(l, r) = [memory |-> m, upper |-> l.upper, bases |-> b, entry |-> l.entry,
                        ended |-> l.ended]
  BY <1>4 DEF Loaders
<1>6. ASSUME NEW a \in Addr
      PROVE  /\ m[a] \in Byte
             /\ m[a] = IF at(a) < Good(r.bytes) THEN r.bytes[at(a) + 1] ELSE l.memory[a]
  <2> HIDE DEF base
  <2>1. at(a) \in Nat /\ Good(r.bytes) \in Nat
        /\ (at(a) < Good(r.bytes) => r.bytes[at(a) + 1] \in Byte)
    BY <1>2, <1>3, DataByte, GoodBytes
  <2> HIDE DEF at
  <2> QED  BY <1>1, <2>1
<1>7. m \in [Addr -> Byte] /\ b \in SUBSET Nat
  BY <1>1, <1>3, <1>6
<1> HIDE DEF m, b
<1>8. LoadData(l, r) \in Loaders
  BY <1>1, <1>5, <1>7 DEF Loaders
<1> QED  BY <1>5, <1>6, <1>8 DEF b

(* A record leaves the locals of load_ihx what they can hold. *)
LEMMA LoadRecordTyped ==
  ASSUME NEW l \in Loaders, NEW r \in Records
  PROVE  LoadRecord(l, r) \in Loaders
<1>1. /\ l.memory \in [Addr -> Byte] /\ l.upper \in Nat /\ l.bases \in SUBSET Nat
      /\ l.entry \in Nat \cup {NoStart} /\ l.ended \in BOOLEAN
      /\ l = [memory |-> l.memory, upper |-> l.upper, bases |-> l.bases, entry |-> l.entry,
              ended |-> l.ended]
  BY DEF Loaders
<1>2. \A x, y \in Nat : x * y \in Nat /\ x + y \in Nat
  OBVIOUS
<1>3. Paragraph \in Nat /\ AddrSpace \in Nat
  BY Sizes
<1>4. CASE l.ended
  BY <1>4 DEF LoadRecord
<1>5. CASE ~l.ended /\ r.type = "end"
  <2>1. LoadRecord(l, r) = [l EXCEPT !.ended = TRUE]
    BY <1>5 DEF LoadRecord
  <2> QED  BY <1>1, <2>1 DEF Loaders
<1>6. CASE ~l.ended /\ r.type = "data"
  <2>1. LoadRecord(l, r) = LoadData(l, r)
    BY <1>6 DEF LoadRecord
  <2> QED  BY <1>6, <2>1, LoadDataTyped
<1>7. CASE ~l.ended /\ r.type = "segment"
  <2>1. LoadRecord(l, r) = [l EXCEPT !.upper = r.value * Paragraph]
    BY <1>7 DEF LoadRecord
  <2>2. r.value * Paragraph \in Nat
    BY <1>2, <1>3, <1>7, RecordFields
  <2> QED  BY <1>1, <2>1, <2>2 DEF Loaders
<1>8. CASE ~l.ended /\ r.type = "linear"
  <2>1. LoadRecord(l, r) = [l EXCEPT !.upper = r.value * AddrSpace]
    BY <1>8 DEF LoadRecord
  <2>2. r.value * AddrSpace \in Nat
    BY <1>2, <1>3, <1>8, RecordFields
  <2> QED  BY <1>1, <2>1, <2>2 DEF Loaders
<1>9. CASE ~l.ended /\ r.type = "start"
  <2>1. LoadRecord(l, r) = [l EXCEPT !.entry = r.segment * Paragraph + r.offset]
    BY <1>9 DEF LoadRecord
  <2>2. r.segment * Paragraph + r.offset \in Nat
    BY <1>2, <1>3, <1>9, RecordFields
  <2> QED  BY <1>1, <2>1, <2>2 DEF Loaders
<1>10. CASE ~l.ended /\ r.type = "address"
  <2>1. LoadRecord(l, r) = [l EXCEPT !.entry = r.value]
    BY <1>10 DEF LoadRecord
  <2>2. r.value \in Nat
    BY <1>10, RecordFields
  <2> QED  BY <1>1, <2>1, <2>2 DEF Loaders
<1>11. CASE ~l.ended /\ r.type = "ignored"
  <2>1. LoadRecord(l, r) = l
    BY <1>11 DEF LoadRecord
  <2> QED  BY <2>1
<1> QED
  BY <1>4, <1>5, <1>6, <1>7, <1>8, <1>9, <1>10, <1>11, RecordFields

(* The loader before the first record and after each. *)
IsLoading(F, records) ==
  /\ F \in [0..Len(records) -> Loaders]
  /\ F[0] = Start
  /\ \A k \in 1..Len(records) : F[k] = LoadRecord(F[k - 1], records[k])
  /\ LoadIhx(records) = F[Len(records)]

(* The locals before the first record *)
LEMMA StartTyped == Start \in Loaders
<1>1. Zero \in [Addr -> Byte]
  BY Sizes DEF Zero, Byte
<1> QED  BY <1>1 DEF Start, Loaders

(* load_ihx goes from record to record. *)
LEMMA LoadingExists ==
  ASSUME NEW records \in Seq(Records)
  PROVE  \E F : IsLoading(F, records)
<1> DEFINE n == Len(records)
           step == [p \in Loaders \X Nat |->
                      IF p[2] \in DOMAIN records THEN LoadRecord(p[1], records[p[2]]) ELSE p[1]]
<1>1. n \in Nat /\ DOMAIN records = 1..n /\ \A i \in 1..n : records[i] \in Records
  OBVIOUS
<1>2. \A v \in Loaders, k \in Nat :
        step[<<v, k>>] = IF k \in DOMAIN records THEN LoadRecord(v, records[k]) ELSE v
  OBVIOUS
<1> HIDE DEF step, n
<1>3. \A v \in Loaders, k \in Nat : step[<<v, k>>] \in Loaders
  <2> TAKE v \in Loaders, k \in Nat
  <2>1. CASE k \in 1..n
    <3>1. LoadRecord(v, records[k]) \in Loaders  BY <1>1, <2>1, LoadRecordTyped
    <3> QED  BY <1>1, <1>2, <2>1, <3>1
  <2>2. CASE k \notin 1..n
    BY <1>1, <1>2, <2>2
  <2> QED  BY <2>1, <2>2
<1>4. PICK g \in [SUBSET (1..n) -> Loaders] : IsFold(g, Start, step, n)
  BY <1>1, <1>3, StartTyped, FoldExists
<1>5. g = [s \in SUBSET DOMAIN records |->
             IF s = {} THEN Start ELSE LoadRecord(g[s \ {Max(s)}], records[Max(s)])]
  <2>1. ASSUME NEW s \in SUBSET (1..n)
        PROVE  g[s] = IF s = {} THEN Start ELSE LoadRecord(g[s \ {Max(s)}], records[Max(s)])
    <3>1. g[s] = IF s = {} THEN Start ELSE step[<<g[s \ {Max(s)}], Max(s)>>]
      BY <1>4 DEF IsFold
    <3>2. CASE s # {}
      <4>1. s \subseteq Nat /\ \A x \in s : x <= n  BY <1>1
      <4>2. Max(s) \in s  BY <1>1, <3>2, <4>1, MaxIsGreatest
      <4>3. Max(s) \in DOMAIN records /\ Max(s) \in Nat
        BY <1>1, <4>1, <4>2
      <4>4. g[s \ {Max(s)}] \in Loaders
        OBVIOUS
      <4> QED  BY <1>2, <3>1, <3>2, <4>3, <4>4
    <3> QED  BY <3>1, <3>2
  <2> QED  BY <1>1, <2>1
<1>6. PICK h : /\ h = [s \in SUBSET DOMAIN records |->
                        IF s = {} THEN Start
                        ELSE LoadRecord(h[s \ {Max(s)}], records[Max(s)])]
               /\ LoadIhx(records) = h[DOMAIN records]
  BY <1>5, Zenon DEF LoadIhx, FoldLeft, MapThenFoldSet
<1> DEFINE F == [k \in 0..n |-> h[1..k]]
<1>7. h[{}] = Start
  BY <1>6
<1>8. ASSUME NEW k \in 1..n PROVE h[1..k] = LoadRecord(h[1..(k - 1)], records[k])
  <2>1. 1..k \in SUBSET DOMAIN records /\ k \in Nat \ {0}
    BY <1>1
  <2>2. 1..k # {} /\ Max(1..k) = k /\ (1..k) \ {Max(1..k)} = 1..(k - 1)
    BY <2>1, Intervals
  <2>3. h[1..k] = IF 1..k = {} THEN Start
                  ELSE LoadRecord(h[(1..k) \ {Max(1..k)}], records[Max(1..k)])
    BY <1>6, <2>1
  <2> QED  BY <2>2, <2>3
<1>9. F[0] = Start
  <2>1. 0 \in 0..n /\ 1..0 = {}  BY <1>1, Intervals
  <2> QED  BY <1>7, <2>1
<1>10. \A k \in 1..n : F[k] = LoadRecord(F[k - 1], records[k])
  <2> TAKE k \in 1..n
  <2>1. k \in 0..n /\ k - 1 \in 0..n  BY <1>1
  <2> QED  BY <1>8, <2>1
<1>11. LoadIhx(records) = F[n]
  <2>1. n \in 0..n  BY <1>1
  <2> QED  BY <1>1, <1>6, <2>1
<1>12. F = [k \in 0..n |-> F[k]]
  OBVIOUS
<1> HIDE DEF F
<1>13. F \in [0..n -> Loaders]
  <2> DEFINE P == {k \in 0..n : F[k] \in Loaders}
  <2>1. 0 \in P  BY <1>1, <1>9, StartTyped
  <2>2. ASSUME NEW k \in 0..(n - 1), k \in P PROVE k + 1 \in P
    <3>1. k + 1 \in 1..n /\ k + 1 \in 0..n /\ k + 1 - 1 = k  BY <1>1
    <3>2. F[k + 1] = LoadRecord(F[k], records[k + 1])  BY <1>10, <3>1
    <3> QED  BY <1>1, <2>2, <3>1, <3>2, LoadRecordTyped
  <2> HIDE DEF P
  <2>3. 0..n \subseteq P  BY <1>1, <2>1, <2>2, InductionUpTo
  <2> QED  BY <1>12, <2>3 DEF P
<1>14. IsLoading(F, records)
  BY <1>9, <1>10, <1>11, <1>13 DEF IsLoading, n
<1> QED  BY <1>14

-----------------------------------------------------------------------------
(* What a prefix of a file says of the loader after it. *)
UpperOf(records, i) ==
  LET extended == Before(records, i, {"segment", "linear"})
      last     == records[Max(extended)]
  IN  IF extended = {} THEN 0
      ELSE last.value * (IF last.type = "linear" THEN AddrSpace ELSE Paragraph)

SaysUpTo(records, k, a) ==
  LET covering == {i \in Covering(records, a) : i <= k}
      i        == Max(covering)
  IN  IF covering = {} THEN 0 ELSE records[i].bytes[((a - BaseOf(records, i)) % Word) + 1]

BasesUpTo(records, k) ==
  {BaseOf(records, i) : i \in {j \in DataRecords(records) : j <= k /\ records[j].bytes # << >>}}

Agrees(l, records, k) ==
  /\ l.ended <=> Before(records, k + 1, {"end"}) # {}
  /\ ~l.ended => l.upper = UpperOf(records, k + 1)
  /\ \A a \in Addr : l.memory[a] = SaysUpTo(records, k, a)
  /\ l.bases = BasesUpTo(records, k)
  /\ (\A i \in StartRecords(records) : i > k) => l.entry = NoStart

(* The records before the next are those before this one, and this one. *)
LEMMA BeforeNext ==
  ASSUME NEW records, NEW k \in Nat \ {0}, NEW types
  PROVE  Before(records, k + 1, types) =
           Before(records, k, types) \cup (IF records[k].type \in types THEN {k} ELSE {})
<1>1. 1..(k + 1 - 1) = (1..(k - 1)) \cup {k}
  OBVIOUS
<1> QED  BY <1>1 DEF Before

(* The address of a data record is its own plus the base in force. *)
LEMMA BaseIsUpper ==
  ASSUME NEW records, NEW i
  PROVE  BaseOf(records, i) = records[i].address + UpperOf(records, i)
BY DEF BaseOf, UpperOf

(* The segment or linear base in force changes with such a record only. *)
LEMMA UpperNext ==
  ASSUME NEW records, NEW k \in Nat \ {0}
  PROVE  UpperOf(records, k + 1) =
           IF records[k].type = "segment" THEN records[k].value * Paragraph
           ELSE IF records[k].type = "linear" THEN records[k].value * AddrSpace
           ELSE UpperOf(records, k)
<1> DEFINE T == {"segment", "linear"}
           E == Before(records, k + 1, T)
<1>1. E = Before(records, k, T) \cup (IF records[k].type \in T THEN {k} ELSE {})
  BY BeforeNext
<1>2. CASE records[k].type \in T
  <2>1. k \in E /\ E \subseteq Nat /\ \A i \in E : i <= k
    BY <1>1, <1>2 DEF Before
  <2> HIDE DEF E
  <2>2. Max(E) \in E /\ \A i \in E : i <= Max(E)
    BY <2>1, MaxIsGreatest
  <2>5. Max(E) \in Nat /\ Max(E) <= k /\ k <= Max(E)
    BY <2>1, <2>2
  <2>3. Max(E) = k
    BY <2>5
  <2>4. UpperOf(records, k + 1) =
          records[k].value * (IF records[k].type = "linear" THEN AddrSpace ELSE Paragraph)
    BY <2>1, <2>3 DEF UpperOf, E
  <2> QED  BY <1>2, <2>4
<1>3. CASE records[k].type \notin T
  <2>1. E = Before(records, k, T)
    BY <1>1, <1>3
  <2> QED  BY <1>3, <2>1 DEF UpperOf
<1> QED  BY <1>2, <1>3

(* A record that covers an address is the last so far to do it. *)
LEMMA SaysNext ==
  ASSUME NEW records, NEW k \in Nat \ {0}, NEW a, DOMAIN records \subseteq Nat
  PROVE  SaysUpTo(records, k, a) =
           IF k \in Covering(records, a)
           THEN records[k].bytes[((a - BaseOf(records, k)) % Word) + 1]
           ELSE SaysUpTo(records, k - 1, a)
<1> DEFINE C(j) == {i \in Covering(records, a) : i <= j}
<1>1. Covering(records, a) \subseteq Nat
  BY DEF Covering, DataRecords, Effective
<1>2. CASE k \in Covering(records, a)
  <2>1. k \in C(k) /\ C(k) \subseteq Nat /\ \A i \in C(k) : i <= k
    BY <1>1, <1>2
  <2> HIDE DEF C
  <2>2. Max(C(k)) \in C(k) /\ \A i \in C(k) : i <= Max(C(k))
    BY <2>1, MaxIsGreatest
  <2>3. Max(C(k)) = k
    BY <2>1, <2>2
  <2> QED  BY <1>2, <2>1, <2>3 DEF SaysUpTo, C
<1>3. CASE k \notin Covering(records, a)
  <2>1. C(k) = C(k - 1)
    <3>1. \A i \in Nat : i # k => (i <= k <=> i <= k - 1)
      OBVIOUS
    <3> QED  BY <1>1, <1>3, <3>1
  <2> QED  BY <1>3, <2>1 DEF SaysUpTo
<1> QED  BY <1>2, <1>3

(* A data record with a byte in it adds its address to the bases. *)
LEMMA BasesNext ==
  ASSUME NEW records, NEW k \in Nat \ {0}, DOMAIN records \subseteq Nat
  PROVE  BasesUpTo(records, k) =
           BasesUpTo(records, k - 1) \cup
             (IF k \in DataRecords(records) /\ records[k].bytes # << >>
              THEN {BaseOf(records, k)} ELSE {})
<1> DEFINE J(j) == {i \in DataRecords(records) : i <= j /\ records[i].bytes # << >>}
<1>1. J(k) = J(k - 1) \cup (IF k \in DataRecords(records) /\ records[k].bytes # << >>
                           THEN {k} ELSE {})
  <2>1. DataRecords(records) \subseteq Nat
    BY DEF DataRecords, Effective
  <2>2. \A i \in Nat : i <= k <=> i <= k - 1 \/ i = k
    OBVIOUS
  <2> QED  BY <2>1, <2>2
<1> HIDE DEF J
<1>2. \A j : BasesUpTo(records, j) = {BaseOf(records, i) : i \in J(j)}
  BY DEF BasesUpTo, J
<1> QED  BY <1>1, <1>2

(* Each record does to the loader what the file says. *)
LEMMA AgreesStep ==
  ASSUME NEW records \in Seq(Records), NEW k \in 1..Len(records), NEW l \in Loaders,
         Agrees(l, records, k - 1)
  PROVE  Agrees(LoadRecord(l, records[k]), records, k)
<1> DEFINE r == records[k]
           m == LoadRecord(l, r)
<1>1. /\ k \in Nat \ {0} /\ k - 1 + 1 = k /\ k \in DOMAIN records
      /\ DOMAIN records \subseteq Nat /\ r \in Records
  OBVIOUS
<1>2. /\ l.ended <=> Before(records, k, {"end"}) # {}
      /\ ~l.ended => l.upper = UpperOf(records, k)
      /\ \A a \in Addr : l.memory[a] = SaysUpTo(records, k - 1, a)
      /\ l.bases = BasesUpTo(records, k - 1)
      /\ (\A i \in StartRecords(records) : i > k - 1) => l.entry = NoStart
  BY <1>1 DEF Agrees
<1>3. k \in Effective(records) <=> ~l.ended
  BY <1>1, <1>2 DEF Effective
<1>4. /\ l.memory \in [Addr -> Byte] /\ l.upper \in Nat /\ l.bases \in SUBSET Nat
      /\ l.ended \in BOOLEAN
      /\ l = [memory |-> l.memory, upper |-> l.upper, bases |-> l.bases, entry |-> l.entry,
              ended |-> l.ended]
  BY DEF Loaders
<1>5. Before(records, k + 1, {"end"}) # {} <=>
        Before(records, k, {"end"}) # {} \/ r.type = "end"
  <2>1. Before(records, k + 1, {"end"}) =
          Before(records, k, {"end"}) \cup (IF r.type \in {"end"} THEN {k} ELSE {})
    BY <1>1, BeforeNext
  <2> HIDE DEF r
  <2>2. \A A : A \cup {k} # {} /\ A \cup {} = A
    OBVIOUS
  <2> QED  BY <2>1, <2>2
<1>6. UpperOf(records, k + 1) = IF r.type = "segment" THEN r.value * Paragraph
                                ELSE IF r.type = "linear" THEN r.value * AddrSpace
                                ELSE UpperOf(records, k)
  BY <1>1, UpperNext
<1>7. k \in DataRecords(records) <=> ~l.ended /\ r.type = "data"
  BY <1>3 DEF DataRecords
<1>8. k \in StartRecords(records) <=> ~l.ended /\ r.type \in {"start", "address"}
  BY <1>3 DEF StartRecords
<1>9. (\A i \in StartRecords(records) : i > k) =>
        (\A i \in StartRecords(records) : i > k - 1) /\ k \notin StartRecords(records)
  <2>1. \A i \in Nat : i > k => i > k - 1 /\ i # k
    BY <1>1
  <2>2. StartRecords(records) \subseteq Nat
    BY <1>1 DEF StartRecords, Effective
  <2> QED  BY <2>1, <2>2
<1>10. \A a : SaysUpTo(records, k, a) =
         IF k \in Covering(records, a)
         THEN r.bytes[((a - BaseOf(records, k)) % Word) + 1]
         ELSE SaysUpTo(records, k - 1, a)
  BY <1>1, SaysNext
<1>11. BasesUpTo(records, k) =
         BasesUpTo(records, k - 1) \cup
           (IF k \in DataRecords(records) /\ r.bytes # << >> THEN {BaseOf(records, k)} ELSE {})
  BY <1>1, BasesNext
<1>12. \A a : k \in Covering(records, a) =>
         k \in DataRecords(records) /\ (a - BaseOf(records, k)) % Word < Good(r.bytes)
  BY DEF Covering
(* Records without data leave memory and bases. *)
<1>13. ASSUME m.memory = l.memory, m.bases = l.bases, k \notin DataRecords(records),
              m.ended <=> (l.ended \/ r.type = "end"),
              ~m.ended => m.upper = UpperOf(records, k + 1),
              k \notin StartRecords(records) => m.entry = l.entry
       PROVE  Agrees(m, records, k)
  <2>1. \A a \in Addr : m.memory[a] = SaysUpTo(records, k, a)
    BY <1>2, <1>10, <1>12, <1>13
  <2>2. m.bases = BasesUpTo(records, k)
    BY <1>2, <1>11, <1>13
  <2>3. (\A i \in StartRecords(records) : i > k) => m.entry = NoStart
    BY <1>2, <1>9, <1>13
  <2> HIDE DEF m, r
  <2> QED  BY <1>2, <1>5, <1>13, <2>1, <2>2, <2>3 DEF Agrees
<1>14. CASE l.ended
  <2>1. m = l  BY <1>14 DEF LoadRecord
  <2> HIDE DEF m
  <2> QED  BY <1>7, <1>13, <1>14, <2>1 DEF m
<1>15. CASE ~l.ended /\ r.type = "end"
  <2>1. m = [l EXCEPT !.ended = TRUE]  BY <1>15 DEF LoadRecord
  <2>2. m.memory = l.memory /\ m.bases = l.bases /\ m.ended /\ m.entry = l.entry
    BY <1>4, <2>1
  <2> HIDE DEF m
  <2> QED  BY <1>7, <1>13, <1>15, <2>2 DEF m
<1>16. CASE ~l.ended /\ r.type \in {"segment", "linear"}
  <2>1. m = [l EXCEPT !.upper = r.value * (IF r.type = "linear" THEN AddrSpace ELSE Paragraph)]
    BY <1>16 DEF LoadRecord
  <2>2. /\ m.memory = l.memory /\ m.bases = l.bases /\ m.ended = l.ended /\ m.entry = l.entry
        /\ m.upper = r.value * (IF r.type = "linear" THEN AddrSpace ELSE Paragraph)
    BY <1>4, <2>1
  <2> HIDE DEF m
  <2> QED  BY <1>6, <1>7, <1>13, <1>16, <2>2 DEF m
<1>17. CASE ~l.ended /\ r.type \in {"start", "address"}
  <2>1. PICK e : m = [l EXCEPT !.entry = e]
    BY <1>17 DEF LoadRecord
  <2>2. m.memory = l.memory /\ m.bases = l.bases /\ m.ended = l.ended /\ m.upper = l.upper
    BY <1>4, <2>1
  <2>3. m.upper = UpperOf(records, k + 1)
    BY <1>2, <1>6, <1>17, <2>2
  <2> HIDE DEF m
  <2> QED  BY <1>7, <1>8, <1>13, <1>17, <2>2, <2>3 DEF m
<1>18. CASE ~l.ended /\ r.type = "ignored"
  <2>1. m = l  BY <1>18 DEF LoadRecord
  <2>2. m.upper = UpperOf(records, k + 1)
    BY <1>2, <1>6, <1>18, <2>1
  <2> HIDE DEF m
  <2> QED  BY <1>7, <1>13, <1>18, <2>1, <2>2 DEF m
<1>19. CASE ~l.ended /\ r.type = "data"
  <2> DEFINE base == l.upper + r.address
  <2>1. m = LoadData(l, r)  BY <1>19 DEF LoadRecord
  <2>2. /\ m.upper = l.upper /\ m.entry = l.entry /\ m.ended = l.ended
        /\ m.bases = IF r.bytes = << >> THEN l.bases ELSE l.bases \cup {base}
        /\ \A a \in Addr :
             m.memory[a] = LET at == (a - base) % Word
                           IN  IF at < Good(r.bytes) THEN r.bytes[at + 1] ELSE l.memory[a]
    <3> HIDE DEF r
    <3>1. r \in Records /\ r.type = "data"
      BY <1>1, <1>19
    <3>2. /\ LoadData(l, r).upper = l.upper /\ LoadData(l, r).entry = l.entry
          /\ LoadData(l, r).ended = l.ended
          /\ LoadData(l, r).bases =
               IF r.bytes = << >> THEN l.bases ELSE l.bases \cup {l.upper + r.address}
          /\ \A a \in Addr :
               LoadData(l, r).memory[a] =
                 LET at == (a - (l.upper + r.address)) % Word
                 IN  IF at < Good(r.bytes) THEN r.bytes[at + 1] ELSE l.memory[a]
      BY <3>1, LoadDataTyped
    <3> HIDE DEF m
    <3> QED  BY <2>1, <3>2
  <2>3. base = BaseOf(records, k)
    <3>1. r.address \in Nat  BY <1>1, <1>19, RecordFields
    <3>2. BaseOf(records, k) = r.address + l.upper  BY <1>2, <1>19, BaseIsUpper
    <3> QED  BY <1>4, <3>1, <3>2
  <2>4. k \in DataRecords(records)  BY <1>7, <1>19
  <2> HIDE DEF m, base
  <2>5. \A a \in Addr : k \in Covering(records, a) <=> (a - base) % Word < Good(r.bytes)
    BY <2>3, <2>4 DEF Covering
  <2>6. \A a \in Addr : m.memory[a] = SaysUpTo(records, k, a)
    BY <1>2, <1>10, <2>2, <2>3, <2>5
  <2>7. m.bases = BasesUpTo(records, k)
    BY <1>2, <1>11, <2>2, <2>3, <2>4
  <2>8. m.upper = UpperOf(records, k + 1)
    BY <1>2, <1>6, <1>19, <2>2
  <2>9. (\A i \in StartRecords(records) : i > k) => m.entry = NoStart
    BY <1>2, <1>9, <2>2
  <2>10. m.ended <=> Before(records, k + 1, {"end"}) # {}
    BY <1>2, <1>5, <1>19, <2>2
  <2> HIDE DEF r
  <2>11. Agrees(m, records, k)
    BY <2>6, <2>7, <2>8, <2>9, <2>10 DEF Agrees
  <2> QED  BY <2>11 DEF m, r
<1> QED
  BY <1>1, <1>14, <1>15, <1>16, <1>17, <1>18, <1>19, RecordFields

-----------------------------------------------------------------------------
(* The remainder of what is in range, or one range below *)
LEMMA ModNear ==
  /\ \A n \in Nat \ {0}, x \in Int : 0 <= x /\ x < n => x % n = x
  /\ \A n \in Nat \ {0}, x \in Int : -n <= x /\ x < 0 => x % n = x + n
OBVIOUS

(* Before the first record the loader agrees with the file. *)
LEMMA AgreesStart ==
  ASSUME NEW records, DOMAIN records \subseteq Nat \ {0}
  PROVE  Agrees(Start, records, 0)
<1>1. \A types : Before(records, 0 + 1, types) = {}
  BY DEF Before
<1>2. \A a : SaysUpTo(records, 0, a) = 0
  <2>1. \A a : {i \in Covering(records, a) : i <= 0} = {}
    BY DEF Covering, DataRecords, Effective
  <2> QED  BY <2>1 DEF SaysUpTo
<1>3. BasesUpTo(records, 0) = {}
  <2>1. {j \in DataRecords(records) : j <= 0 /\ records[j].bytes # << >>} = {}
    BY DEF DataRecords, Effective
  <2> QED  BY <2>1 DEF BasesUpTo
<1>4. UpperOf(records, 0 + 1) = 0
  BY <1>1 DEF UpperOf
<1>5. /\ Start.ended = FALSE /\ Start.upper = 0 /\ Start.bases = {} /\ Start.entry = NoStart
      /\ \A a \in Addr : Start.memory[a] = 0
  BY DEF Start, Zero
<1> HIDE DEF Start
<1> QED  BY <1>1, <1>2, <1>3, <1>4, <1>5 DEF Agrees

(* load_ihx does to memory, bases and entry what the whole file says. *)
LEMMA LoadIhxAgrees ==
  ASSUME NEW records \in Seq(Records)
  PROVE  LoadIhx(records) \in Loaders /\ Agrees(LoadIhx(records), records, Len(records))
<1> DEFINE n == Len(records)
<1>1. n \in Nat /\ DOMAIN records \subseteq Nat \ {0}
  OBVIOUS
<1>2. PICK F : IsLoading(F, records)
  BY LoadingExists
<1>3. /\ F \in [0..n -> Loaders] /\ F[0] = Start /\ LoadIhx(records) = F[n]
      /\ \A k \in 1..n : F[k] = LoadRecord(F[k - 1], records[k])
  BY <1>2 DEF IsLoading
<1> DEFINE P == {k \in 0..n : Agrees(F[k], records, k)}
<1>4. 0 \in P
  BY <1>1, <1>3, AgreesStart
<1>5. ASSUME NEW k \in 0..(n - 1), k \in P PROVE k + 1 \in P
  <2>1. k + 1 \in 1..n /\ k + 1 \in 0..n /\ k + 1 - 1 = k /\ k \in 0..n
    BY <1>1
  <2>2. F[k] \in Loaders /\ Agrees(F[k], records, k + 1 - 1)
    BY <1>3, <1>5, <2>1
  <2>3. Agrees(LoadRecord(F[k], records[k + 1]), records, k + 1)
    BY <2>1, <2>2, AgreesStep
  <2>4. F[k + 1] = LoadRecord(F[k], records[k + 1])
    BY <1>3, <2>1
  <2> QED  BY <2>1, <2>3, <2>4
<1> HIDE DEF P
<1>6. n \in P
  <2>1. 0..n \subseteq P  BY <1>1, <1>4, <1>5, InductionUpTo
  <2> QED  BY <1>1, <2>1
<1>7. n \in 0..n
  BY <1>1
<1> QED  BY <1>3, <1>6, <1>7 DEF P

(* Each address holds what the file says of it. *)
LEMMA LoadIhxSays ==
  ASSUME NEW records \in Seq(Records), NEW a \in Addr
  PROVE  LoadIhx(records).memory[a] = Says(records, a)
<1>1. LoadIhx(records).memory[a] = SaysUpTo(records, Len(records), a)
  BY LoadIhxAgrees DEF Agrees
<1>2. {i \in Covering(records, a) : i <= Len(records)} = Covering(records, a)
  <2>1. \A i \in DOMAIN records : i <= Len(records)
    OBVIOUS
  <2> QED  BY <2>1 DEF Covering, DataRecords, Effective
<1> QED  BY <1>1, <1>2 DEF SaysUpTo, Says

(* The address of a data record is a number. *)
LEMMA BaseTyped ==
  ASSUME NEW records \in Seq(Records), NEW i \in DataRecords(records)
  PROVE  BaseOf(records, i) \in Nat
<1> DEFINE E == Before(records, i, {"segment", "linear"})
           last == records[Max(E)]
<1>1. /\ i \in Nat /\ i \in DOMAIN records /\ records[i].type = "data"
      /\ \A j \in 1..(i - 1) : j \in DOMAIN records
  BY DEF DataRecords, Effective
<1>2. records[i].address \in Nat
  BY <1>1, RecordFields
<1>3. \A x, y \in Nat : x * y \in Nat /\ x + y \in Nat
  OBVIOUS
<1>4. CASE E = {}
  BY <1>2, <1>4 DEF BaseOf
<1>5. CASE E # {}
  <2>1. E \subseteq Nat /\ \A j \in E : j <= i
    BY <1>1 DEF Before
  <2> HIDE DEF E
  <2>2. Max(E) \in E
    BY <1>1, <1>5, <2>1, MaxIsGreatest
  <2>3. last \in Records /\ last.type \in {"segment", "linear"}
    BY <1>1, <2>2 DEF E, Before
  <2>4. last.value \in Nat
    BY <2>3, RecordFields
  <2>5. BaseOf(records, i) = records[i].address +
          last.value * (IF last.type = "linear" THEN AddrSpace ELSE Paragraph)
    BY <1>5 DEF BaseOf, E
  <2> HIDE DEF last
  <2> QED  BY <1>2, <1>3, <2>4, <2>5, Sizes
<1> QED  BY <1>4, <1>5

(* An entry point is an address. *)
LEMMA IhxEntryTyped ==
  ASSUME NEW l \in Loaders
  PROVE  IhxEntry(l) \in Addr
<1>1. AddrSpace \in Nat \ {0} /\ Word - 1 \in Nat
  BY Sizes
<1>2. \A x \in Nat : x % AddrSpace \in Addr
  BY <1>1, ModRange DEF Addr
<1>3. l.bases \cup {Word - 1} \subseteq Nat /\ l.entry \in Nat \cup {NoStart}
  BY <1>1 DEF Loaders
<1>4. Min(l.bases \cup {Word - 1}) \in Nat
  BY <1>3, MinIsLeast
<1>5. 0 \in Addr
  BY <1>1 DEF Addr
<1> QED  BY <1>2, <1>3, <1>4, <1>5 DEF IhxEntry

(* Without a start record a file is entered at the lowest byte it puts in  *)
(* memory.                                                                 *)
LEMMA IhxEntryLowest ==
  ASSUME NEW records \in Seq(Records), StartRecords(records) = {}, Unwrapped(records),
         Covered(records) # {}
  PROVE  IhxEntry(LoadIhx(records)) = Min(Covered(records))
<1> DEFINE l == LoadIhx(records)
           D == {j \in DataRecords(records) : records[j].bytes # << >>}
           C == Covered(records)
           lowest == Min(l.bases \cup {Word - 1})
<1>1. l \in Loaders /\ Agrees(l, records, Len(records))
  BY LoadIhxAgrees
<1>2. l.entry = NoStart
  BY <1>1 DEF Agrees
<1>3. l.bases = {BaseOf(records, i) : i \in D} /\ l.bases \subseteq Nat
  <2>1. \A i \in DataRecords(records) : i <= Len(records)
    <3>1. \A i \in DOMAIN records : i <= Len(records)
      OBVIOUS
    <3> QED  BY <3>1 DEF DataRecords, Effective
  <2>2. {j \in DataRecords(records) : j <= Len(records) /\ records[j].bytes # << >>} = D
    BY <2>1
  <2>3. l.bases = BasesUpTo(records, Len(records))
    BY <1>1 DEF Agrees
  <2>4. l.bases \subseteq Nat
    BY <1>1 DEF Loaders
  <2> QED  BY <2>2, <2>3, <2>4 DEF BasesUpTo
<1> HIDE DEF l
<1>4. /\ AddrSpace \in Nat \ {0} /\ Word \in Nat \ {0} /\ Word >= 4 * AddrSpace
      /\ Addr = 0..(AddrSpace - 1)
  BY Sizes DEF Addr
(* A record with bytes covers those addresses from its base on. *)
<1>5. ASSUME NEW i \in D
      PROVE  /\ BaseOf(records, i) \in Nat
             /\ Len(records[i].bytes) \in Nat \ {0}
             /\ Good(records[i].bytes) \in 1..Len(records[i].bytes)
             /\ BaseOf(records, i) + Len(records[i].bytes) <= Word
  <2>1. i \in DOMAIN records /\ records[i].type = "data" /\ i \in DataRecords(records)
    BY DEF DataRecords, Effective
  <2>2. records[i] \in Records
    BY <2>1
  <2>3. records[i].bytes \in Seq(Byte \cup {Bad}) /\ records[i].bytes # << >>
    BY <2>1, <2>2, RecordFields
  <2>4. Len(records[i].bytes) \in Nat \ {0}
    BY <2>3
  <2>5. BaseOf(records, i) \in Nat
    BY <1>3
  <2>6. Good(records[i].bytes) \in 0..Len(records[i].bytes)
    BY <2>3, GoodBytes
  <2> QED  BY <2>1, <2>3, <2>4, <2>5, <2>6 DEF Unwrapped
<1>6. ASSUME NEW i \in D, BaseOf(records, i) < AddrSpace PROVE BaseOf(records, i) \in C
  <2> DEFINE b == BaseOf(records, i)
  <2>1. b \in Addr /\ b - b = 0
    BY <1>4, <1>5, <1>6
  <2>2. (b - b) % Word < Good(records[i].bytes)
    <3>1. 0 % Word = 0  BY <1>4, ModNear
    <3> QED  BY <1>5, <2>1, <3>1
  <2>3. i \in Covering(records, b)
    BY <2>2 DEF Covering
  <2> HIDE DEF b, D
  <2>4. b \in C
    BY <2>1, <2>3 DEF Covered
  <2> QED  BY <2>4 DEF b
<1>7. ASSUME NEW a \in C PROVE \E i \in D : BaseOf(records, i) <= a
  <2>1. PICK i \in DataRecords(records) : (a - BaseOf(records, i)) % Word < Good(records[i].bytes)
    BY DEF Covered, Covering
  <2>2. a \in Nat /\ a < AddrSpace
    BY <1>4 DEF Covered
  <2>3. i \in D
    <3>1. i \in DOMAIN records /\ records[i].type = "data"
      BY <2>1 DEF DataRecords, Effective
    <3>2. records[i] \in Records
      BY <3>1
    <3>3. records[i].bytes \in Seq(Byte \cup {Bad})
      BY <3>1, <3>2, RecordFields
    <3>4. CASE records[i].bytes = << >>
      <4>1. Good(records[i].bytes) = 0
        <5>1. Good(records[i].bytes) \in 0..Len(records[i].bytes)
          BY <3>3, GoodBytes
        <5> QED  BY <3>4, <5>1
      <4>2. BaseOf(records, i) \in Nat
        BY <2>1, BaseTyped
      <4>3. (a - BaseOf(records, i)) % Word \in Nat
        BY <1>4, <2>2, <4>2, ModRange
      <4> QED  BY <2>1, <4>1, <4>3
    <3> QED  BY <2>1, <3>4
  <2>4. BaseOf(records, i) <= a
    <3> DEFINE b == BaseOf(records, i)
    <3>1. /\ b \in Nat /\ Len(records[i].bytes) \in Nat /\ b + Len(records[i].bytes) <= Word
          /\ (a - b) % Word < Len(records[i].bytes)
      <4>1. /\ b \in Nat /\ Len(records[i].bytes) \in Nat \ {0}
            /\ b + Len(records[i].bytes) <= Word
            /\ Good(records[i].bytes) \in 1..Len(records[i].bytes)
        BY <1>5, <2>3
      <4>2. (a - b) % Word \in Nat
        <5> HIDE DEF b
        <5>1. a - b \in Int /\ Word \in Nat \ {0}  BY <1>4, <2>2, <4>1
        <5>2. (a - b) % Word \in 0..(Word - 1)  BY <5>1, ModRange
        <5> QED  BY <5>1, <5>2
      <4>3. (a - b) % Word < Good(records[i].bytes)
        BY <2>1
      <4> HIDE DEF b
      <4> QED  BY <4>1, <4>2, <4>3
    <3> HIDE DEF b
    <3>2. SUFFICES ASSUME a < b PROVE FALSE
      BY <2>2, <3>1 DEF b
    <3>3. (a - b) % Word = a - b + Word
      <4>1. a - b \in Int /\ -Word <= a - b /\ a - b < 0
        BY <1>4, <2>2, <3>1, <3>2
      <4> QED  BY <1>4, <4>1, ModNear
    <3> QED  BY <1>4, <2>2, <3>1, <3>3
  <2> QED  BY <2>3, <2>4
<1>8. C \subseteq Nat /\ C # {} /\ \A a \in C : a < AddrSpace
  BY <1>4 DEF Covered
<1> HIDE DEF C, D
<1>9. Min(C) \in C /\ \A a \in C : Min(C) <= a
  BY <1>8, MinIsLeast
<1>10. PICK i \in D : BaseOf(records, i) <= Min(C)
  BY <1>7, <1>9
<1>11. BaseOf(records, i) = Min(C)
  <2>0. BaseOf(records, i) \in Nat /\ BaseOf(records, i) < AddrSpace
    <3>1. BaseOf(records, i) \in Nat  BY <1>5
    <3>2. Min(C) \in Nat /\ Min(C) < AddrSpace  BY <1>8, <1>9
    <3> QED  BY <1>4, <1>10, <3>1, <3>2
  <2>1. BaseOf(records, i) \in Nat /\ BaseOf(records, i) \in C
    BY <1>6, <2>0
  <2>2. Min(C) \in Nat /\ Min(C) <= BaseOf(records, i)
    BY <1>8, <1>9, <2>1
  <2> QED  BY <1>10, <2>1, <2>2
<1>12. lowest \in l.bases \cup {Word - 1} /\ \A b \in l.bases \cup {Word - 1} : lowest <= b
  <2>1. l.bases \cup {Word - 1} \subseteq Nat
    BY <1>3, <1>4
  <2> QED  BY <2>1, MinIsLeast
<1> HIDE DEF lowest
<1>13. lowest = Min(C)
  <2>1. Min(C) \in l.bases
    BY <1>3, <1>11
  <2>2. lowest <= Min(C) /\ lowest \in Nat /\ Min(C) \in Nat /\ Min(C) < AddrSpace
    BY <1>3, <1>4, <1>8, <1>9, <1>12, <2>1
  <2>3. lowest # Word - 1
    BY <1>4, <2>2
  <2>4. lowest \in l.bases
    BY <1>12, <2>3
  <2>5. lowest \in C
    <3>1. lowest < AddrSpace  BY <1>4, <2>2
    <3> QED  BY <1>3, <1>6, <2>4, <3>1
  <2>6. Min(C) <= lowest
    BY <1>9, <2>5
  <2> QED  BY <2>2, <2>6
<1>14. lowest # Word - 1 /\ lowest % AddrSpace = lowest
  <2>1. lowest \in Nat /\ lowest < AddrSpace  BY <1>8, <1>9, <1>13
  <2> QED  BY <1>4, <2>1, ModNear
<1>15. IhxEntry(l) = lowest
  BY <1>2, <1>14 DEF IhxEntry, lowest
<1> QED  BY <1>13, <1>15 DEF l, C
=============================================================================
