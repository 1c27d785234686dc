----------------------------- MODULE IhxLoader -----------------------------
(***************************************************************************)
(* What launch loads into memory and where it starts: load_ihx over the    *)
(* records of an Intel HEX file, a binary image, or nothing.  Pure         *)
(* operators.  A record is [type, ...] by the type of its line; a line     *)
(* that is too short, has no colon or whose head is not hexadecimal is     *)
(* "ignored".  No checksum is looked at.                                   *)
(***************************************************************************)
EXTENDS Integers, Sequences, SequencesExt, FiniteSetsExt

CONSTANTS
  ByteSpace,  \* 2^8
  AddrSpace,  \* 2^16, the size of the memory too
  Paragraph,  \* 2^4, what a segment counts
  Bad,        \* two characters of data that are not hexadecimal
  NoStart     \* no start address given

ASSUME SizeAssumption ==
  /\ ByteSpace \in Nat \ {0, 1} /\ Paragraph \in Nat \ {0}
  /\ AddrSpace = ByteSpace * ByteSpace
Byte == 0..(ByteSpace - 1)
Addr == 0..(AddrSpace - 1)

ASSUME NoValueAssumption == NoStart \notin Nat /\ Bad \notin Byte

(* The values of a uint32_t; the last of them stands for no data address.  *)
Word == AddrSpace * AddrSpace

Records ==
  [type : {"data"}, address : Addr, bytes : Seq(Byte \cup {Bad})]
    \cup [type : {"segment", "linear"}, value : Addr]
    \cup [type : {"start"}, segment : Addr, offset : Addr]
    \cup [type : {"address"}, value : 0..(Word - 1)]
    \cup [type : {"end", "ignored"}]

Zero == [a \in Addr |-> 0]

(* The bytes of a data record up to one that is bad *)
Good(bytes) ==
  LET bad == {i \in DOMAIN bytes : bytes[i] = Bad}
  IN  IF bad = {} THEN Len(bytes) ELSE Min(bad) - 1

-----------------------------------------------------------------------------
(* The locals of load_ihx: bases holds the address of every data record,   *)
(* of which the lowest is kept.                                            *)
Start == [memory |-> Zero, upper |-> 0, bases |-> {}, entry |-> NoStart, ended |-> FALSE]

(* A byte above the memory is dropped, its record counts all the same; a   *)
(* uint32_t that steps over its top is at 0 again.                         *)
LoadData(l, r) ==
  LET base  == l.upper + r.address
      at(a) == ((a - base) % Word) + 1
  IN  [l EXCEPT
         !.bases  = IF r.bytes = << >> THEN @ ELSE @ \cup {base},
         !.memory = [a \in Addr |-> IF at(a) <= Good(r.bytes) THEN r.bytes[at(a)] ELSE @[a]]]

LoadRecord_AddsUp(l, r) ==
  IF l.ended THEN l ELSE
  CASE r.type = "end"      -> [l EXCEPT !.ended = TRUE]
    [] r.type = "data"     -> LoadData(l, r)
    [] r.type = "segment"  -> [l EXCEPT !.upper = r.value * Paragraph]
    [] r.type = "linear"   -> [l EXCEPT !.upper = @ + r.value * AddrSpace]
    [] r.type = "start"    -> [l EXCEPT !.entry = r.segment * Paragraph + r.offset]
    [] r.type = "address"  -> [l EXCEPT !.entry = r.value]
    [] OTHER               -> l

(* One line: types 01, 00, 02, 04, 03 and 05, in this order. *)
LoadRecord(l, r) ==
  IF l.ended THEN l ELSE
  CASE r.type = "end"      -> [l EXCEPT !.ended = TRUE]
    [] r.type = "data"     -> LoadData(l, r)
    [] r.type = "segment"  -> [l EXCEPT !.upper = r.value * Paragraph]
    [] r.type = "linear"   -> [l EXCEPT !.upper = r.value * AddrSpace]
    [] r.type = "start"    -> [l EXCEPT !.entry = r.segment * Paragraph + r.offset]
    [] r.type = "address"  -> [l EXCEPT !.entry = r.value]
    [] OTHER               -> l

LoadIhx(records) == FoldLeft(LoadRecord, Start, records)

(* A start record, or else the lowest address of any data *)
IhxEntry_Last(l) ==
  IF l.entry # NoStart THEN l.entry % AddrSpace
  ELSE IF l.bases # {} THEN Max(l.bases) % AddrSpace
  ELSE 0

IhxEntry(l) ==
  LET lowest == Min(l.bases \cup {Word - 1})
  IN  IF l.entry # NoStart THEN l.entry % AddrSpace
      ELSE IF lowest # Word - 1 THEN lowest % AddrSpace ELSE 0

(* A file is [kind, records] or [kind, bytes]: "ihx", "binary" or, when it *)
(* cannot be opened or none is named, "none".                              *)
Loaded(file) ==
  CASE file.kind = "ihx"    -> LoadIhx(file.records).memory
    [] file.kind = "binary" -> [a \in Addr |-> IF a < Len(file.bytes) THEN file.bytes[a + 1] ELSE 0]
    [] OTHER                -> Zero

(* launch: startAddress overrides what the file says. *)
EntryPoint(file, startAddress) ==
  IF startAddress # NoStart THEN startAddress % AddrSpace
  ELSE IF file.kind = "ihx" THEN IhxEntry(LoadIhx(file.records))
  ELSE 0

-----------------------------------------------------------------------------
(* The reference: where a record goes, stated of the whole file.           *)

Before(records, i, types) == {j \in 1..(i - 1) : records[j].type \in types}

Effective(records) == {i \in DOMAIN records : Before(records, i, {"end"}) = {}}

BaseOf(records, i) ==
  LET extended == Before(records, i, {"segment", "linear"})
      last     == records[Max(extended)]
  IN  records[i].address +
        (IF extended = {} THEN 0
         ELSE last.value * (IF last.type = "linear" THEN AddrSpace ELSE Paragraph))

DataRecords(records) == {i \in Effective(records) : records[i].type = "data"}

(* The records that hold a byte for an address *)
Covering(records, a) ==
  {i \in DataRecords(records) :
     (a - BaseOf(records, i)) % Word < Good(records[i].bytes)}

(* What a file says of an address: the byte of its last record for it *)
Says(records, a) ==
  IF Covering(records, a) = {} THEN 0
  ELSE LET i == Max(Covering(records, a)) IN  records[i].bytes[((a - BaseOf(records, i)) % Word) + 1]

(* No record of data begins with a bad byte or steps over the top of a     *)
(* uint32_t.                                                               *)
Unwrapped(records) ==
  \A i \in DataRecords(records) : records[i].bytes # << >> =>
    /\ Good(records[i].bytes) > 0
    /\ BaseOf(records, i) + Len(records[i].bytes) <= Word
=============================================================================
