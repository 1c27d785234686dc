------------------------------- MODULE Values -------------------------------
(***************************************************************************)
(* The values the debugger shows: c_variable_value of dbg, the Registers   *)
(* scope and evaluate of z80_target, and its readMemory.  Pure operators   *)
(* over a memory and the registers.  Of the register pairs BC stands for   *)
(* itself and for DE and HL.                                               *)
(***************************************************************************)
EXTENDS IhxLoader

CONSTANT Unknown  \* no value: "?", "<reg>", "Cannot evaluate"

Registers == {"PC", "SP", "IX", "BC"}

High(word) == word \div ByteSpace
Low(word)  == word % ByteSpace

(* Two's complement over as many values as space *)
Signed(value, space) == IF value >= space \div 2 THEN value - space ELSE value

-----------------------------------------------------------------------------
(* MAP symbols are [name, c, addr]; c says that an underscore precedes the *)
(* name, as it does that of a C object.  A name as the user sees or writes *)
(* it is [name, c] too.                                                    *)
Where(symbol)    == symbol.addr % AddrSpace
Written(symbol)  == [name |-> symbol.name, c |-> symbol.c]
Plainly(name)    == [name |-> name, c |-> FALSE]

(* The symbols a name stands for: those written so, or so with one         *)
(* underscore more                                                         *)
Matching(symbols, n) ==
  {i \in DOMAIN symbols : symbols[i].name = n.name /\ (n.c => symbols[i].c)}

LookupSymbolExact_Any(symbols, a) ==
  LET found == {i \in DOMAIN symbols : Where(symbols[i]) <= a}
  IN  IF found # {} THEN Written(symbols[Max(found)]) ELSE Unknown

(* The last C object at an address, or else its first symbol *)
LookupSymbolExact(symbols, a) ==
  LET found == {i \in DOMAIN symbols : Where(symbols[i]) = a}
      cs    == {i \in found : symbols[i].c}
  IN  IF cs # {} THEN Written(symbols[Max(cs)])
      ELSE IF found # {} THEN Written(symbols[Min(found)]) ELSE Unknown

(* The nearest symbol at or below an address, the first of several, and    *)
(* how far below it is                                                     *)
LookupSymbol(symbols, a) ==
  LET below   == {i \in DOMAIN symbols : Where(symbols[i]) <= a}
      highest == Max({Where(symbols[i]) : i \in below})
      i       == Min({j \in below : Where(symbols[j]) = highest})
  IN  IF below = {} THEN Unknown
      ELSE [symbol |-> Written(symbols[i]), offset |-> a - highest]

-----------------------------------------------------------------------------
(* C variables are [name, storage, offset, size, base, sign]: the size of  *)
(* the {N} of type_info, cut to 1..4, the letters of its type and sign.    *)

(* The addresses of a value, its highest byte first, without those that    *)
(* would be above the end of memory                                        *)
Cells(a, size) == LET n == Min({size, AddrSpace - a}) IN [i \in 1..n |-> a + n - i]

ReadWide_HighFirst(memory, a, size) ==
  FoldLeft(LAMBDA value, c : value * ByteSpace + memory[c], 0, Reverse(Cells(a, size)))

(* The bytes at an address, the low one first *)
ReadWide(memory, a, size) ==
  FoldLeft(LAMBDA value, c : value * ByteSpace + memory[c], 0, Cells(a, size))

(* Every type has an S among its letters, so SC is all that counts; the    *)
(* letter of the sign is not looked at.                                    *)
IsSigned(v) == v.base # "SC"

Shown_Wide(v, value) ==
  [hex     |-> value,
   decimal |-> IF ~IsSigned(v) \/ v.size > 2 THEN Unknown
               ELSE IF v.size = 1 THEN Signed(value, ByteSpace) ELSE Signed(value, AddrSpace)]

(* hex is cut to 16 bits whatever the size; decimal is shown beside it. *)
Shown(v, value) ==
  [hex     |-> value % AddrSpace,
   decimal |-> IF ~IsSigned(v) \/ v.size > 2 THEN Unknown
               ELSE IF v.size = 1 THEN Signed(value, ByteSpace) ELSE Signed(value, AddrSpace)]

(* Where a variable lies: on the stack by IX, or where the MAP says *)
AddressOf(v, registers, symbols) ==
  LET found == Matching(symbols, Plainly(v.name))
  IN  CASE v.storage = "stack" -> (registers["IX"] + v.offset) % AddrSpace
        [] v.storage = "static" /\ found # {} -> Where(symbols[Min(found)])
        [] OTHER -> Unknown

(* The registers of a list, the low byte first; no other list is known.    *)
RegisterValue(v, registers) ==
  CASE v.storage = "c,b" -> registers["BC"]
    [] v.storage = "b"   -> High(registers["BC"])
    [] v.storage = "c"   -> Low(registers["BC"])
    [] OTHER             -> Unknown

CVariableValue(v, memory, registers, symbols) ==
  LET a == AddressOf(v, registers, symbols)
      r == RegisterValue(v, registers)
  IN  IF a # Unknown THEN Shown(v, ReadWide(memory, a, v.size))
      ELSE IF r # Unknown THEN [hex |-> r, decimal |-> Unknown]
      ELSE Unknown

-----------------------------------------------------------------------------
(* readMemory: from an address that wraps to an end that does not *)
MemoryStart(ref, offset) == (ref + offset) % AddrSpace

ReadMemory(memory, a, count) ==
  [i \in 1..Min({Max({0, count}), AddrSpace - a}) |-> memory[a + i - 1]]

RegisterNames == Registers \cup {"B", "C"}

EvaluateRegister(name, registers) ==
  CASE name = "B" -> [result |-> High(registers["BC"]), reference |-> Unknown]
    [] name = "C" -> [result |-> Low(registers["BC"]), reference |-> Unknown]
    [] OTHER      -> [result |-> registers[name], reference |-> registers[name]]

(* An expression is a name or [value].  A name is that of a register, in   *)
(* any case, or else of a symbol; a value is an address, of which the byte *)
(* is shown.  reference is what the memory view opens.                     *)
Evaluate(expr, memory, registers, symbols) ==
  IF "value" \in DOMAIN expr
  THEN LET a == expr.value % AddrSpace IN [result |-> memory[a], reference |-> a]
  ELSE IF expr.name \in RegisterNames /\ ~expr.c THEN EvaluateRegister(expr.name, registers)
  ELSE LET found == Matching(symbols, expr)
           a     == Where(symbols[Min(found)])
       IN  IF found = {} THEN Unknown ELSE [result |-> a, reference |-> a]
=============================================================================
