---------------------------- MODULE Disassembler ----------------------------
(***************************************************************************)
(* z80_target::disassemble and build_full_listing over a memory: which     *)
(* addresses become rows.  Pure operators, on functions from numbers to    *)
(* addresses for the loops.  LengthOf stands for the disassembler library: *)
(* the length of an instruction by its first byte.                         *)
(***************************************************************************)
EXTENDS IhxLoader

CONSTANT LengthOf  \* at most 4; 0 for a byte that begins no instruction

ASSUME LengthAssumption == LengthOf \in [0..(ByteSpace - 1) -> 0..4]

(* A length that is not positive counts as one. *)
Advance(memory, a) ==
  IF LengthOf[memory[a]] > 0 THEN LengthOf[memory[a]] ELSE 1

(* The walk of a uint16_t through memory, an instruction a step *)
Walk(memory, from) ==
  LET pos[n \in Nat] ==
        IF n = 0 THEN from
        ELSE LET a == pos[n - 1] IN (a + Advance(memory, a)) % AddrSpace
  IN  pos

-----------------------------------------------------------------------------
(* The sweep towards an address that lies an unknown number of             *)
(* instructions ahead: it starts four bytes back for each instruction, or  *)
(* at 0, and goes on while it is not past the three bytes after the        *)
(* address.                                                                *)
Sweep(memory, addr, backstep) ==
  Walk(memory, IF addr < 4 * backstep THEN 0 ELSE addr - 4 * backstep)

Past_Further(memory, addr, backstep) ==
  LET pos == Sweep(memory, addr, backstep) IN {n \in 0..AddrSpace : pos[n] > addr + 7}

Past(memory, addr, backstep) ==
  LET pos == Sweep(memory, addr, backstep) IN {n \in 0..AddrSpace : pos[n] > addr + 3}

(* After AddrSpace steps the walk repeats itself. *)
Endless(memory, addr, backstep) == Past(memory, addr, backstep) = {}

TargetIndex_After(memory, addr, backstep) ==
  LET pos     == Sweep(memory, addr, backstep)
      swept   == 0..(Min(Past(memory, addr, backstep)) - 1)
      reached == {n \in swept : pos[n] > addr}
  IN  IF reached = {} THEN Max(swept) ELSE Min(reached)

(* The first instruction of the sweep that is not before the address *)
TargetIndex(memory, addr, backstep) ==
  LET pos     == Sweep(memory, addr, backstep)
      swept   == 0..(Min(Past(memory, addr, backstep)) - 1)
      reached == {n \in swept : pos[n] >= addr}
  IN  IF reached = {} THEN Max(swept) ELSE Min(reached)

BackFrom(memory, addr, backstep) ==
  LET back == TargetIndex(memory, addr, backstep) - backstep
  IN  Sweep(memory, addr, backstep)[IF back < 0 THEN 0 ELSE back]

-----------------------------------------------------------------------------
Base(ref, offset) == (ref + offset) % AddrSpace

FirstRow(memory, base, instructionOffset) ==
  IF instructionOffset < 0 THEN BackFrom(memory, base, -instructionOffset)
  ELSE Walk(memory, base)[instructionOffset]

Bytes(memory, a) ==
  [j \in 1..Min({Advance(memory, a), AddrSpace - a}) |-> memory[a + j - 1]]

(* The rows of an answer; after the top of memory they go on at 0. *)
Rows(memory, first, count) ==
  LET pos == Walk(memory, first)
  IN  [i \in 1..count |-> [address |-> pos[i - 1], bytes |-> Bytes(memory, pos[i - 1])]]

(* build_full_listing: the addresses of its lines, up to the top of memory *)
Listing(memory) ==
  LET from[a \in Nat] ==
        IF a >= AddrSpace THEN << >> ELSE <<a>> \o from[a + Advance(memory, a)]
  IN  from[0]

(* full_listing_line_for_addr *)
LineOf(listing, a) ==
  LET lines == {i \in DOMAIN listing : listing[i] = a}
  IN  IF lines = {} THEN 1 ELSE Max(lines)
=============================================================================
