---------------------------- MODULE MCInspection ----------------------------
(* A machine of sixteen bytes of two bits each, and small IHX files for    *)
(* Inspection.                                                             *)
EXTENDS Inspection

CONSTANTS Main, Count16, Far

MCNoStart == -1
MCBad     == -2

(* A byte of 3 begins no instruction; the others one of 1, 2 or 4 bytes. *)
MCLengthOf == [b \in 0..3 |-> <<1, 2, 4, 0>>[b + 1]]

Data(a, bytes)   == [type |-> "data", address |-> a, bytes |-> bytes]
Segment(v)       == [type |-> "segment", value |-> v]
Linear(v)        == [type |-> "linear", value |-> v]
StartRecord(s, o) == [type |-> "start", segment |-> s, offset |-> o]
AddressRecord(v) == [type |-> "address", value |-> v]

Lines ==
  {Data(1, <<3, 1, 0, 2>>), Data(4, <<2, 1, MCBad, 3>>), Data(14, <<1, 3, 2>>),
   Segment(2), Linear(1), Linear(0), StartRecord(2, 3), AddressRecord(37),
   [type |-> "end"], [type |-> "ignored"]}

(* Every file of up to two lines, and some longer ones *)
Files ==
  UNION {[1..n -> Lines] : n \in 0..2} \cup
  {<<Segment(1), Data(2, <<2, 3>>), Segment(3), Data(2, <<1>>)>>,
   <<Linear(1), Data(2, <<2>>), Linear(2), Data(3, <<1, 1>>), Linear(0), Data(9, <<3>>)>>,
   <<Linear(15), Data(15, <<1, 3>>), Data(14, <<1, 1, 2>>)>>,
   <<Data(9, <<2, 3, 3>>), Data(6, <<1, 2>>), Data(10, <<0, 1>>)>>,
   <<Data(0, << >>), Data(8, <<1>>), [type |-> "end"], Data(3, <<2>>)>>}

Sym(name, c, a) == [name |-> name, c |-> c, addr |-> a]

(* Two names at 1, one in another bank at 6, and one named like a register *)
MCSymbols ==
  <<Sym("start", FALSE, 1), Sym(Main, TRUE, 1), Sym(Count16, TRUE, 5),
    Sym(Far, FALSE, 22), Sym("C", TRUE, 9), Sym("B", FALSE, 11), Sym("edge", TRUE, 15)>>

MCPrograms ==
  {[kind |-> "ihx", records |-> f, symbols |-> MCSymbols] : f \in Files} \cup
  {[kind |-> "binary", bytes |-> <<1, 2, 3, 0, 3, 2, 1>>, symbols |-> MCSymbols],
   [kind |-> "unreadable", symbols |-> << >>],
   [kind |-> "none", symbols |-> << >>]}

(* A program of which the listing and the memory differ from the others'   *)
MCAgain ==
  {[kind |-> "ihx", records |-> <<Data(14, <<1, 3, 2>>)>>, symbols |-> MCSymbols],
   [kind |-> "none", symbols |-> << >>]}

MCStartAddresses == {MCNoStart, 5}
MCResets == {[IX |-> 6, BC |-> 9], [IX |-> 15, BC |-> 6]}
MCWrites == {[address |-> 1, value |-> 0], [address |-> 15, value |-> 3]}

MCPlaces == {<<a, 0>> : a \in Addr} \cup {<<2, -3>>, <<14, 5>>}
MCSkips  == {-2, -1, 0, 1}

Var(name, storage, offset, size, base, sign) ==
  [name |-> name, storage |-> storage, offset |-> offset, size |-> size, base |-> base, sign |-> sign]

MCCVariables ==
  {Var(Count16, "static", 0, 2, "SI", "U"), Var("edge", "static", 0, 2, "SI", "S"),
   Var("C", "static", 0, 1, "SC", "S"), Var("lost", "static", 0, 2, "SI", "S"),
   Var("arg", "stack", 4, 2, "SI", "S"), Var("long", "stack", -6, 4, "SL", "S"),
   Var("pair", "c,b", 0, 2, "SI", "U"), Var("byte", "c", 0, 1, "SC", "U"),
   Var("odd", "iyl", 0, 1, "SC", "U")}

MCExpressions ==
  {[name |-> n, c |-> FALSE] : n \in {"PC", "C", Main, "start", "none"}} \cup
  {[name |-> "C", c |-> TRUE], [value |-> 5], [value |-> 31]}
=============================================================================
