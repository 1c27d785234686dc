--------------------------- MODULE MCBreakpoints ---------------------------
(* Two small programs for Breakpoints: one in C with a start-up module and *)
(* a file known from MAP symbols only, and one in assembly only.           *)
EXTENDS Breakpoints

MCNoAddr     == -1
MCUnparsable == -2

File(dir, stem, ext) == [dir |-> dir, stem |-> stem, ext |-> ext]

(* Records of a CDB file, and symbols of a MAP file. *)
M(name)            == [kind |-> "M", name |-> name]
F(name)            == [kind |-> "F", name |-> name]
L(module, name, isEnd, a) ==
  [kind |-> "L", module |-> module, name |-> name, isEnd |-> isEnd, addr |-> a]
Local(function, name) ==
  [kind |-> "S", scope |-> "L", function |-> function, name |-> name, ofFunction |-> FALSE]
Global(scope, name, ofFunction) ==
  [kind |-> "S", scope |-> scope, function |-> "", name |-> name, ofFunction |-> ofFunction]
C(file, line, a)   == [kind |-> "C", file |-> file, line |-> line, addr |-> a]
A(name, line, a)   == [kind |-> "A", name |-> name, line |-> line, addr |-> a]
Symbol(names, a)   == [kind |-> "F", names |-> names, addr |-> a]

MainC == File("", "main", "c")
UtilC == File("", "util", "c")
Virtual(stem) == File("/__virtual__", stem, "asm")

(* draw, a second module, has a global that main declares too, and a local *)
(* of the name of one of main's.                                           *)
Draw ==
  <<M("draw"), F("line"), Local("line", "x"), Local("line", "y"),
    Global("G", "screen", FALSE), Global("F", "colour", FALSE),
    L("", "line", FALSE, 11), L("", "line", TRUE, 14)>>

(* Line 2 of main.c has two addresses; line 3 of main.asm is no line of    *)
(* main.c; util.c is known by a MAP marker, and main.c also by one that    *)
(* the CDB record of the same line hides.  main is global, show static.    *)
(* The image is called listing: its listing has the path of the one that   *)
(* is shown after a launch without a program.                              *)
Hello ==
  [records |-> <<M("main"), F("main"), F("show"), Local("main", "x"), Local("main", "i"),
                 Local("show", "c"), Global("G", "screen", FALSE), Global("G", "line", TRUE),
                 A("crt0", 1, 0), A("main", 3, 2)>> \o Draw \o
               <<L("", "main", FALSE, 2), L("", "main", TRUE, 6),
                 L("main", "show", FALSE, 7), L("main", "show", TRUE, 9),
                 C(MainC, 1, 2), C(MainC, 2, 4), C(MainC, 2, 6), A("crt0", 1, 1)>>,
   symbols |-> <<Symbol({"main", "_main"}, 2), C(UtilC, 1, 8), Symbol({"show"}, 7),
                 C(MainC, 2, 10), Symbol({"main"}, 2)>>,
   length  |-> [a \in 0..15 |-> IF a = 0 THEN 2 ELSE 1],
   virtual |-> Virtual("listing")]

(* An assembly program; its image is called rom, or boot as its module is. *)
Boot(image) ==
  [records |-> <<A("boot", 1, 1), A("boot", 2, 3)>>,
   symbols |-> <<Symbol({"start"}, 1), Symbol({"main"}, 3)>>,
   length  |-> [a \in 0..15 |-> IF a = 15 THEN 3 ELSE 2],
   virtual |-> Virtual(image)]

MCPrograms     == {Hello, Boot("rom")}
NamesakePrograms == {Boot("boot")}

MCDefaultVirtual == File("/__virtual__", "listing", "lst")
MCEmptyVirtual   == Virtual("listing")

(* crt0 is opened as crt0.asm, though its module is taken for crt0.s. *)
MCFiles       == {File("/src", "main", "c"), File("/src", "crt0", "asm"), Virtual("listing")}
NamesakeFiles == {Virtual("boot")}

MCLineSets      == {<< >>, <<1>>, <<2, 3>>}
MCFunctionSets  == {<< >>, <<"main", "_main">>, <<"show">>}
MCReferenceSets == {<< >>, <<3, MCUnparsable>>, <<20>>}

(* The listing of clear memory is the one build_full_listing makes of it.  *)
ASSUME ClearListing ==
  Listing([a \in 0..(AddrSpace - 1) |-> 1]) = [line \in 1..AddrSpace |-> line - 1]

(* What the theorems ask of files holds of these. *)
ASSUME FilesAgree ==
  /\ DefaultVirtual \notin Files
  /\ LinesApart /\ RecordsInOrder /\ MarkersAgree /\ ListingsDiffer
=============================================================================
