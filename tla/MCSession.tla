------------------------------ MODULE MCSession ------------------------------
(* A C program with a start-up module in assembly, a ROM without any debug *)
(* information, and a launch without a program, for Session.               *)
EXTENDS Session, TLC

CONSTANTS MainC, Crt0, LostC, Latin, Hello, Rom, Bare, Default, Nowhere,
          Crt0File, RomLostC, HelloAsm, HelloDir, RomDir, NoDir

MCPlaces ==
  {[path |-> MainC, locals |-> TRUE], [path |-> Crt0, locals |-> FALSE],
   [path |-> LostC, locals |-> FALSE], [path |-> Nowhere, locals |-> FALSE]}

(* lost.c of Hello is not there, the ROM has one.  Beside Hello lies the   *)
(* assembly that the compiler made of hello.c, named as its listing.       *)
(* latin.s is not UTF-8.                                                   *)
MCCFiles  == {MainC, LostC, RomLostC}
MCOnDisk  == {MainC, Crt0File, Latin, RomLostC, HelloAsm}
MCNotUtf8 == {Latin}
MCFound   == HelloDir :> (Crt0 :> Crt0File @@ Hello :> HelloAsm)
               @@ RomDir :> (LostC :> RomLostC) @@ NoDir :> << >>

MCAsked   == {Latin, Rom}

Image(listing, debug, places, program, root) ==
  [listing |-> listing, cdb |-> debug, map |-> debug, places |-> places,
   program |-> program, root |-> root, roots |-> NoDir]
Unknown   == {p \in MCPlaces : p.path = Nowhere}
MCImages  == {Image(Hello, TRUE, MCPlaces, TRUE, HelloDir),
              Image(Rom, FALSE, Unknown, TRUE, RomDir),
              Image(Bare, FALSE, Unknown, FALSE, NoDir)}
MCNoImage == Image(Default, FALSE, Unknown, FALSE, NoDir)
=============================================================================
