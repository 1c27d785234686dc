---------------------------- MODULE MCDebugServer ---------------------------
(* Small programs for DebugServer. *)
EXTENDS DebugServer, TLC

(* 0 is the entry; 0 and 1 loop, 1 may branch to 2, which is a HALT. *)
LoopAddr       == {0, 1, 2}
LoopHalts      == {2}
LoopSuccessors == (0 :> {1} @@ 1 :> {0, 2}) @@ 2 :> {2}

(* What requests put in the lists: addresses of their own and shared ones. *)
ListChoices(source, instruction, function, asm) ==
  [l \in BpLists |->
     CASE l = "source" -> source
       [] l = "instruction" -> instruction
       [] l = "function" -> function
       [] l = "asm" -> asm]
SomeBps == ListChoices({{}, {0, 1}}, {{}, {1}}, {{}, {1}}, {{}, {0}})
LiveBps == ListChoices({{}, {0}}, {{}, {1}}, {{0}}, {{1}})
OneBp   == ListChoices({{1}}, {{}}, {{}}, {{}})
=============================================================================
