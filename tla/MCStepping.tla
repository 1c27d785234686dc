----------------------------- MODULE MCStepping -----------------------------
(* Small programs for Stepping: main at 0, f at 3, g at 7. *)
EXTENDS Stepping, TLC

I(class, to, conditional, after) ==
  [class |-> class, to |-> to, conditional |-> conditional, after |-> after]

Plain(to)        == I("plain", to, FALSE, 0)
Call(to, after)  == I("call", {to}, FALSE, after)
CallIf(to, after) == I("call", {to}, TRUE, after)
Ret              == I("ret", {}, FALSE, 0)
RetIf(after)     == I("ret", {}, TRUE, after)
PushAt(after)    == I("push", {}, FALSE, after)
PopAt(after)     == I("pop", {}, FALSE, after)

MCAddr == 0..9

(* main calls f in a loop; f calls g and returns; g is a leaf. *)
Main == 0 :> Call(3, 1) @@ 1 :> Plain({2}) @@ 2 :> Plain({0, 2})

Nested    == Main @@ (3 :> Call(7, 4) @@ 4 :> Plain({5}) @@ 5 :> Plain({6}) @@ 6 :> Ret
                   @@ 7 :> Plain({8}) @@ 8 :> Plain({9}) @@ 9 :> Ret)
(* f saves a register around its call of g, and g may return early. *)
Saving    == Main @@ (3 :> PushAt(4) @@ 4 :> Call(7, 5) @@ 5 :> PopAt(6) @@ 6 :> Ret
                   @@ 7 :> RetIf(8) @@ 8 :> Plain({9}) @@ 9 :> Ret)
(* f calls itself or not, then g. *)
Recursive == Main @@ (3 :> CallIf(3, 4) @@ 4 :> Plain({5}) @@ 5 :> Call(7, 6) @@ 6 :> Ret
                   @@ 7 :> Plain({8}) @@ 8 :> RetIf(9) @@ 9 :> Ret)

(* main pushes an argument for g, takes it back and calls f, a leaf. *)
Arguments == 0 :> PushAt(1) @@ 1 :> Call(7, 2) @@ 2 :> PopAt(4) @@ 4 :> Call(3, 5)
               @@ 5 :> Plain({0}) @@ 6 :> Plain({6})
               @@ 3 :> Ret @@ 7 :> Plain({8}) @@ 8 :> Plain({9}) @@ 9 :> Ret

MCPrograms == {Nested, Saving, Recursive, Arguments}

(* main and f are C, g is assembly; 2 and 9 have no location of their own. *)
MCCLine   == [a \in MCAddr |-> CASE a \in {0, 1} -> a + 1 [] a \in {3, 5} -> a + 1 [] OTHER -> 0]
MCAsmLine == [a \in MCAddr |-> IF a \in {7, 8} THEN 10 + a ELSE 0]

Held(at) == [a \in MCAddr |-> IF a \in at THEN 1 ELSE 0]

MCWords == Nested :> Held({}) @@ Saving :> Held({4, 5}) @@ Recursive :> Held({})
             @@ Arguments :> Held({1, 2})

(* What the theorems ask of programs holds of these. *)
ASSUME ProgramsBalanced == StackBalanced
=============================================================================
