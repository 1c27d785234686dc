------------------------------ MODULE Stepping ------------------------------
(***************************************************************************)
(* The step commands of z80_target: step (over), step_in, step_out and     *)
(* step_back, on a Z80 reduced to what they look at: the program counter,  *)
(* the stack pointer, the words on the stack, and the opcode classes that  *)
(* is_call and is_ret tell apart.                                          *)
(*                                                                         *)
(* A step is a loop over instructions; one iteration of a loop is one      *)
(* action.  Stack pointers wrap, and are compared as the code compares     *)
(* them, cast to signed integers.  Programs keep them aligned, so words on *)
(* the stack do not overlap.                                               *)
(***************************************************************************)
EXTENDS Integers, Sequences

CONSTANTS
  Addr,         \* program addresses
  Programs,     \* programs to step through: [Addr -> instruction]
  CLine,        \* CLine[a]: the C location of source_by_addr_ at a, or NoLine
  AsmLine,      \* AsmLine[a]: the location of asm_by_addr_ at a, or NoLine
  NoLine,
  HasCdb,       \* whether a CDB file is loaded
  Half,         \* half the number of values a stack pointer has (2^15)
  InitSp,       \* stack pointer the program has set up
  Entry,        \* where the program is stopped first
  OverLimit,    \* 500000 in step() and step_out()
  InLimit,      \* 10000 in step_in()
  WalkLimit,    \* 32 in step()
  MaxHistory,   \* kMaxHistory
  RecursionFloor, \* bound of the programs: a conditional call recurses above it
  MaxSteps,     \* bound of the model: steps that can be taken back
  Words         \* Words[p][a]: how many words a frame of p holds at a below
                \* its return address

ASSUME WidthAssumption == Half \in Nat /\ Half > 2 /\ InitSp \in 0..(2 * Half - 1)
ASSUME LimitAssumption ==
  /\ {OverLimit, InLimit, WalkLimit, MaxHistory, MaxSteps} \subseteq Nat \ {0}
  /\ InLimit <= OverLimit /\ WalkLimit <= OverLimit

(* An instruction: its class, where a plain one or a taken call continues, *)
(* whether a call or ret is conditional, and the address that follows it.  *)
Instructions ==
  [class : {"plain", "call", "ret", "push", "pop"},
   to : SUBSET Addr, conditional : BOOLEAN, after : Addr]

ASSUME ProgramAssumption ==
  /\ Entry \in Addr
  /\ \A p \in Programs : \A a \in Addr : p[a] \in Instructions /\ Words[p][a] \in Nat

VARIABLES
  prog,      \* the program in memory
  pc, sp,    \* the CPU
  stack,     \* the words of memory the stack pointer may point at
  history,   \* history_
  loop,      \* the loop the session thread is in, or "idle"
  iter,      \* its i
  depth,     \* call_depth
  startPc,   \* start_pc, which start_loc is looked up at
  startSp,   \* start_sp, or entry_sp
  level,     \* not in the code: calls less returns since the step began
  held,      \* not in the code: the frame the step began in has since held
             \* all that it held then
  trail      \* not in the code: the CPU at the start of each step, uncapped

cpu  == <<pc, sp, stack>>
vars == <<prog, cpu, history, loop, iter, depth, startPc, startSp, level, held, trail>>

OverLoops == {"overAsm", "overC"}
Loops     == OverLoops \cup {"walk", "inAsm", "inC", "one", "out"}
SpRange   == 0..(2 * Half - 1)

Snapshot  == [pc |-> pc, sp |-> sp, stack |-> stack]
Snapshots == [pc : Addr, sp : SpRange, stack : [SpRange -> Addr]]

(* The stack pointer stays in its width and the history within kMaxHistory *)
(* (dbg.cpp:206-210), whatever the programs and the order of the steps.    *)
TypeOK ==
  /\ prog \in Programs
  /\ Snapshot \in Snapshots
  /\ history \in Seq(Snapshots) /\ Len(history) <= MaxHistory
  /\ loop \in Loops \cup {"idle"}
  /\ iter \in 0..OverLimit
  /\ depth \in 0..OverLimit
  /\ startPc \in Addr /\ startSp \in SpRange
  /\ level \in Int /\ held \in BOOLEAN
  /\ trail \in Seq(Snapshots)

Init ==
  /\ prog \in Programs
  /\ pc = Entry /\ sp = InitSp
  /\ stack = [s \in SpRange |-> Entry]
  /\ history = << >>
  /\ loop = "idle" /\ iter = 0 /\ depth = 0
  /\ startPc = Entry /\ startSp = InitSp
  /\ level = 0 /\ held = TRUE
  /\ trail = << >>

-----------------------------------------------------------------------------
(* Lookups and arithmetic. *)

Wrap(x) == x % (2 * Half)

(* static_cast<int16_t> *)
Signed(x) == IF x < Half THEN x ELSE x - 2 * Half

(* lookup_source_any: a C location first, then an assembly one *)
AnyLine(a) == IF CLine[a] # NoLine THEN CLine[a] ELSE AsmLine[a]
IsAsm(a)   == CLine[a] = NoLine /\ AsmLine[a] # NoLine

Differs(line) == line # NoLine /\ line # AnyLine(startPc)

IsCall_Unconditional(a) == prog[a].class = "call" /\ ~prog[a].conditional

(* is_call: CALL nn, CALL cc,nn and RST *)
IsCall(a) == prog[a].class = "call"

(* is_ret: RET, RET cc, RETI and RETN *)
IsRet(a) == prog[a].class = "ret"

-----------------------------------------------------------------------------
(* The CPU. *)

Push(word) == sp' = Wrap(sp - 2) /\ stack' = [stack EXCEPT ![sp'] = word]

Skip(i) == pc' = i.after /\ UNCHANGED <<sp, stack, level>>

(* step_instruction: one complete instruction *)
Execute ==
  LET i == prog[pc] IN
  /\ \/ i.class = "plain" /\ pc' \in i.to /\ UNCHANGED <<sp, stack, level>>
     \/ i.class = "call" /\ (i.conditional => sp > RecursionFloor)
          /\ pc' \in i.to /\ Push(i.after) /\ level' = level + 1
     \/ i.class = "ret" /\ pc' = stack[sp] /\ sp' = Wrap(sp + 2)
          /\ level' = level - 1 /\ UNCHANGED stack
     \/ i.class \in {"call", "ret"} /\ i.conditional /\ Skip(i)
     \/ i.class = "push" /\ pc' = i.after /\ Push(Entry) /\ UNCHANGED level
     \/ i.class = "pop" /\ pc' = i.after /\ sp' = Wrap(sp + 2)
          /\ UNCHANGED <<stack, level>>
  /\ held' = (held /\ sp' <= startSp)
  /\ UNCHANGED <<prog, history, startPc, startSp, trail>>

(* The end of one iteration: leave the loop or go round again. *)
Iterate(stop, limit) ==
  IF stop \/ iter + 1 = limit
  THEN loop' = "idle" /\ iter' = 0
  ELSE iter' = iter + 1 /\ UNCHANGED loop

-----------------------------------------------------------------------------
(* History. *)

PushHistory_Uncapped == history' = Append(history, Snapshot)

PushHistory_StopWhenFull ==
  history' = IF Len(history) >= MaxHistory THEN history ELSE Append(history, Snapshot)

PushHistory ==
  history' = Append(IF Len(history) >= MaxHistory THEN Tail(history) ELSE history,
                    Snapshot)

(* Every step command starts with a snapshot. *)
Begin(l) ==
  /\ loop = "idle"
  /\ Len(trail) < MaxSteps
  /\ PushHistory
  /\ trail' = Append(trail, Snapshot)
  /\ loop' = l
  /\ startPc' = pc /\ startSp' = sp
  /\ level' = 0 /\ held' = TRUE /\ depth' = 0
  /\ UNCHANGED <<prog, cpu, iter>>

(* pop_history restores memory and registers *)
StepBack ==
  /\ loop = "idle"
  /\ history # << >>
  /\ LET s == history[Len(history)]
     IN  pc' = s.pc /\ sp' = s.sp /\ stack' = s.stack
  /\ history' = SubSeq(history, 1, Len(history) - 1)
  /\ trail' = SubSeq(trail, 1, Len(trail) - 1)
  /\ level' = 0
  /\ UNCHANGED <<prog, loop, iter, depth, startPc, startSp, held>>

-----------------------------------------------------------------------------
(* step(): over a call, by counting frames. *)

Step ==
  Begin(IF AnyLine(pc) = NoLine THEN "walk"
        ELSE IF IsAsm(pc) THEN "overAsm" ELSE "overC")

(* sp_delta is the difference cast back to int16_t. *)
CallDepth ==
  LET delta   == Signed(Wrap(sp' - sp))
      counted == IF delta = -2 /\ IsCall(pc) THEN depth + 1
                 ELSE IF delta = 2 /\ IsRet(pc) /\ depth > 0 THEN depth - 1
                 ELSE depth
  IN  IF Signed(sp') >= Signed(startSp) THEN 0 ELSE counted

OverIteration ==
  /\ loop \in OverLoops
  /\ Execute
  /\ depth' = CallDepth
  /\ Iterate(depth' = 0 /\ Differs(IF loop = "overAsm" THEN AnyLine(pc') ELSE CLine[pc']),
             OverLimit)

(* No location at the program counter: walk to one, or back to the caller. *)
WalkIteration ==
  /\ loop = "walk"
  /\ Execute
  /\ Iterate(AnyLine(pc') # NoLine \/ Signed(sp') > Signed(startSp), WalkLimit)
  /\ UNCHANGED depth

-----------------------------------------------------------------------------
(* step_in() and step_out(). *)

StepIn ==
  Begin(IF IsAsm(pc) THEN "inAsm"
        ELSE IF AnyLine(pc) # NoLine /\ HasCdb THEN "inC" ELSE "one")

InAsmIteration ==
  /\ loop = "inAsm"
  /\ Execute
  /\ Iterate(Differs(AnyLine(pc')), InLimit)
  /\ UNCHANGED depth

(* Here the difference of the stack pointers is not cast back. *)
EnteredCall == Signed(sp') - Signed(sp) = -2 /\ IsCall(pc)

InCIteration ==
  /\ loop = "inC"
  /\ Execute
  /\ Iterate(\/ Differs(CLine[pc'])
             \/ CLine[pc'] = NoLine /\ EnteredCall /\ AnyLine(pc') # NoLine, InLimit)
  /\ UNCHANGED depth

SingleInstruction ==
  /\ loop = "one"
  /\ Execute
  /\ Iterate(TRUE, 1)
  /\ UNCHANGED depth

StepOut == Begin("out")

OutIteration_AtLevel ==
  /\ loop = "out"
  /\ Execute
  /\ Iterate(Signed(sp') >= Signed(startSp), OverLimit)
  /\ UNCHANGED depth

OutIteration ==
  /\ loop = "out"
  /\ Execute
  /\ Iterate(Signed(sp') > Signed(startSp), OverLimit)
  /\ UNCHANGED depth

-----------------------------------------------------------------------------
Iteration ==
  \/ OverIteration \/ WalkIteration \/ InAsmIteration \/ InCIteration
  \/ SingleInstruction \/ OutIteration

Next == Step \/ StepIn \/ StepOut \/ StepBack \/ Iteration

Spec == Init /\ [][Next]_vars

-----------------------------------------------------------------------------
(* What a compiler emits: each frame has as many words at an address       *)
(* however it is reached, none when it begins and none when it returns.    *)
Balanced(p) ==
  \A a \in Addr :
    LET i == p[a]
        w == Words[p]
    IN  /\ i.class = "plain" => \A t \in i.to : w[t] = w[a]
        /\ i.class = "call"  => (\A t \in i.to : w[t] = 0) /\ w[i.after] = w[a]
        /\ i.class = "ret"   => w[a] = 0 /\ (i.conditional => w[i.after] = 0)
        /\ i.class = "push"  => w[i.after] = w[a] + 1
        /\ i.class = "pop"   => w[a] > 0 /\ w[i.after] = w[a] - 1

StackBalanced == \A p \in Programs : Balanced(p) /\ Words[p][Entry] = 0

(* The stack stays in the half of the address space it began in. *)
OneHalf == sp < Half <=> InitSp < Half

(* A step over that ends by its own condition, not by its limit, is not    *)
(* inside a function that the frame it began in has called, however deep   *)
(* the calls and whatever they push, as long as that frame has held what   *)
(* it held when the step began. If it has popped some of that, a call may  *)
(* bring the stack back to start_sp, and the step then ends in the callee  *)
(* (z80_target.cpp:235-252).                                               *)
StepOverInFrame ==
  [][loop' = "idle" /\ loop \in OverLoops /\ iter + 1 # OverLimit /\ held' => level' <= 0]_vars

(* A step out that ends by its own condition is not inside a function that *)
(* the frame it began in has called, wherever in that frame it began, and  *)
(* has returned to the caller if the frame held only its return address    *)
(* then.  With anything else on the stack it may still be in the frame: it *)
(* ends at the first word popped (z80_target.cpp:313-321).                 *)
StepOutReturnsFromBase ==
  [][loop = "out" /\ loop' = "idle" /\ iter + 1 # OverLimit
       => level' <= 0 /\ (Words[prog][startPc] = 0 => level' < 0)]_vars

(* A step back restores CPU and memory to what they were when the last     *)
(* step not yet taken back began, through any sequence of steps and steps  *)
(* back and over the cap of the history (dbg.cpp:206-225).                 *)
StepBackRestores == [][StepBack => Snapshot' = trail[Len(trail)]]_vars
=============================================================================
