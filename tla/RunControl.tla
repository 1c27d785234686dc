----------------------------- MODULE RunControl -----------------------------
(***************************************************************************)
(* Run control of the Z80 debuggee: class dbg (src/src/dbg.h, dbg.cpp).    *)
(*                                                                         *)
(* A dbg owns the CPU, the merged breakpoint set, three flags and at most  *)
(* one background thread that executes instructions for "continue".  This  *)
(* module has the thread, one action per access to shared state, and the   *)
(* methods of dbg that the session thread calls; DebugServer composes them *)
(* with the session thread and the client.                                 *)
(*                                                                         *)
(* The CPU and its memory are abstracted to the program counter: all that  *)
(* run control reads of them is pc and whether memory_[pc] is a HALT.      *)
(***************************************************************************)
EXTENDS Naturals, Sequences

CONSTANTS
  Addr,         \* Z80 addresses
  Successors,   \* Successors[a]: where pc may be after the instruction at a
  Halts,        \* addresses that hold opcode 0x76
  Entry,        \* the address a launch starts at
  MaxHistory    \* kMaxHistory: snapshots kept for stepBack

ASSUME AddrAssumption ==
  /\ Addr \subseteq Nat /\ 0 \in Addr   \* z80ex_reset leaves PC at 0
  /\ Entry \in Addr
  /\ Halts \subseteq Addr
  /\ Successors \in [Addr -> (SUBSET Addr) \ {{}}]
ASSUME MaxHistoryAssumption == MaxHistory \in Nat \ {0}

VARIABLES
  pc,               \* the CPU (cpu_ and memory_)
  history,          \* history_: snapshots of the CPU
  bps,              \* the breakpoint lists by name, see MergeOrder
  allBps,           \* all_breakpoints_, what the thread tests
  settled,          \* not in the code: breakpoints armed and not taken back
  pauseRequested,   \* pause_requested_
  launched,         \* launched_
  running,          \* emulation_running_
  emu,              \* where the emulation thread is
  hit               \* its local hit_breakpoint

cpuVars   == <<pc, history>>
bpVars    == <<bps, allBps, settled>>
flagVars  == <<pauseRequested, launched, running>>
dbgVars   == <<cpuVars, bpVars, flagVars, emu, hit>>

(* source_breakpoint_addresses_, instruction_breakpoints_,                 *)
(* function_breakpoints_ and asm_breakpoints_ (lines of the listing), in   *)
(* the order they are merged in.                                           *)
MergeOrder == <<"source", "instruction", "function", "asm">>
BpLists    == {"source", "instruction", "function", "asm"}
NoBps      == [l \in BpLists |-> {}]

(* Control points of the thread: "none" is a thread object that is not     *)
(* joinable, "done" a thread that has returned and has not been joined.    *)
InLoop    == {"test", "step", "launched", "breakpoint", "pause",
              "clearPause", "halt"}
Reporting == {"report", "out", "write"}
EmuStates == InLoop \cup {"exit"} \cup Reporting \cup {"none", "done", "crashed"}

(* The part of DebugServer's type invariant about dbg.                     *)
RunControlTypeOK ==
  /\ pc \in Addr
  /\ history \in Seq(Addr) /\ Len(history) <= MaxHistory
  /\ bps \in [BpLists -> SUBSET Addr]
  /\ allBps \subseteq Addr
  /\ settled \subseteq Addr
  /\ pauseRequested \in BOOLEAN
  /\ launched \in BOOLEAN
  /\ running \in BOOLEAN
  /\ emu \in EmuStates
  /\ hit \in BOOLEAN

RunControlInit ==
  /\ pc = 0
  /\ history = << >>
  /\ bps = NoBps /\ allBps = {} /\ settled = {}
  /\ pauseRequested = FALSE
  /\ launched = FALSE
  /\ running = FALSE
  /\ emu = "none"
  /\ hit = FALSE

(* A dbg constructed for the next connection. *)
FreshRunControl ==
  /\ pc' = 0 /\ history' = << >>
  /\ bps' = NoBps /\ allBps' = {} /\ settled' = {}
  /\ pauseRequested' = FALSE /\ launched' = FALSE /\ running' = FALSE
  /\ emu' = "none" /\ hit' = FALSE

-----------------------------------------------------------------------------
(* The emulation thread, up to the report of its stop. *)

ExecuteInstruction == pc' \in Successors[pc]

(* A name with an underscore is a plausible fault of the definition that   *)
(* follows it; each breaks a property that the sound definition keeps.     *)
EmuTest_ReturnsSilently ==
  /\ emu = "test"
  /\ emu' = IF running THEN "step" ELSE "done"
  /\ UNCHANGED <<cpuVars, bpVars, flagVars, hit>>

(* while (emulation_running_.load()) *)
EmuTest ==
  /\ emu = "test"
  /\ emu' = IF running THEN "step" ELSE "exit"
  /\ UNCHANGED <<cpuVars, bpVars, flagVars, hit>>

(* step_instruction() *)
EmuStep ==
  /\ emu = "step"
  /\ ExecuteInstruction
  /\ emu' = "launched"
  /\ UNCHANGED <<history, bpVars, flagVars, hit>>

(* if (!launched_) break; *)
EmuLaunched ==
  /\ emu = "launched"
  /\ emu' = IF launched THEN "breakpoint" ELSE "exit"
  /\ UNCHANGED <<cpuVars, bpVars, flagVars, hit>>

(* if (is_breakpoint(pc)) { hit_breakpoint = true; break; }                *)
(* The local copy of pc differs from the CPU's only if the session thread  *)
(* moves the CPU meanwhile, which CpuExclusive (DebugServer) rules out.    *)
EmuBreakpoint ==
  /\ emu = "breakpoint"
  /\ IF pc \in allBps
     THEN hit' = TRUE /\ emu' = "exit"
     ELSE emu' = "pause" /\ UNCHANGED hit
  /\ UNCHANGED <<cpuVars, bpVars, flagVars>>

(* if (pause_requested()) ... *)
EmuPause ==
  /\ emu = "pause"
  /\ emu' = IF pauseRequested THEN "clearPause" ELSE "halt"
  /\ UNCHANGED <<cpuVars, bpVars, flagVars, hit>>

EmuClearPause_NoBreak ==
  /\ emu = "clearPause"
  /\ pauseRequested' = FALSE
  /\ emu' = "halt"
  /\ UNCHANGED <<cpuVars, bpVars, launched, running, hit>>

(* ... { clear_pause(); break; } *)
EmuClearPause ==
  /\ emu = "clearPause"
  /\ pauseRequested' = FALSE
  /\ emu' = "exit"
  /\ UNCHANGED <<cpuVars, bpVars, launched, running, hit>>

(* if (memory_[pc] == 0x76) break; *)
EmuHalt ==
  /\ emu = "halt"
  /\ emu' = IF pc \in Halts THEN "exit" ELSE "test"
  /\ UNCHANGED <<cpuVars, bpVars, flagVars, hit>>

EmuExit_KeepsFlag ==
  /\ emu = "exit"
  /\ emu' = "report"
  /\ UNCHANGED <<cpuVars, bpVars, flagVars, hit>>

(* emulation_running_.store(false) *)
EmuExit ==
  /\ emu = "exit"
  /\ running' = FALSE
  /\ emu' = "report"
  /\ UNCHANGED <<cpuVars, bpVars, pauseRequested, launched, hit>>

EmuRun == \/ EmuTest \/ EmuStep \/ EmuLaunched \/ EmuBreakpoint \/ EmuPause
          \/ EmuClearPause \/ EmuHalt \/ EmuExit

-----------------------------------------------------------------------------
(* Methods the session thread calls; each leaves the rest of dbg to its    *)
(* caller.                                                                 *)

ThreadFinished == emu \in {"none", "done"}

SpawnThread_KeepsHit == emu' = "test" /\ UNCHANGED hit

(* emulation_thread_ = std::thread(...) *)
SpawnThread == emu' = "test" /\ hit' = FALSE

JoinThread_NotJoinable == emu = "done" /\ emu' = "none"

(* if (emulation_thread_.joinable()) emulation_thread_.join(); *)
JoinThread == ThreadFinished /\ emu' = "none"

PushHistory_Uncapped == history' = Append(history, pc)

(* push_history: the oldest snapshot makes room for the new one *)
PushHistory ==
  history' = Append(IF Len(history) >= MaxHistory THEN Tail(history) ELSE history, pc)

(* pop_history: nothing happens when there is no snapshot *)
PopHistory ==
  IF history = << >>
  THEN UNCHANGED cpuVars
  ELSE /\ pc' = history[Len(history)]
       /\ history' = SubSeq(history, 1, Len(history) - 1)

(* What all_breakpoints_ stands for once rebuild_all_breakpoints is over. *)
MergedBps == UNION {bps[l] : l \in BpLists}
=============================================================================
