-------------------------- MODULE DebugServerProofs -------------------------
(***************************************************************************)
(* Safety of DebugServer for every program, every client and every bound:  *)
(* type correctness, and the protocol between emulation_running_, the      *)
(* emulation thread and the joins of the session thread.                   *)
(*                                                                         *)
(* The second part is the safety that rests on the client: one that never  *)
(* sends a request out of turn ("eager"), and for the last theorems one    *)
(* that does not drop its connection either ("drop"), for which            *)
(* DebugServer is also a Debuggee. Each theorem names the liberties it     *)
(* excludes, and holds whatever the client does of the others.             *)
(***************************************************************************)
EXTENDS DebugServer, FiniteSetTheorems, FunctionTheorems, SequenceTheorems, TLAPS

Executing == InLoop \cup {"exit"}   \* the thread has yet to clear the flag

(* RunningOwned is not inductive alone: continue relies on the converse,   *)
(* that a thread still executing keeps the flag set unless the session     *)
(* thread has just cleared it and is waiting for the thread to end.        *)
FlagKept == emu \in Executing /\ ~running => main \in {"joinStop", "joinLast"}

LastStop == main = "joinLast" => ~running

FlagInv ==
  /\ emu \in EmuStates
  /\ main \in MainStates
  /\ running \in BOOLEAN
  /\ RunningOwned
  /\ JoinIsSafe
  /\ FlagKept
  /\ LastStop
  /\ NoThreadOutlivesTarget

USE DEF InLoop, Reporting, EmuStates, Executing

(* The flag protocol holds at the start of a connection. *)
LEMMA FlagInit == Init => FlagInv
BY DEF Init, RunControlInit, FlagInv, RunningOwned, JoinIsSafe, FlagKept, LastStop,
       NoThreadOutlivesTarget, MainStates, Teardown, Commands, ExecCommands, BpCommands

(* The flag protocol looks only at the flag and the two control points.    *)
LEMMA FlagStutter ==
  ASSUME FlagInv, UNCHANGED <<emu, main, running>>
  PROVE  FlagInv'
BY DEF FlagInv, RunningOwned, JoinIsSafe, FlagKept, LastStop, NoThreadOutlivesTarget

(* A step of the session thread keeps the flag protocol. *)
LEMMA FlagSession ==
  ASSUME FlagInv, toServer \in Seq(Commands), SessionThread
  PROVE  FlagInv'
PROOF
<1> USE DEF FlagInv, RunningOwned, JoinIsSafe, FlagKept, LastStop, NoThreadOutlivesTarget,
            MainStates, Teardown, Commands, ExecCommands, BpCommands, ReadCommands,
            Goto, ReplaceList, dbgVars, cpuVars, bpVars, flagVars
<1>1. CASE Read
  BY <1>1 DEF Read
<1>2. CASE Respond
  BY <1>2 DEF Respond
<1>3. CASE LaunchReset
  BY <1>3 DEF LaunchReset
<1>4. CASE LaunchEntry
  BY <1>4 DEF LaunchEntry
<1>5. CASE ConfigurationDone
  BY <1>5 DEF ConfigurationDone
<1>6. CASE Continue
  BY <1>6 DEF Continue
<1>7. CASE ExchangeRunning
  BY <1>7 DEF ExchangeRunning
<1>8. CASE JoinPrevious
  BY <1>8 DEF JoinPrevious, JoinThread, ThreadFinished
<1>9. CASE Spawn
  BY <1>9 DEF Spawn, SpawnThread
<1>10. CASE Pause
  BY <1>10 DEF Pause
<1>11. CASE StepBegin
  BY <1>11 DEF StepBegin
<1>12. CASE StepInstruction
  BY <1>12 DEF StepInstruction
<1>13. CASE StepBack
  BY <1>13 DEF StepBack
<1>14. CASE Stepped
  BY <1>14 DEF Stepped
<1>15. CASE StackTrace \/ Disassemble
  BY <1>15 DEF StackTrace, Disassemble
<1>15a. CASE SweepOn
  BY <1>15a, FlagStutter DEF SweepOn, vars, sessionVars
<1>16. CASE SetBreakpoints \/ SetFunctionBreakpoints
  BY <1>16 DEF SetBreakpoints, SetFunctionBreakpoints
<1>17. CASE SetInstructionBreakpoints
  BY <1>17 DEF SetInstructionBreakpoints
<1>17a. CASE ClearBreakpoints
  BY <1>17a DEF ClearBreakpoints
<1>18. CASE InsertBreakpoint
  BY <1>18 DEF InsertBreakpoint, sessionVars
<1>19. CASE BreakpointsRebuilt
  BY <1>19 DEF BreakpointsRebuilt
<1>20. CASE Disconnect
  BY <1>20 DEF Disconnect
<1>21. CASE StopEmulation
  BY <1>21 DEF StopEmulation
<1>22. CASE JoinStopped
  BY <1>22 DEF JoinStopped, JoinThread, ThreadFinished
<1>23. CASE EndOfFile
  BY <1>23 DEF EndOfFile
<1>24. CASE ClearSender
  BY <1>24 DEF ClearSender
<1>25. CASE DestroySession
  BY <1>25 DEF DestroySession
<1>26. QED
  BY <1>1, <1>2, <1>3, <1>4, <1>5, <1>6, <1>7, <1>8, <1>9, <1>10, <1>11, <1>12, <1>13, <1>14, <1>15,
     <1>15a, <1>16, <1>17, <1>17a, <1>18, <1>19, <1>20, <1>21, <1>22, <1>23, <1>24, <1>25
  DEF SessionThread

(* A step of the emulation thread keeps the flag protocol. *)
LEMMA FlagEmulation ==
  ASSUME FlagInv, EmulationThread
  PROVE  FlagInv'
PROOF
<1> USE DEF FlagInv, RunningOwned, JoinIsSafe, FlagKept, LastStop, NoThreadOutlivesTarget,
            sessionVars, cpuVars, bpVars, flagVars
<1>1. CASE EmuRun /\ UNCHANGED <<sessionVars, wireVars, clientVars>>
  <2>1. CASE EmuTest       BY <1>1, <2>1 DEF EmuTest
  <2>2. CASE EmuStep       BY <1>1, <2>2 DEF EmuStep
  <2>3. CASE EmuLaunched   BY <1>1, <2>3 DEF EmuLaunched
  <2>4. CASE EmuBreakpoint BY <1>1, <2>4 DEF EmuBreakpoint
  <2>5. CASE EmuPause      BY <1>1, <2>5 DEF EmuPause
  <2>6. CASE EmuClearPause BY <1>1, <2>6 DEF EmuClearPause
  <2>7. CASE EmuHalt       BY <1>1, <2>7 DEF EmuHalt
  <2>8. CASE EmuExit       BY <1>1, <2>8 DEF EmuExit
  <2>9. QED  BY <1>1, <2>1, <2>2, <2>3, <2>4, <2>5, <2>6, <2>7, <2>8 DEF EmuRun
<1>2. CASE EmuReport  BY <1>2 DEF EmuReport
<1>3. CASE EmuOut     BY <1>3 DEF EmuOut, Undefined
<1>4. CASE EmuWrite   BY <1>4 DEF EmuWrite, Undefined
<1>5. QED  BY <1>1, <1>2, <1>3, <1>4 DEF EmulationThread

(* A client touches neither the flag nor the threads. *)
LEMMA ClientLeavesServer ==
  ASSUME Client
  PROVE  UNCHANGED <<dbgVars, sessionVars>>
BY DEF Client, Send, Receive, Close, Drop

-----------------------------------------------------------------------------
(* Type correctness.  The budget stays a natural number because a step     *)
(* that has used it up has ended.                                          *)

TypeInv == TypeOK /\ (main = "stepping" => budget # 0)

(* What an instruction does to the program counter stays within Addr. *)
LEMMA ExecuteType ==
  ASSUME pc \in Addr, ExecuteInstruction
  PROVE  pc' \in Addr
BY AddrAssumption DEF ExecuteInstruction

(* A snapshot never makes the history longer than MaxHistory. *)
LEMMA PushType ==
  ASSUME RunControlTypeOK, PushHistory
  PROVE  history' \in Seq(Addr) /\ Len(history') <= MaxHistory
BY MaxHistoryAssumption DEF RunControlTypeOK, PushHistory

(* Taking a snapshot back leaves an address and a shorter history. *)
LEMMA PopType ==
  ASSUME RunControlTypeOK, PopHistory
  PROVE  pc' \in Addr /\ history' \in Seq(Addr) /\ Len(history') <= MaxHistory
BY MaxHistoryAssumption DEF RunControlTypeOK, PopHistory, cpuVars

(* What is written to the client is a message. *)
LEMMA WriteType ==
  ASSUME toClient \in Seq(Messages), NEW m \in Messages, Write(m)
  PROVE  toClient' \in Seq(Messages)
BY DEF Write

(* The lists hold addresses, and so does their union. *)
LEMMA MergedType ==
  ASSUME RunControlTypeOK
  PROVE  MergedBps \subseteq Addr
BY DEF RunControlTypeOK, MergedBps

(* The inserted address belongs to a breakpoint list. *)
LEMMA InsertType ==
  ASSUME RunControlTypeOK, NEW a \in NextToInsert
  PROVE  a \in Addr
BY MergedType DEF NextToInsert

(* A replaced list holds addresses again. *)
LEMMA ReplaceType ==
  ASSUME RunControlTypeOK, NEW l \in BpLists, ReplaceList(l)
  PROVE  /\ bps' \in [BpLists -> SUBSET Addr]
         /\ allBps' \subseteq Addr /\ settled' \subseteq Addr
BY BpChoicesAssumption DEF RunControlTypeOK, ReplaceList

(* The initial state is well typed. *)
LEMMA TypeInit == Init => TypeInv
BY AddrAssumption, MaxHistoryAssumption, StepLimitAssumption
   DEF Init, RunControlInit, TypeInv, TypeOK, RunControlTypeOK, MainStates, NoBps

(* A step of the session thread keeps the types. *)
LEMMA TypeSession ==
  ASSUME TypeInv, SessionThread
  PROVE  TypeInv'
PROOF
<1> USE DEF TypeInv, TypeOK, RunControlTypeOK, MainStates, Teardown, Commands, ExecCommands,
            BpCommands, ReadCommands, Goto, dbgVars, cpuVars, bpVars, flagVars, sessionVars,
            wireVars, clientVars
<1> "response" \in Messages /\ "entry" \in Messages /\ "step" \in Messages
  BY DEF Messages, StopEvents
<1>1. CASE Read
  BY <1>1 DEF Read
<1>2. CASE Respond
  BY <1>2, WriteType DEF Respond
<1>3. CASE LaunchReset
  <2>1. pc' \in Addr  BY <1>3, AddrAssumption DEF LaunchReset
  <2>2. bps' \in [BpLists -> SUBSET Addr] /\ allBps' \subseteq Addr /\ settled' \subseteq Addr
    BY <1>3, ReplaceType DEF LaunchReset, BpLists
  <2>3. main' \in MainStates  BY <1>3 DEF LaunchReset
  <2>4. QED  BY <1>3, <2>1, <2>2, <2>3 DEF LaunchReset
<1>4. CASE LaunchEntry
  BY <1>4, AddrAssumption DEF LaunchEntry
<1>5. CASE ConfigurationDone
  BY <1>5, WriteType DEF ConfigurationDone
<1>6. CASE Continue
  <2>1. pauseRequested' \in BOOLEAN  BY <1>6, Zenon DEF Continue
  <2>2. QED  BY <1>6, <2>1 DEF Continue
<1>7. CASE ExchangeRunning
  BY <1>7 DEF ExchangeRunning
<1>8. CASE JoinPrevious
  BY <1>8 DEF JoinPrevious, JoinThread
<1>9. CASE Spawn
  BY <1>9 DEF Spawn, SpawnThread
<1>10. CASE Pause
  BY <1>10 DEF Pause
<1>11. CASE StepBegin
  BY <1>11, PushType, StepLimitAssumption DEF StepBegin
<1>12. CASE StepInstruction
  <2>1. pc' \in Addr  BY <1>12, ExecuteType DEF StepInstruction
  <2>2. budget' \in 0..StepLimit  BY <1>12, StepLimitAssumption DEF StepInstruction
  <2>3. main' \in MainStates /\ (main' = "stepping" => budget' # 0)
    BY <1>12 DEF StepInstruction
  <2>4. QED  BY <1>12, <2>1, <2>2, <2>3 DEF StepInstruction
<1>13. CASE StepBack
  BY <1>13, PopType DEF StepBack
<1>14. CASE Stepped
  BY <1>14, WriteType DEF Stepped
<1>15. CASE StackTrace \/ Disassemble
  BY <1>15 DEF StackTrace, Disassemble
<1>15a. CASE SweepOn
  BY <1>15a DEF SweepOn, vars
<1>16. CASE SetBreakpoints
  <2>1. PICK l \in BpLists : ReplaceList(l)  BY <1>16 DEF SetBreakpoints, BpLists
  <2>2. QED  BY <1>16, <2>1, ReplaceType DEF SetBreakpoints
<1>16a. CASE SetFunctionBreakpoints
  BY <1>16a, ReplaceType DEF SetFunctionBreakpoints, BpLists
<1>17. CASE SetInstructionBreakpoints
  BY <1>17, ReplaceType DEF SetInstructionBreakpoints, BpLists
<1>17a. CASE ClearBreakpoints
  BY <1>17a DEF ClearBreakpoints
<1>18. CASE InsertBreakpoint
  BY <1>18, InsertType DEF InsertBreakpoint
<1>19. CASE BreakpointsRebuilt
  BY <1>19, MergedType DEF BreakpointsRebuilt
<1>20. CASE Disconnect
  <2>1. launched' \in BOOLEAN  BY <1>20, Zenon DEF Disconnect
  <2>2. QED  BY <1>20, <2>1 DEF Disconnect
<1>21. CASE StopEmulation
  <2>1. running' \in BOOLEAN  BY <1>21, Zenon DEF StopEmulation
  <2>2. QED  BY <1>21, <2>1 DEF StopEmulation
<1>22. CASE JoinStopped
  BY <1>22 DEF JoinStopped, JoinThread
<1>23. CASE EndOfFile
  BY <1>23 DEF EndOfFile
<1>24. CASE ClearSender
  BY <1>24 DEF ClearSender
<1>25. CASE DestroySession
  BY <1>25 DEF DestroySession
<1>26. QED
  BY <1>1, <1>2, <1>3, <1>4, <1>5, <1>6, <1>7, <1>8, <1>9, <1>10, <1>11, <1>12, <1>13, <1>14, <1>15,
     <1>15a, <1>16, <1>16a, <1>17, <1>17a, <1>18, <1>19, <1>20, <1>21, <1>22, <1>23, <1>24, <1>25
  DEF SessionThread

(* A step of the emulation thread keeps the types. *)
LEMMA TypeEmulation ==
  ASSUME TypeInv, EmulationThread
  PROVE  TypeInv'
PROOF
<1> USE DEF TypeInv, TypeOK, RunControlTypeOK, cpuVars, bpVars, flagVars, sessionVars,
            wireVars, clientVars
<1>1. CASE EmuRun /\ UNCHANGED <<sessionVars, wireVars, clientVars>>
  <2>1. CASE EmuTest       BY <1>1, <2>1 DEF EmuTest
  <2>2. CASE EmuStep       BY <1>1, <2>2, ExecuteType DEF EmuStep
  <2>3. CASE EmuLaunched   BY <1>1, <2>3 DEF EmuLaunched
  <2>4. CASE EmuBreakpoint
    <3>1. hit' \in BOOLEAN  BY <2>4 DEF EmuBreakpoint
    <3>2. QED  BY <1>1, <2>4, <3>1 DEF EmuBreakpoint
  <2>5. CASE EmuPause      BY <1>1, <2>5 DEF EmuPause
  <2>6. CASE EmuClearPause
    <3>1. pauseRequested' \in BOOLEAN  BY <2>6, Zenon DEF EmuClearPause
    <3>2. QED  BY <1>1, <2>6, <3>1 DEF EmuClearPause
  <2>7. CASE EmuHalt       BY <1>1, <2>7 DEF EmuHalt
  <2>8. CASE EmuExit
    <3>1. running' \in BOOLEAN  BY <2>8, Zenon DEF EmuExit
    <3>2. QED  BY <1>1, <2>8, <3>1 DEF EmuExit
  <2>9. QED  BY <1>1, <2>1, <2>2, <2>3, <2>4, <2>5, <2>6, <2>7, <2>8 DEF EmuRun
<1>2. CASE EmuReport  BY <1>2 DEF EmuReport
<1>3. CASE EmuOut     BY <1>3 DEF EmuOut, Undefined
<1>4. CASE EmuWrite
  <2>1. toClient' \in Seq(Messages)
    BY <1>4, WriteType DEF EmuWrite, Undefined, Messages, StopEvents
  <2>2. QED  BY <1>4, <2>1 DEF EmuWrite, Undefined
<1>5. QED  BY <1>1, <1>2, <1>3, <1>4 DEF EmulationThread

(* A step of the client keeps the types. *)
LEMMA TypeClient ==
  ASSUME TypeInv, Client
  PROVE  TypeInv'
PROOF
<1> USE DEF TypeInv, TypeOK, RunControlTypeOK, dbgVars, cpuVars, bpVars, flagVars,
            sessionVars
<1>1. ASSUME NEW c \in Commands, Send(c)
      PROVE  TypeInv'
  BY <1>1 DEF Send
<1>2. CASE Receive  BY <1>2 DEF Receive
<1>3. CASE Close    BY <1>3 DEF Close
<1>4. CASE Drop
  <2>1. << >> \in Seq(Commands) /\ << >> \in Seq(Messages)  OBVIOUS
  <2>2. toServer' \in Seq(Commands)  BY <1>4, <2>1, Zenon DEF Drop
  <2>3. toClient' \in Seq(Messages)  BY <1>4, <2>1 DEF Drop
  <2>4. phase' = "gone"  BY <1>4 DEF Drop
  <2>5. UNCHANGED <<dbgVars, sessionVars, view>>  BY <1>4 DEF Drop
  <2>6. QED  BY <2>2, <2>3, <2>4, <2>5
<1>5. QED  BY <1>1, <1>2, <1>3, <1>4 DEF Client

(* The next connection starts well typed, and its target without a thread. *)
LEMMA AcceptFresh ==
  ASSUME Accept
  PROVE  TypeInv' /\ FlagInv'
PROOF
<1>1. /\ pauseRequested' \in BOOLEAN /\ launched' \in BOOLEAN
      /\ running' \in BOOLEAN /\ hit' \in BOOLEAN
  BY Zenon DEF Accept, FreshRunControl
<1>2. TypeInv'
  BY <1>1, AddrAssumption, MaxHistoryAssumption, StepLimitAssumption
     DEF Accept, FreshRunControl, TypeInv, TypeOK, RunControlTypeOK, MainStates, NoBps
<1>3. FlagInv'
  BY <1>1 DEF Accept, FreshRunControl, FlagInv, RunningOwned, JoinIsSafe, FlagKept,
         LastStop, NoThreadOutlivesTarget, MainStates
<1>4. QED  BY <1>2, <1>3

-----------------------------------------------------------------------------
(* The two invariants are inductive together. *)

Inv == TypeInv /\ FlagInv

(* Every step keeps types and the flag protocol. *)
LEMMA InvStep ==
  ASSUME Inv, [Next]_vars
  PROVE  Inv'
PROOF
<1>1. CASE SessionThread
  BY <1>1, TypeSession, FlagSession DEF Inv, TypeInv, TypeOK
<1>2. CASE EmulationThread
  BY <1>2, TypeEmulation, FlagEmulation DEF Inv
<1>3. CASE Accept
  BY <1>3, AcceptFresh DEF Inv
<1>4. CASE Client
  BY <1>4, TypeClient, ClientLeavesServer, FlagStutter
     DEF Inv, dbgVars, flagVars, sessionVars
<1>5. CASE UNCHANGED vars
  <2>1. TypeInv'
    BY <1>5 DEF Inv, TypeInv, TypeOK, RunControlTypeOK, vars, dbgVars, cpuVars, bpVars,
                flagVars, sessionVars, wireVars, clientVars
  <2>2. FlagInv'
    BY <1>5, FlagStutter DEF Inv, vars, dbgVars, flagVars, sessionVars
  <2>3. QED  BY <2>1, <2>2 DEF Inv
<1>6. QED  BY <1>1, <1>2, <1>3, <1>4, <1>5 DEF Next

(* The inductive invariant holds in every reachable state. *)
THEOREM Invariance == Spec => []Inv
PROOF
<1>1. Init => Inv  BY TypeInit, FlagInit DEF Inv
<1>2. Inv /\ [Next]_vars => Inv'  BY InvStep
<1>3. QED  BY <1>1, <1>2, PTL DEF Spec

(* Every variable of the server, the wire and the client keeps its type.   *)
THEOREM TypeCorrect == Spec => []TypeOK
PROOF
<1>1. Inv => TypeOK  BY DEF Inv, TypeInv
<1>2. QED  BY Invariance, <1>1, PTL

(* emulation_running_ is never left set without a thread that will clear   *)
(* it, so start_emulation never ignores a continue for good.               *)
THEOREM RunningFlagOwned == Spec => []RunningOwned
PROOF
<1>1. Inv => RunningOwned  BY DEF Inv, FlagInv
<1>2. QED  BY Invariance, <1>1, PTL

(* start_emulation never waits for a thread that has yet to clear the flag *)
(* it has just set, and never overwrites a thread it has not joined.       *)
THEOREM JoinsAreSafe == Spec => []JoinIsSafe
PROOF
<1>1. Inv => JoinIsSafe  BY DEF Inv, FlagInv
<1>2. QED  BY Invariance, <1>1, PTL

(* When a target has been destroyed its emulation thread has been joined.  *)
THEOREM TargetOutlivesThread == Spec => []NoThreadOutlivesTarget
PROOF
<1>1. Inv => NoThreadOutlivesTarget  BY DEF Inv, FlagInv
<1>2. QED  BY Invariance, <1>1, PTL

-----------------------------------------------------------------------------
(* Counting the messages of a channel.                                     *)

(* A count is a natural number, and 0 when no message is among S. *)
LEMMA QueuedType ==
  ASSUME NEW T, NEW s \in Seq(T), NEW S
  PROVE  /\ IsFiniteSet({i \in 1..Len(s) : s[i] \in S})
         /\ Queued(s, S) \in Nat
         /\ Queued(s, S) = 0 <=> \A i \in 1..Len(s) : s[i] \notin S
PROOF
<1> DEFINE In == {i \in 1..Len(s) : s[i] \in S}
<1>1. IsFiniteSet(1..Len(s))  BY FS_Interval
<1>2. IsFiniteSet(In)  BY <1>1, FS_Subset
<1>3. Queued(s, S) \in Nat  BY <1>2, FS_CardinalityType DEF Queued
<1>4. Queued(s, S) = 0 <=> In = {}  BY <1>2, FS_EmptySet DEF Queued
<1>5. QED  BY <1>2, <1>3, <1>4

(* Nothing is queued in an empty channel. *)
LEMMA QueuedEmpty == \A S : Queued(<< >>, S) = 0
BY FS_EmptySet DEF Queued

(* Sending a message counts it. *)
LEMMA QueuedAppend ==
  ASSUME NEW T, NEW s \in Seq(T), NEW S, NEW x \in T
  PROVE  Queued(Append(s, x), S) = Queued(s, S) + (IF x \in S THEN 1 ELSE 0)
PROOF
<1> DEFINE In == {i \in 1..Len(s) : s[i] \in S}
           n  == Len(s) + 1
<1>1. IsFiniteSet(In) /\ Cardinality(In) \in Nat  BY QueuedType DEF Queued
<1> HIDE DEF In, n
<1>2. n \notin In  BY DEF In, n
<1>3. Cardinality(In \cup {n}) = Cardinality(In) + 1  BY <1>1, <1>2, FS_AddElement
<1>4. CASE x \in S
  <2>1. {i \in 1..Len(Append(s, x)) : Append(s, x)[i] \in S} = In \cup {n}
    BY <1>4 DEF In, n
  <2>2. QED  BY <1>3, <1>4, <2>1 DEF Queued, In
<1>5. CASE x \notin S
  <2>1. {i \in 1..Len(Append(s, x)) : Append(s, x)[i] \in S} = In
    BY <1>5 DEF In
  <2>2. Queued(Append(s, x), S) = Cardinality(In) /\ Queued(s, S) = Cardinality(In)
    BY <2>1 DEF Queued, In
  <2>3. QED  BY <1>1, <1>5, <2>2
<1>6. QED  BY <1>4, <1>5

(* Taking the first message off a channel takes it off the count. *)
LEMMA QueuedTail ==
  ASSUME NEW T, NEW s \in Seq(T), NEW S, s # << >>
  PROVE  Queued(s, S) = Queued(Tail(s), S) + (IF Head(s) \in S THEN 1 ELSE 0)
PROOF
<1> DEFINE In   == {i \in 1..Len(s) : s[i] \in S}
           Rest == In \ {1}
           InT  == {i \in 1..Len(Tail(s)) : Tail(s)[i] \in S}
           f    == [i \in InT |-> i + 1]
<1>1. IsFiniteSet(In) /\ Cardinality(In) \in Nat  BY QueuedType DEF Queued
<1>2. Tail(s) \in Seq(T)  OBVIOUS
<1>3. IsFiniteSet(InT) /\ Cardinality(InT) \in Nat
  BY <1>2, QueuedType DEF Queued
<1>4. f \in Bijection(InT, Rest)
  <2>1. f \in [InT -> Rest]  BY HeadTailProperties
  <2>2. \A i, j \in InT : f[i] = f[j] => i = j  OBVIOUS
  <2>3. \A k \in Rest : \E i \in InT : f[i] = k
    <3> SUFFICES ASSUME NEW k \in Rest  PROVE \E i \in InT : f[i] = k  OBVIOUS
    <3>1. k - 1 \in InT  BY HeadTailProperties
    <3>2. f[k - 1] = k  BY <3>1
    <3>3. QED  BY <3>1, <3>2
  <2> HIDE DEF InT, Rest, f
  <2>4. QED  BY <2>1, <2>2, <2>3, Fun_IsBij
<1>5. Cardinality(InT) = Cardinality(Rest)
  BY <1>3, <1>4, FS_Bijection DEF ExistsBijection
<1>6. Cardinality(Rest) = IF 1 \in In THEN Cardinality(In) - 1 ELSE Cardinality(In)
  BY <1>1, FS_RemoveElement
<1>7. 1 \in In <=> Head(s) \in S  OBVIOUS
<1>8. Queued(s, S) = Cardinality(In) /\ Queued(Tail(s), S) = Cardinality(InT)
  BY DEF Queued
<1> HIDE DEF In, Rest, InT
<1>9. QED  BY <1>1, <1>3, <1>5, <1>6, <1>7, <1>8

-----------------------------------------------------------------------------
(* The invariant.  OneStopPerRun is not inductive: that a request to run   *)
(* is sent only when none is owed a stop follows from it, but that each is *)
(* carried out and reported depends on what else is on its way.            *)

Active      == Executing \cup Reporting                    \* a run is under way
RunRequests == ExecCommands \cup {"configurationDone"}     \* each owed one stop
StopSent    == \E i \in 1..Len(toClient) : toClient[i] \in StopEvents
RunDue      == main \in HandlesExec \/ emu \in Active \/ StopSent

(* Even after the connection is gone at most one run is asked for, being   *)
(* handled or under way.                                                   *)
OneRun ==
  Queued(toServer, RunRequests)
    + (IF main \in HandlesExec THEN 1 ELSE 0)
    + (IF emu \in Active THEN 1 ELSE 0) <= 1

(* What an orderly client sends while the program runs.                    *)
Live  == "live" \in Liberties
Aside == {"pause", "disconnect"} \cup (IF Live THEN BpCommands ELSE {})

(* Where these requests take the session thread.                           *)
AsideStates ==
  Aside \cup {"read", "respond", "stop", "joinStop"} \cup Teardown
    \cup (IF Live THEN {"clear", "rebuild"} ELSE {})

(* Only such requests follow a request to run, until the client has seen   *)
(* the stop.                                                               *)
AfterRunOnlyAside ==
  /\ \A i, j \in 1..Len(toServer) :
       i < j /\ toServer[i] \in RunRequests => toServer[j] \in Aside
  /\ RunDue => \A j \in 1..Len(toServer) : toServer[j] \in Aside

AsideOfRun == emu \in Active \/ StopSent => main \in AsideStates

(* Before configurationDone there is no run, after the first stop no launch. *)
Launching == {"launch", "clearLaunch", "rebuildLaunch", "entry"}
StartsOnce ==
  /\ phase \in {"new", "launched"} => view = "starting"
  /\ view = "stopped" =>
       main \notin Launching /\ \A i \in 1..Len(toServer) : toServer[i] # "launch"

(* configurationDone finds launched_ set: without it there is no entry     *)
(* stop (target.cpp:157-173), and the thread would leave its loop.         *)
LaunchBefore(i) ==
  launched \/ main \in Launching \/ \E k \in 1..(i - 1) : toServer[k] = "launch"
LaunchPrecedes ==
  /\ main = "configurationDone" => launched
  /\ \A i \in 1..Len(toServer) : toServer[i] = "configurationDone" => LaunchBefore(i)
  /\ phase = "launched" => LaunchBefore(Len(toServer) + 1)
  /\ phase = "configured" =>
       launched \/ \E i \in 1..Len(toServer) : toServer[i] = "configurationDone"

(* Nothing follows a disconnect. *)
Disconnecting == {"disconnect", "stop", "joinStop"}
DisconnectLast ==
  /\ \A i \in 1..Len(toServer) : toServer[i] = "disconnect" =>
        i = Len(toServer) /\ phase \in {"leaving", "gone"}
  /\ main \in Disconnecting => toServer = << >> /\ phase \in {"leaving", "gone"}

(* From the disconnect on: it is on its way, being handled, or handled,    *)
(* and then the thread has been joined and its response ends the channel.  *)
LeavingEnds ==
  phase = "leaving" =>
    \/ toServer # << >> /\ toServer[Len(toServer)] = "disconnect"
    \/ toServer = << >> /\ main \in Disconnecting
    \/ /\ toServer = << >> /\ main \in {"respond", "read"} /\ ThreadFinished
       /\ main = "respond" \/ toClient = << >> \/ toClient[Len(toClient)] = "response"

GoneIsSilent      == phase = "gone" => toClient = << >>
OnlyGoneTearsDown == session # "open" \/ main \in Teardown => phase = "gone"

(* all_breakpoints_ is the union of the lists except while a list that has *)
(* been replaced is merged again.                                          *)
Rearming == {"clear", "clearLaunch", "rebuild", "rebuildLaunch"}
BreakpointsMerged ==
  /\ main \in {"rebuild", "rebuildLaunch"} => allBps \subseteq MergedBps
  /\ main \notin Rearming => allBps = MergedBps /\ settled = MergedBps

Core ==
  /\ OneStopPerRun
  /\ OneRun
  /\ AfterRunOnlyAside
  /\ AsideOfRun
  /\ StartsOnce
  /\ LaunchPrecedes
  /\ DisconnectLast
  /\ LeavingEnds
  /\ GoneIsSilent
  /\ OnlyGoneTearsDown
  /\ BreakpointsMerged

USE DEF InLoop, Reporting, EmuStates, Executing

(* The counts of the two channels are natural numbers. *)
LEMMA Counts ==
  ASSUME Inv
  PROVE  Queued(toServer, RunRequests) \in Nat /\ Queued(toClient, StopEvents) \in Nat
BY QueuedType DEF Inv, TypeInv, TypeOK

(* A client that does not take the program to be running is owed nothing,  *)
(* and one that does is owed one stop only.                                *)
LEMMA Owed ==
  ASSUME Inv, OneStopPerRun, phase # "gone"
  PROVE  /\ view # "running" =>
              /\ main \notin HandlesExec /\ emu \notin Active /\ ~StopSent
              /\ \A i \in 1..Len(toServer) : toServer[i] \notin RunRequests
         /\ StopSent => main \notin HandlesExec /\ emu \notin Active
<1>1. toServer \in Seq(Commands) /\ toClient \in Seq(Messages)
  BY DEF Inv, TypeInv, TypeOK
<1>2. /\ Queued(toServer, RunRequests) \in Nat /\ Queued(toClient, StopEvents) \in Nat
      /\ Queued(toServer, RunRequests) = 0
           <=> \A i \in 1..Len(toServer) : toServer[i] \notin RunRequests
      /\ Queued(toClient, StopEvents) = 0
           <=> \A i \in 1..Len(toClient) : toClient[i] \notin StopEvents
  BY <1>1, QueuedType
<1>3. QED  BY <1>2 DEF OneStopPerRun, StopsOwed, Active, RunRequests, StopSent

(* Without a response on its way nothing is outstanding but what the       *)
(* session thread has read or is to read.                                  *)
LEMMA NothingOutstanding ==
  ASSUME Inv, Outstanding = 0
  PROVE  /\ toServer = << >> /\ main \in {"read"} \cup Teardown
         /\ \A i \in 1..Len(toClient) : toClient[i] # "response"
<1>1. toServer \in Seq(Commands) /\ toClient \in Seq(Messages)
  BY DEF Inv, TypeInv, TypeOK
<1>2. /\ Queued(toClient, {"response"}) \in Nat
      /\ Queued(toClient, {"response"}) = 0
           <=> \A i \in 1..Len(toClient) : toClient[i] \notin {"response"}
  BY <1>1, QueuedType
<1>3. QED  BY <1>1, <1>2 DEF Outstanding

(* When no list lacks an address in the set, the set has them all.         *)
LEMMA AllInserted ==
  ASSUME NextToInsert = {}
  PROVE  MergedBps \subseteq allBps
PROOF
<1> DEFINE In(l) == bps[l] \subseteq allBps
           Next1(l) == \A a \in bps[l] : a \in MergedBps
<1>1. \A l \in BpLists : Next1(l)  BY DEF MergedBps
<1>2. In("source")       BY <1>1 DEF NextToInsert, MergeOrder, BpLists
<1>3. In("instruction")  BY <1>1, <1>2 DEF NextToInsert, MergeOrder, BpLists
<1>4. In("function")     BY <1>1, <1>2, <1>3 DEF NextToInsert, MergeOrder, BpLists
<1>5. In("asm")          BY <1>1, <1>2, <1>3, <1>4 DEF NextToInsert, MergeOrder, BpLists
<1>6. QED  BY <1>2, <1>3, <1>4, <1>5 DEF MergedBps, BpLists

(* The union of the lists changes only with a list. *)
LEMMA MergedFrame ==
  ASSUME UNCHANGED bpVars
  PROVE  MergedBps' = MergedBps
BY DEF bpVars, MergedBps

(* The session thread takes the lists and their merged set apart only from *)
(* the replacement of a list until all of them have been inserted.         *)
LEMMA MergedSession ==
  ASSUME BreakpointsMerged, toServer \in Seq(Commands), SessionThread
  PROVE  BreakpointsMerged'
PROOF
<1> USE DEF BreakpointsMerged, Rearming, Goto
<1>1. CASE SetBreakpoints \/ SetInstructionBreakpoints \/ SetFunctionBreakpoints
  BY <1>1 DEF SetBreakpoints, SetInstructionBreakpoints, SetFunctionBreakpoints
<1>2. CASE LaunchReset /\ main' = "clearLaunch"
  BY <1>2 DEF LaunchReset
<1>3. CASE ClearBreakpoints
  BY <1>3 DEF ClearBreakpoints
<1>4. CASE InsertBreakpoint
  <2>1. MergedBps' = MergedBps  BY <1>4 DEF InsertBreakpoint, MergedBps
  <2>2. QED  BY <1>4, <2>1 DEF InsertBreakpoint, NextToInsert, sessionVars
<1>5. CASE BreakpointsRebuilt
  <2>1. MergedBps \subseteq allBps  BY <1>5, AllInserted DEF BreakpointsRebuilt
  <2>2. MergedBps' = MergedBps  BY <1>5 DEF BreakpointsRebuilt, MergedBps
  <2>3. QED  BY <1>5, <2>1, <2>2 DEF BreakpointsRebuilt
<1>6. CASE UNCHANGED bpVars /\ main \notin Rearming /\ main' \notin Rearming
  BY <1>6, MergedFrame DEF bpVars
<1>7. CASE SweepOn
  BY <1>7, MergedFrame DEF SweepOn, vars, dbgVars, bpVars, sessionVars
<1>8. CASE LaunchReset /\ main' # "clearLaunch"
  BY <1>6, <1>8 DEF LaunchReset
<1>9. CASE Read
  BY <1>6, <1>9 DEF Read, dbgVars, Commands, ExecCommands, BpCommands, ReadCommands
<1>10. CASE \/ Respond \/ LaunchEntry \/ ConfigurationDone \/ Continue \/ ExchangeRunning
            \/ JoinPrevious \/ Spawn \/ Pause \/ StepBegin \/ StepInstruction
            \/ StepBack \/ Stepped \/ StackTrace \/ Disassemble \/ Disconnect
            \/ StopEmulation \/ JoinStopped \/ EndOfFile \/ ClearSender \/ DestroySession
  BY <1>6, <1>10 DEF Respond, LaunchEntry, ConfigurationDone, Continue, ExchangeRunning,
     JoinPrevious, Spawn, Pause, StepBegin, StepInstruction, StepBack, Stepped, StackTrace,
     Disassemble, Disconnect, StopEmulation, JoinStopped, EndOfFile, ClearSender,
     DestroySession, dbgVars
<1>11. QED
  BY <1>1, <1>2, <1>3, <1>4, <1>5, <1>7, <1>8, <1>9, <1>10 DEF SessionThread

-----------------------------------------------------------------------------
(* The invariant is inductive.                                             *)

USE DEF Core, OneStopPerRun, StopsOwed, OneRun, AfterRunOnlyAside, AsideOfRun, RunDue,
        StopSent, StartsOnce, LaunchPrecedes, LaunchBefore, DisconnectLast, LeavingEnds,
        GoneIsSilent, OnlyGoneTearsDown, Live, Aside, AsideStates,
        Launching, Disconnecting, Teardown, Active, RunRequests, HandlesExec, ExecCommands,
        BpCommands, ReadCommands, Goto, dbgVars, cpuVars, bpVars, flagVars, sessionVars,
        wireVars, clientVars, Inv, TypeInv, TypeOK, ThreadFinished

(* Reading a request: a request to run is handled instead of queued, and   *)
(* what was behind the first request moves up by one.                      *)
LEMMA CoreRead ==
  ASSUME Inv, Core, Read
  PROVE  Core'
PROOF
<1>0. /\ Queued(toServer, RunRequests) \in Nat /\ Queued(toClient, StopEvents) \in Nat
      /\ BreakpointsMerged'
  BY Counts, MergedSession DEF SessionThread
<1> DEFINE c == Head(toServer)
<1>1. /\ toServer # << >> /\ main = "read" /\ c \in Commands /\ main' = c
      /\ c = toServer[1] /\ toServer' \in Seq(Commands)
      /\ Len(toServer') = Len(toServer) - 1
      /\ \A i \in 1..Len(toServer') : toServer'[i] = toServer[i + 1]
      /\ UNCHANGED <<dbgVars, budget, session, toClient, phase, view>>
  BY DEF Read
<1>2. /\ Queued(toServer, RunRequests) = Queued(toServer', RunRequests)
                                           + (IF c \in RunRequests THEN 1 ELSE 0)
      /\ Queued(toServer', RunRequests) \in Nat
  BY <1>1, QueuedTail, QueuedType DEF Read
<1> HIDE DEF c
<1> USE DEF Commands
<1>3. OneStopPerRun' /\ OneRun'
  BY <1>0, <1>1, <1>2
<1>4. AfterRunOnlyAside'
  <2>1. ASSUME NEW i \in 1..Len(toServer'), NEW j \in 1..Len(toServer'),
               i < j, toServer'[i] \in RunRequests
        PROVE  toServer'[j] \in Aside'
    <3>1. i + 1 \in 1..Len(toServer) /\ j + 1 \in 1..Len(toServer) /\ i + 1 < j + 1
      BY <1>1, <2>1
    <3>2. toServer[j + 1] \in Aside  BY <1>1, <2>1, <3>1
    <3>3. QED  BY <1>1, <3>2
  <2>2. ASSUME RunDue', NEW j \in 1..Len(toServer')
        PROVE  toServer'[j] \in Aside'
    <3>1. j + 1 \in 1..Len(toServer) /\ 1 \in 1..Len(toServer) /\ 1 < j + 1
      BY <1>1
    <3>2. toServer[j + 1] \in Aside  BY <1>1, <2>2, <3>1
    <3>3. QED  BY <1>1, <3>2
  <2>3. QED  BY <2>1, <2>2
<1>5. AsideOfRun' /\ StartsOnce'
  BY <1>1
<1>6. LaunchPrecedes'
  <2>1. ASSUME NEW i \in 1..(Len(toServer') + 1), LaunchBefore(i + 1)
        PROVE  LaunchBefore(i)'
    <3>1. CASE launched  BY <1>1, <3>1
    <3>2. ASSUME NEW k \in 1..i, toServer[k] = "launch"
          PROVE  LaunchBefore(i)'
      <4>1. CASE k = 1  BY <1>1, <3>2, <4>1
      <4>2. CASE k # 1
        <5>1. k - 1 \in 1..Len(toServer') /\ k - 1 \in 1..(i - 1)  BY <1>1, <4>2
        <5>2. toServer'[k - 1] = "launch"  BY <1>1, <3>2, <5>1
        <5>3. QED  BY <5>1, <5>2
      <4>3. QED  BY <4>1, <4>2
    <3>3. main \notin Launching  BY <1>1
    <3>4. QED  BY <2>1, <3>1, <3>2, <3>3
  <2>2. ASSUME NEW i \in 1..Len(toServer'), toServer'[i] = "configurationDone"
        PROVE  LaunchBefore(i)'
    <3>1. i + 1 \in 1..Len(toServer) /\ toServer[i + 1] = "configurationDone"  BY <1>1, <2>2
    <3>2. LaunchBefore(i + 1)  BY <3>1
    <3> HIDE DEF LaunchBefore
    <3>3. QED  BY <1>1, <2>1, <3>2
  <2>3. ASSUME phase' = "launched"  PROVE LaunchBefore(Len(toServer) + 1)'
    <3>1. LaunchBefore(Len(toServer) + 1)  BY <1>1, <2>3
    <3>2. Len(toServer') + 1 = Len(toServer) /\ Len(toServer) \in Nat  BY <1>1
    <3> HIDE DEF LaunchBefore
    <3>3. QED  BY <2>1, <3>1, <3>2
  <2>4. main' = "configurationDone" => launched'
    BY <1>1
  <2>5. ASSUME phase' = "configured", ~launched'
        PROVE  \E i \in 1..Len(toServer') : toServer'[i] = "configurationDone"
    <3>1. PICK k \in 1..Len(toServer) : toServer[k] = "configurationDone"  BY <1>1, <2>5
    <3>2. k # 1
      <4>1. CASE k = 1
         <5>1. LaunchBefore(1)  BY <3>1, <4>1
         <5>2. QED  BY <1>1, <2>5, <5>1
      <4>2. QED  BY <4>1
    <3>3. k - 1 \in 1..Len(toServer')  BY <1>1, <3>2
    <3>4. toServer'[k - 1] = "configurationDone"  BY <1>1, <3>1, <3>3
    <3>5. QED  BY <3>3, <3>4
  <2>6. QED  BY <2>2, <2>3, <2>4, <2>5
<1>7. DisconnectLast' /\ LeavingEnds'
  BY <1>1
<1>8. GoneIsSilent' /\ OnlyGoneTearsDown' /\ BreakpointsMerged'
  BY <1>0, <1>1
<1>9. QED  BY <1>3, <1>4, <1>5, <1>6, <1>7, <1>8

(* The steps of a breakpoint request, and those of a launch that are like  *)
(* them, concern only the breakpoints.                                     *)
LEMMA CoreRearm ==
  ASSUME Inv, Core, BreakpointsMerged',
         UNCHANGED <<cpuVars, flagVars, emu, hit, budget, session, wireVars, clientVars>>,
         \/ main \in BpCommands \cup {"clear", "rebuild"}
              /\ main' \in {"clear", "rebuild", "respond"}
         \/ main \in {"clearLaunch", "rebuildLaunch"}
              /\ main' \in {"clearLaunch", "rebuildLaunch", "entry"}
  PROVE  Core'
PROOF
<1>1. main \notin HandlesExec /\ main' \notin HandlesExec  OBVIOUS
<1>2. OneStopPerRun' /\ OneRun'  BY <1>1
<1>3. AfterRunOnlyAside' /\ AsideOfRun'  BY <1>1
<1>4. StartsOnce' /\ LaunchPrecedes'  OBVIOUS
<1>5. DisconnectLast' /\ LeavingEnds' /\ GoneIsSilent' /\ OnlyGoneTearsDown'  OBVIOUS
<1>6. QED  BY <1>2, <1>3, <1>4, <1>5

(* A step of the session thread keeps the invariant. *)
LEMMA CoreSession ==
  ASSUME Inv, Core, "eager" \notin Liberties, SessionThread
  PROVE  Core'
PROOF
<1>0. /\ Queued(toServer, RunRequests) \in Nat /\ Queued(toClient, StopEvents) \in Nat
      /\ BreakpointsMerged'
  BY Counts, MergedSession
<1>1. CASE LaunchReset
  BY <1>0, <1>1 DEF LaunchReset
<1>2. CASE LaunchEntry
  BY <1>0, <1>2 DEF LaunchEntry
<1>3. CASE Continue
  BY <1>0, <1>3 DEF Continue
<1>4. CASE ExchangeRunning
  BY <1>0, <1>4 DEF ExchangeRunning, FlagInv, RunningOwned, JoinIsSafe
<1>5. CASE JoinPrevious
  BY <1>0, <1>5 DEF JoinPrevious, JoinThread, FlagInv, RunningOwned, JoinIsSafe
<1>6. CASE Spawn
  BY <1>0, <1>6 DEF Spawn, SpawnThread, FlagInv, RunningOwned, JoinIsSafe
<1>7. CASE Pause
  BY <1>0, <1>7 DEF Pause
<1>8. CASE StepBegin
  BY <1>0, <1>8 DEF StepBegin
<1>9. CASE StepInstruction
  BY <1>0, <1>9 DEF StepInstruction
<1>10. CASE StepBack
  BY <1>0, <1>10 DEF StepBack, PopHistory
<1>11. CASE StackTrace
  BY <1>0, <1>11 DEF StackTrace
<1>11a. CASE Disassemble
  <2>1. /\ main = "disassemble" /\ main' \in {"respond", "endless"}
        /\ UNCHANGED <<dbgVars, budget, session, wireVars, clientVars>>
    BY <1>11a DEF Disassemble
  <2>2. OneStopPerRun' /\ OneRun' /\ AfterRunOnlyAside' /\ AsideOfRun'  BY <2>1
  <2>3. QED  BY <1>0, <2>1, <2>2
<1>11b. CASE SweepOn
  BY <1>0, <1>11b DEF SweepOn, vars
<1>12. CASE SetBreakpoints \/ SetInstructionBreakpoints \/ SetFunctionBreakpoints
  BY <1>0, <1>12, CoreRearm DEF SetBreakpoints, SetInstructionBreakpoints,
     SetFunctionBreakpoints
<1>13. CASE ClearBreakpoints
  BY <1>0, <1>13, CoreRearm DEF ClearBreakpoints
<1>14. CASE InsertBreakpoint
  BY <1>0, <1>14, CoreRearm DEF InsertBreakpoint
<1>15. CASE BreakpointsRebuilt
  BY <1>0, <1>15, CoreRearm DEF BreakpointsRebuilt
<1>16. CASE Disconnect
  BY <1>0, <1>16 DEF Disconnect
<1>17. CASE StopEmulation
  <2>1. /\ main \in {"stop", "stopLast"} /\ UNCHANGED <<launched, emu>>
        /\ main' = IF main = "stop" THEN "joinStop" ELSE "joinLast"
        /\ UNCHANGED <<cpuVars, bpVars, hit, budget, session, wireVars, clientVars>>
    BY <1>17 DEF StopEmulation
  <2>2. OneStopPerRun' /\ OneRun' /\ AfterRunOnlyAside' /\ AsideOfRun'  BY <2>1
  <2>3. QED  BY <1>0, <2>1, <2>2
<1>18. CASE JoinStopped
  BY <1>0, <1>18 DEF JoinStopped, JoinThread
<1>19. CASE Read
  BY <1>19, CoreRead
<1>20. CASE Respond
  <2>1. "response" \in Messages  BY DEF Messages
  <2>2. /\ main = "respond" /\ main' = "read"
        /\ toClient' = IF phase = "gone" THEN toClient ELSE Append(toClient, "response")
        /\ UNCHANGED <<dbgVars, budget, session, toServer, phase, view>>
    BY <1>20 DEF Respond, Write
  <2>3. Queued(toClient', StopEvents) = Queued(toClient, StopEvents)
    <3>1. toClient \in Seq(Messages) /\ "response" \notin StopEvents
      BY DEF StopEvents
    <3>2. Queued(Append(toClient, "response"), StopEvents) = Queued(toClient, StopEvents)
      BY <1>0, <2>1, <3>1, QueuedAppend
    <3>3. QED  BY <2>2, <3>2
  <2>4. OneStopPerRun' /\ OneRun'
    BY <1>0, <2>2, <2>3
  <2>5. StopSent' => StopSent
    BY <2>2 DEF StopEvents
  <2>6. AfterRunOnlyAside' /\ AsideOfRun'
    BY <2>2, <2>5
  <2>7. LeavingEnds'
    BY <2>2
  <2>8. QED
    BY <1>0, <2>2, <2>4, <2>6, <2>7
<1>21. CASE ConfigurationDone \/ Stepped
  <2>1. PICK m \in StopEvents :
         Write(m) /\ main \in {"configurationDone", "stepped"} /\ main' = "respond"
    BY <1>21 DEF ConfigurationDone, Stepped, StopEvents
  <2>2. UNCHANGED <<dbgVars, budget, session, toServer, phase, view>>
    BY <1>21 DEF ConfigurationDone, Stepped
  <2>3. m \in Messages  BY DEF Messages
  <2>4. phase # "gone" => /\ toClient' = Append(toClient, m)
                          /\ Queued(toClient', StopEvents) = Queued(toClient, StopEvents) + 1
    BY <2>1, <2>3, QueuedAppend DEF Write
  <2>5. phase = "gone" => toClient' = toClient
    BY <2>1 DEF Write
  <2>6. OneStopPerRun' /\ OneRun'
    BY <1>0, <2>1, <2>2, <2>4, <2>5
  <2>7. AfterRunOnlyAside' /\ AsideOfRun'
    BY <1>0, <2>1, <2>2, <2>4, <2>5
  <2>8. LeavingEnds'
    BY <2>1, <2>2, <2>4, <2>5
  <2>9. QED
    BY <1>0, <2>1, <2>2, <2>5, <2>6, <2>7, <2>8
<1>22. CASE EndOfFile
  BY <1>0, <1>22 DEF EndOfFile
<1>23. CASE ClearSender
  BY <1>0, <1>23 DEF ClearSender
<1>24. CASE DestroySession
  BY <1>0, <1>24 DEF DestroySession
<1>25. QED
  BY <1>1, <1>2, <1>3, <1>4, <1>5, <1>6, <1>7, <1>8, <1>9, <1>10, <1>11, <1>11a,
     <1>11b, <1>12, <1>13, <1>14, <1>15, <1>16, <1>17, <1>18, <1>19, <1>20, <1>21, <1>22, <1>23, <1>24 DEF
     SessionThread

(* A step of the emulation thread keeps it: until its stop is written the  *)
(* run is owed one, and only the client that has gone misses it.           *)
LEMMA CoreEmulation ==
  ASSUME Inv, Core, "eager" \notin Liberties, EmulationThread
  PROVE  Core'
PROOF
<1>00. UNCHANGED <<bpVars, main>>
  BY DEF EmulationThread, EmuRun, EmuTest, EmuStep, EmuLaunched, EmuBreakpoint, EmuPause,
     EmuClearPause, EmuHalt, EmuExit, EmuReport, EmuOut, EmuWrite
<1>0. /\ Queued(toServer, RunRequests) \in Nat /\ Queued(toClient, StopEvents) \in Nat
      /\ BreakpointsMerged'
  BY <1>00, Counts, MergedFrame DEF BreakpointsMerged, Rearming
<1>1. CASE EmuRun /\ UNCHANGED <<sessionVars, wireVars, clientVars>>
  <2>1. emu \in Active /\ emu' \in Active
    BY <1>1 DEF EmuRun, EmuTest, EmuStep, EmuLaunched, EmuBreakpoint, EmuPause,
       EmuClearPause, EmuHalt, EmuExit
  <2>2. UNCHANGED <<bpVars, launched>>
    BY <1>1 DEF EmuRun, EmuTest, EmuStep, EmuLaunched, EmuBreakpoint, EmuPause,
       EmuClearPause, EmuHalt, EmuExit
  <2>3. QED  BY <1>0, <1>1, <2>1, <2>2
<1>2. CASE EmuReport
  BY <1>0, <1>2 DEF EmuReport, SenderUsable
<1>3. CASE EmuOut
  BY <1>0, <1>3 DEF EmuOut, Undefined, SenderUsable, OutUsable
<1>4. CASE EmuWrite
  <2>1. CASE phase = "gone"
    BY <1>0, <1>4, <2>1 DEF EmuWrite, Undefined, OutUsable, Write
  <2>2. CASE phase # "gone"
    <3>1. PICK m \in StopEvents : toClient' = Append(toClient, m)
      BY <1>4, <2>2 DEF EmuWrite, OutUsable, Write, StopEvents
    <3>2. /\ emu = "write" /\ emu' = "done"
          /\ UNCHANGED <<cpuVars, bpVars, flagVars, hit, sessionVars, toServer, clientVars>>
      BY <1>4, <2>2 DEF EmuWrite, OutUsable
    <3>3. m \in Messages  BY DEF Messages
    <3>4. Queued(toClient', StopEvents) = Queued(toClient, StopEvents) + 1
      BY <3>1, <3>3, QueuedAppend
    <3>5. QED  BY <1>0, <2>2, <3>1, <3>2, <3>4
  <2>3. QED  BY <2>1, <2>2
<1>5. QED  BY <1>1, <1>2, <1>3, <1>4 DEF EmulationThread

(* A step of the client keeps it. *)
LEMMA CoreClient ==
  ASSUME Inv, Core, "eager" \notin Liberties, Client
  PROVE  Core'
PROOF
<1>1. UNCHANGED <<dbgVars, sessionVars>>
  BY ClientLeavesServer
<1>0. /\ Queued(toServer, RunRequests) \in Nat /\ Queued(toClient, StopEvents) \in Nat
      /\ BreakpointsMerged'
  BY <1>1, Counts, MergedFrame DEF BreakpointsMerged, Rearming
<1>2. ASSUME NEW c \in Commands, Send(c)
      PROVE  Core'
  <2>1. /\ phase # "gone" /\ Orderly(c)
        /\ toServer' = Append(toServer, c) /\ UNCHANGED toClient
        /\ phase' = CASE c = "launch" -> "launched"
                       [] c = "configurationDone" -> "configured"
                       [] c = "disconnect" -> "leaving"
                       [] OTHER -> phase
        /\ view' = IF c \in RunRequests THEN "running" ELSE view
    BY <1>2 DEF Send
  <2>2. /\ Queued(toServer', RunRequests) = Queued(toServer, RunRequests)
                                              + (IF c \in RunRequests THEN 1 ELSE 0)
    BY <1>2, <2>1, QueuedAppend
  <2>3. c \notin Aside => view # "running"
    BY <1>2, <2>1 DEF Orderly, Commands
  <2>4. view # "running" =>
          /\ main \notin HandlesExec /\ emu \notin Active /\ ~StopSent
          /\ \A i \in 1..Len(toServer) : toServer[i] \notin RunRequests
    BY <2>1, Owed
  <2>5. phase' # "gone"
    BY <2>1
  <2>6. OneStopPerRun' /\ OneRun'
    <3>1. CASE c \in RunRequests
      <4>1. view # "running" /\ view' = "running"  BY <2>1, <2>3, <3>1
      <4>2. Queued(toServer, RunRequests) = 0 /\ Queued(toClient, StopEvents) = 0
        BY <1>0, <2>1, <2>4, <4>1
      <4>3. QED  BY <1>1, <2>1, <2>2, <2>4, <3>1, <4>1, <4>2
    <3>2. CASE c \notin RunRequests
      BY <1>0, <1>1, <2>1, <2>2, <3>2
    <3>3. QED  BY <3>1, <3>2
  <2>7. /\ Len(toServer') = Len(toServer) + 1 /\ toServer'[Len(toServer) + 1] = c
        /\ \A i \in 1..Len(toServer) : toServer'[i] = toServer[i]
    BY <2>1
  <2>8. AfterRunOnlyAside'
    BY <1>1, <2>1, <2>3, <2>4, <2>7
  <2>9. AsideOfRun' /\ StartsOnce'
    BY <1>0, <1>1, <2>1 DEF Orderly
  <2>10. LaunchPrecedes'
    <3>1. ASSUME NEW i \in 1..(Len(toServer) + 1), LaunchBefore(i)
          PROVE  LaunchBefore(i)'
      BY <1>1, <2>7, <3>1
    <3>2. ASSUME NEW i \in 1..Len(toServer'), toServer'[i] = "configurationDone"
          PROVE  LaunchBefore(i)'
      <4>1. CASE i \in 1..Len(toServer)  BY <2>7, <3>1, <3>2, <4>1
      <4>2. CASE i = Len(toServer) + 1
        <5>1. phase = "launched"  BY <2>1, <2>7, <3>2, <4>2 DEF Orderly
        <5>2. LaunchBefore(i)  BY <4>2, <5>1
        <5>3. QED  BY <3>1, <4>2, <5>2
      <4>3. QED  BY <2>7, <3>2, <4>1, <4>2
    <3>3. ASSUME phase' = "launched"  PROVE LaunchBefore(Len(toServer) + 1)'
      <4>1. c = "launch" \/ phase = "launched"  BY <2>1, <3>3
      <4>2. CASE c = "launch"
        <5>1. Len(toServer) + 1 \in 1..(Len(toServer') + 1 - 1)  BY <2>7
        <5>2. QED  BY <2>7, <4>2, <5>1
      <4>3. CASE phase = "launched"
        <5>1. LaunchBefore(Len(toServer) + 1)  BY <4>3
        <5>2. CASE \E k \in 1..Len(toServer) : toServer[k] = "launch"  BY <2>7, <5>2
        <5>3. QED  BY <1>1, <5>1, <5>2
      <4>4. QED  BY <4>1, <4>2, <4>3
    <3>4. main' = "configurationDone" => launched'
      BY <1>1
    <3>5. ASSUME phase' = "configured"
          PROVE  launched' \/ \E i \in 1..Len(toServer') : toServer'[i] = "configurationDone"
      <4>1. c = "configurationDone" \/ phase = "configured"  BY <2>1, <3>5
      <4>2. CASE c = "configurationDone"
        <5>1. Len(toServer) + 1 \in 1..Len(toServer')  BY <2>7
        <5>2. QED  BY <2>7, <4>2, <5>1
      <4>3. CASE phase = "configured"  BY <1>1, <2>7, <4>3
      <4>4. QED  BY <4>1, <4>2, <4>3
    <3>6. QED  BY <3>2, <3>3, <3>4, <3>5
  <2>11. DisconnectLast' /\ LeavingEnds'
    BY <1>0, <1>1, <2>1, <2>7 DEF Orderly
  <2>12. GoneIsSilent' /\ OnlyGoneTearsDown' /\ BreakpointsMerged'
    BY <1>0, <1>1, <2>1 DEF Orderly
  <2>13. QED  BY <2>6, <2>8, <2>9, <2>10, <2>11, <2>12
<1>3. CASE Receive
  <2>1. /\ toClient # << >> /\ phase # "gone" /\ toClient' = Tail(toClient)
        /\ view' = IF Head(toClient) \in StopEvents THEN "stopped" ELSE view
        /\ UNCHANGED <<dbgVars, sessionVars, toServer, phase>>
    BY <1>3 DEF Receive
  <2>2. /\ Queued(toClient, StopEvents) = Queued(toClient', StopEvents)
                                            + (IF Head(toClient) \in StopEvents THEN 1 ELSE 0)
        /\ Queued(toClient', StopEvents) \in Nat
    <3>1. toClient' \in Seq(Messages)  BY <2>1
    <3>2. QED  BY <2>1, <3>1, QueuedTail, QueuedType
  <2>3. OneStopPerRun' /\ OneRun'
    BY <1>0, <2>1, <2>2
  <2>4. StopSent' => StopSent
    BY <2>1
  <2>5. AfterRunOnlyAside' /\ AsideOfRun'
    BY <2>1, <2>4
  <2>6. StartsOnce'
    <3>1. CASE Head(toClient) \notin StopEvents
      BY <2>1, <3>1
    <3>2. CASE Head(toClient) \in StopEvents
      <4>1. StopSent  BY <2>1, <3>2
      <4>2. phase \notin {"new", "launched"}  BY <1>0, <2>1, <2>2, <3>2
      <4>3. main \notin Launching /\ \A i \in 1..Len(toServer) : toServer[i] # "launch"
        BY <4>1
      <4>4. QED  BY <2>1, <4>2, <4>3
    <3>3. QED  BY <3>1, <3>2
  <2>7. LaunchPrecedes' /\ DisconnectLast'
    BY <2>1
  <2>8. LeavingEnds'
    BY <2>1
  <2>9. GoneIsSilent' /\ OnlyGoneTearsDown' /\ BreakpointsMerged'
    BY <1>0, <2>1
  <2>10. QED  BY <2>3, <2>5, <2>6, <2>7, <2>8, <2>9
<1>4. CASE Close
  BY <1>0, <1>4 DEF Close
<1>5. CASE Drop
  <2>1. /\ phase' = "gone" /\ toClient' = << >> /\ UNCHANGED view
        /\ toServer' \in {toServer, << >>}
    BY <1>5 DEF Drop
  <2>2. CASE toServer' = toServer
    BY <1>0, <1>1, <2>1, <2>2
  <2>3. CASE toServer' = << >>
    BY <1>0, <1>1, <2>1, <2>3, QueuedEmpty
  <2>4. QED  BY <2>1, <2>2, <2>3
<1>6. QED  BY <1>2, <1>3, <1>4, <1>5 DEF Client

(* A new connection starts with nothing on its way. *)
LEMMA CoreAccept ==
  ASSUME Accept
  PROVE  Core'
PROOF
<1>1. /\ emu' = "none" /\ main' = "read" /\ toServer' = << >> /\ toClient' = << >>
      /\ phase' = "new" /\ view' = "starting" /\ session' = "open"
      /\ allBps' = {} /\ bps' = NoBps /\ settled' = {}
  BY DEF Accept, FreshRunControl
<1>2. BreakpointsMerged'  BY <1>1 DEF NoBps, MergedBps, BreakpointsMerged, Rearming
<1>3. QED  BY <1>1, <1>2, QueuedEmpty

(* So does the first one. *)
LEMMA CoreInit == Init => Core
PROOF
<1>1. Init => BreakpointsMerged
  BY DEF Init, RunControlInit, NoBps, MergedBps, BreakpointsMerged, Rearming
<1>2. QED  BY <1>1, QueuedEmpty DEF Init, RunControlInit

(* Every step keeps the invariant. *)
LEMMA CoreStep ==
  ASSUME Inv, Core, "eager" \notin Liberties, [Next]_vars
  PROVE  Core'
PROOF
<1>1. CASE SessionThread    BY <1>1, CoreSession
<1>2. CASE EmulationThread  BY <1>2, CoreEmulation
<1>3. CASE Accept           BY <1>3, CoreAccept
<1>4. CASE Client           BY <1>4, CoreClient
<1>5. CASE UNCHANGED vars
  <2>1. BreakpointsMerged'  BY <1>5, MergedFrame DEF vars, BreakpointsMerged, Rearming
  <2>2. QED  BY <1>5, <2>1 DEF vars
<1>6. QED  BY <1>1, <1>2, <1>3, <1>4, <1>5 DEF Next

HIDE DEF Core, OneStopPerRun, StopsOwed, OneRun, AfterRunOnlyAside, AsideOfRun, RunDue,
         StopSent, StartsOnce, LaunchPrecedes, LaunchBefore, DisconnectLast, LeavingEnds,
         GoneIsSilent, OnlyGoneTearsDown, Live, Aside, AsideStates,
         Launching, Disconnecting, Teardown, Active, RunRequests, HandlesExec, ExecCommands,
         BpCommands, ReadCommands, Goto, dbgVars, cpuVars, bpVars, flagVars, sessionVars,
         wireVars, clientVars, Inv, TypeInv, TypeOK, ThreadFinished

(* The invariant holds while no request is sent out of turn. *)
THEOREM CoreInvariance ==
  ASSUME "eager" \notin Liberties
  PROVE  Spec => [](Inv /\ Core)
PROOF
<1>1. Inv /\ Core /\ [Next]_vars => Inv' /\ Core'  BY InvStep, CoreStep
<1>2. Init => Inv /\ Core  BY TypeInit, FlagInit, CoreInit DEF Inv
<1>3. QED  BY <1>1, <1>2, PTL DEF Spec


-----------------------------------------------------------------------------
(* What the steps of the two threads leave alone.                          *)

USE DEF SessionThread, Read, Respond, LaunchReset, LaunchEntry, ConfigurationDone,
        Continue, ExchangeRunning, JoinPrevious, Spawn, Pause, StepBegin,
        StepInstruction, StepBack, Stepped, StackTrace, Disassemble, SweepOn,
        SetBreakpoints, SetInstructionBreakpoints, SetFunctionBreakpoints, ReplaceList,
        ClearBreakpoints, InsertBreakpoint, BreakpointsRebuilt, Disconnect,
        StopEmulation, JoinStopped, EndOfFile, ClearSender, DestroySession,
        JoinThread, SpawnThread, ThreadFinished, EmulationThread, EmuRun, EmuTest,
        EmuStep, EmuLaunched, EmuBreakpoint, EmuPause, EmuClearPause, EmuHalt,
        EmuExit, EmuReport, EmuOut, EmuWrite, Undefined, Active, Aside, AsideStates,
        Live, Teardown, Goto, dbgVars, cpuVars, bpVars, flagVars, sessionVars,
        wireVars, clientVars, vars

(* The session thread does not touch what the client knows, writes nothing *)
(* that reports a stop of the other thread, and changes where that thread  *)
(* is only by joining it when it has ended and by starting it.             *)
LEMMA SessionFrame ==
  ASSUME SessionThread
  PROVE  /\ UNCHANGED <<phase, view>>
         /\ UNCHANGED toClient \/ \E m \in {"response", "entry", "step"} : Write(m)
         /\ \/ emu' = emu
            \/ emu \notin Active /\ emu' \notin Active
            \/ emu' = "test" /\ ~hit'
<1>1. UNCHANGED <<phase, view>>  OBVIOUS
<1>2. UNCHANGED toClient \/ \E m \in {"response", "entry", "step"} : Write(m)  OBVIOUS
<1>3. \/ emu' = emu
      \/ emu \notin Active /\ emu' \notin Active
      \/ emu' = "test" /\ ~hit'
  OBVIOUS
<1>4. QED  BY <1>1, <1>2, <1>3

(* A request that is in order while the program runs leaves the CPU and,   *)
(* unless it changes breakpoints, the breakpoints alone.                   *)
LEMMA AsideFrame ==
  ASSUME SessionThread, main \in AsideStates, ~Live
  PROVE  /\ UNCHANGED <<pc, bps, hit>>
         /\ emu' = emu \/ (emu \notin Active /\ emu' \notin Active)
         /\ UNCHANGED toClient \/ Write("response")
<1>1. main \in {"pause", "disconnect", "read", "respond", "stop", "joinStop"} \cup Teardown
  OBVIOUS
<1>2. QED  BY <1>1

(* The session thread moves the CPU in a launch, in a step and in a step   *)
(* back, and nowhere else.                                                 *)
LEMMA SessionMovesCpu ==
  ASSUME Inv, SessionThread
  PROVE  /\ main \in {"launch", "entry"} => pc' \in {0, Entry}
         /\ main \in {"stepping", "stepBack"} => pc' \in Addr
         /\ main \notin {"launch", "entry", "stepping", "stepBack"} => pc' = pc
<1>1. pc \in Addr /\ RunControlTypeOK
  BY DEF Inv, TypeInv, TypeOK, RunControlTypeOK
<1>2. QED  BY <1>1, ExecuteType, PopType

(* The emulation thread acts only while it has not reported its stop, and  *)
(* changes neither a list of breakpoints, nor launched_, nor the session.  *)
LEMMA EmulationFrame ==
  ASSUME EmulationThread
  PROVE  /\ emu \in Active
         /\ UNCHANGED <<bps, allBps, launched, sessionVars, toServer,
                        phase, view>>
         /\ UNCHANGED pc \/ (emu = "step" /\ ExecuteInstruction)
<1>1. emu \in Active  OBVIOUS
<1>2. UNCHANGED <<bps, allBps, launched, sessionVars, toServer,
                  phase, view>>
  OBVIOUS
<1>3. UNCHANGED pc \/ (emu = "step" /\ ExecuteInstruction)  OBVIOUS
<1>4. QED  BY <1>1, <1>2, <1>3

(* Only its own test takes the emulation thread past a breakpoint. *)
LEMMA PassesByTest ==
  ASSUME [Next]_vars, emu = "breakpoint", emu' = "pause"
  PROVE  pc \notin allBps
<1>1. ~SessionThread /\ ~Accept /\ ~Client /\ ~UNCHANGED vars
  BY DEF Accept, FreshRunControl, Client, Send, Receive, Close, Drop, vars
<1>2. EmulationThread  BY <1>1 DEF Next
<1>3. QED  BY <1>2

HIDE DEF SessionThread, Read, Respond, LaunchReset, LaunchEntry, ConfigurationDone,
         Continue, ExchangeRunning, JoinPrevious, Spawn, Pause, StepBegin,
         StepInstruction, StepBack, Stepped, StackTrace, Disassemble, SweepOn,
         SetBreakpoints, SetInstructionBreakpoints, SetFunctionBreakpoints, ReplaceList,
         ClearBreakpoints, InsertBreakpoint, BreakpointsRebuilt,
         Disconnect, StopEmulation, JoinStopped, EndOfFile, ClearSender,
         DestroySession, JoinThread, SpawnThread, ThreadFinished, EmulationThread,
         EmuRun, EmuTest, EmuStep, EmuLaunched, EmuBreakpoint, EmuPause,
         EmuClearPause, EmuHalt, EmuExit, EmuReport, EmuOut, EmuWrite, Undefined,
         Active, Aside, AsideStates, Live, Teardown, Goto, dbgVars, cpuVars, bpVars,
         flagVars, sessionVars, wireVars, clientVars, vars

-----------------------------------------------------------------------------
(* The two threads are never in the CPU or memory at the same time: while  *)
(* the emulation thread runs the session thread is given only requests     *)
(* that do not touch it, although no handler sees to it.                   *)
THEOREM OrderlyCpuExclusive ==
  ASSUME "eager" \notin Liberties
  PROVE  Spec => []CpuExclusive
PROOF
<1>1. Core => CpuExclusive
  BY DEF Core, AsideOfRun, CpuExclusive, UsesCpu, Active, AsideStates, Aside, Teardown,
     BpCommands, ReadCommands
<1>2. QED  BY <1>1, CoreInvariance, PTL

(* Every request to run is answered by exactly one stopped event, for a    *)
(* connection of any length.                                               *)
THEOREM OrderlyOneStopPerRun ==
  ASSUME "eager" \notin Liberties
  PROVE  Spec => []OneStopPerRun
PROOF
<1>1. Core => OneStopPerRun  BY DEF Core
<1>2. QED  BY <1>1, CoreInvariance, PTL

(* Once disconnect is answered the thread has been joined and nothing      *)
(* follows the response.                                                   *)
THEOREM OrderlyQuietAfterDisconnect ==
  ASSUME "eager" \notin Liberties
  PROVE  Spec => []QuietAfterDisconnect
PROOF
<1>1. Inv /\ Core => QuietAfterDisconnect
  <2> SUFFICES ASSUME Inv, Core, phase = "leaving", Outstanding = 0
               PROVE  toClient = << >> /\ ThreadFinished
    BY DEF QuietAfterDisconnect
  <2>1. /\ toServer = << >> /\ main \in {"read"} \cup Teardown
        /\ \A i \in 1..Len(toClient) : toClient[i] # "response"
    BY NothingOutstanding
  <2>2. main \notin Disconnecting \cup {"respond"}
    BY <2>1 DEF Disconnecting, Teardown
  <2>3. toClient \in Seq(Messages)  BY DEF Inv, TypeInv, TypeOK
  <2>4. QED  BY <2>1, <2>2, <2>3 DEF Core, LeavingEnds
<1>2. QED  BY <1>1, CoreInvariance, PTL

(* A run never passes a breakpoint that stays set: between the test of the *)
(* thread and the four lists lies all_breakpoints_, and no rebuild of it   *)
(* overlaps a run.                                                         *)
THEOREM OrderlyBreakpointHolds ==
  ASSUME Liberties \cap {"eager", "live"} = {}
  PROVE  Spec => BreakpointHolds
PROOF
<1>1. "eager" \notin Liberties /\ ~Live  BY DEF Live
<1>2. ASSUME Core, [Next]_vars, emu = "breakpoint", emu' = "pause"
      PROVE  pc \notin settled
  <2>1. main \in AsideStates
    BY <1>2 DEF Core, AsideOfRun, Active
  <2>2. allBps = settled
    BY <1>1, <1>2, <2>1 DEF Core, BreakpointsMerged, Rearming, AsideStates, Aside, Teardown
  <2>3. QED  BY <1>2, <2>2, PassesByTest
<1>3. Inv /\ Core /\ [Next]_vars =>
        [emu = "breakpoint" /\ emu' = "pause" => pc \notin settled]_vars
  BY <1>2
<1>4. Spec => [](Inv /\ Core)  BY <1>1, CoreInvariance
<1>5. QED  BY <1>3, <1>4, PTL DEF Spec, BreakpointHolds

-----------------------------------------------------------------------------
(* The reasons of stops.  What hit_breakpoint says of the CPU is settled   *)
(* at the thread's test and must stay true until the client reads it.      *)

ReasonTrue ==
  /\ emu \in InLoop => ~hit
  /\ emu \in {"pause", "clearPause", "halt"} => pc \notin MergedBps
  /\ emu \in {"exit"} \cup Reporting /\ phase = "configured" => (hit <=> pc \in MergedBps)
  /\ StopReasonTrue

(* The session thread keeps the reasons true: with a run or its stop on    *)
(* the way it disturbs neither the CPU nor the breakpoints, and otherwise  *)
(* there is no reason to keep.                                             *)
LEMMA ReasonSession ==
  ASSUME Inv, Core, ~Live, ReasonTrue, SessionThread
  PROVE  ReasonTrue'
PROOF
<1>1. toClient \in Seq(Messages)  BY DEF Inv, TypeInv, TypeOK
<1>2. UNCHANGED phase  BY SessionFrame
<1>3. CASE emu \in Active \/ StopSent
  <2>1. main \in AsideStates  BY <1>3 DEF Core, AsideOfRun
  <2>2. /\ UNCHANGED <<pc, bps, hit>>
        /\ emu' = emu \/ (emu \notin Active /\ emu' \notin Active)
        /\ UNCHANGED toClient \/ Write("response")
    BY <2>1, AsideFrame
  <2>3. StopReasonTrue'
    BY <1>1, <1>2, <2>2 DEF ReasonTrue, StopReasonTrue, MergedBps, Write
  <2>4. QED  BY <1>2, <2>2, <2>3 DEF ReasonTrue, MergedBps, Active
<1>4. CASE emu \notin Active /\ ~StopSent
  <2>1. emu' \in Active => emu' = "test" /\ ~hit'
    BY <1>4, SessionFrame
  <2>2. UNCHANGED toClient \/ \E m \in {"response", "entry", "step"} : Write(m)
    BY SessionFrame
  <2>3. \A i \in 1..Len(toClient') : toClient'[i] \notin {"breakpoint", "pause"}
    BY <1>1, <1>4, <2>2 DEF Write, StopSent, StopEvents
  <2>4. QED  BY <2>1, <2>3 DEF ReasonTrue, StopReasonTrue, Active
<1>5. QED  BY <1>3, <1>4

(* The emulation thread keeps them true: it leaves its loop by the test,   *)
(* by a pause or a HALT after a test that failed, or for a disconnect.     *)
LEMMA ReasonEmulation ==
  ASSUME Inv, Core, ~Live, ReasonTrue, EmulationThread
  PROVE  ReasonTrue'
PROOF
<1> USE DEF MergedBps, cpuVars, bpVars, flagVars, sessionVars, wireVars, clientVars
<1>1. toClient \in Seq(Messages)  BY DEF Inv, TypeInv, TypeOK
<1>2. emu \in Active  BY EmulationFrame
<1>3. allBps = MergedBps
  BY <1>2 DEF Core, BreakpointsMerged, Rearming, AsideOfRun, AsideStates, Aside, Live, Teardown
<1>4. phase = "configured" => ~StopSent
  BY <1>2, Owed DEF Core
<1>5. phase = "configured" => launched /\ (emu \in Executing => running)
  BY <1>2 DEF Core, AfterRunOnlyAside, RunDue, LaunchPrecedes, Aside, Live,
     DisconnectLast, Disconnecting,
     OnlyGoneTearsDown, Teardown, Inv, FlagInv, FlagKept
<1>6. CASE EmuRun /\ UNCHANGED <<sessionVars, wireVars, clientVars>>
  <2> USE DEF ReasonTrue, StopReasonTrue
  <2>1. CASE EmuTest       BY <1>5, <1>6, <2>1 DEF EmuTest
  <2>2. CASE EmuStep       BY <1>4, <1>6, <2>2 DEF EmuStep, StopSent, StopEvents
  <2>3. CASE EmuLaunched   BY <1>5, <1>6, <2>3 DEF EmuLaunched
  <2>4. CASE EmuBreakpoint BY <1>3, <1>6, <2>4 DEF EmuBreakpoint
  <2>5. CASE EmuPause      BY <1>6, <2>5 DEF EmuPause
  <2>6. CASE EmuClearPause BY <1>6, <2>6 DEF EmuClearPause
  <2>7. CASE EmuHalt       BY <1>6, <2>7 DEF EmuHalt
  <2>8. CASE EmuExit       BY <1>6, <2>8 DEF EmuExit
  <2>9. QED  BY <1>6, <2>1, <2>2, <2>3, <2>4, <2>5, <2>6, <2>7, <2>8 DEF EmuRun
<1>7. CASE EmuReport
  BY <1>7 DEF EmuReport, ReasonTrue, StopReasonTrue
<1>8. CASE EmuOut
  BY <1>8 DEF EmuOut, Undefined, ReasonTrue, StopReasonTrue
<1>9. CASE EmuWrite
  <2>1. UNCHANGED toClient \/ Write(IF hit THEN "breakpoint" ELSE "pause")
    BY <1>9 DEF EmuWrite, Undefined
  <2>2. /\ emu = "write" /\ emu' \in {"done", "crashed"}
        /\ UNCHANGED <<pc, bps, hit, phase>>
    BY <1>9 DEF EmuWrite, Undefined
  <2>3. phase = "configured" => (hit <=> pc \in MergedBps)
    BY <2>2 DEF ReasonTrue
  <2>4. StopReasonTrue'
    BY <1>1, <2>1, <2>2, <2>3 DEF ReasonTrue, StopReasonTrue, Write
  <2>5. QED  BY <2>2, <2>4 DEF ReasonTrue
<1>10. QED  BY <1>6, <1>7, <1>8, <1>9 DEF EmulationThread

(* The client keeps them true: before configurationDone there is no stop.  *)
LEMMA ReasonClient ==
  ASSUME Inv, Core, "eager" \notin Liberties, ReasonTrue, Client
  PROVE  ReasonTrue'
PROOF
<1> USE DEF MergedBps, dbgVars, cpuVars, bpVars
<1>1. toClient \in Seq(Messages)  BY DEF Inv, TypeInv, TypeOK
<1>2. UNCHANGED <<pc, bps, emu, hit>>
  BY ClientLeavesServer
<1>3. ASSUME NEW c \in Commands, Send(c)
      PROVE  ReasonTrue'
  <2>1. UNCHANGED toClient  BY <1>3 DEF Send
  <2>2. CASE phase' = "configured" => phase = "configured"
    BY <1>2, <2>1, <2>2 DEF ReasonTrue, StopReasonTrue
  <2>3. CASE c = "configurationDone"
    <3>1. phase = "launched"  BY <1>3, <2>3 DEF Send, Orderly, ExecCommands, BpCommands, ReadCommands
    <3>2. emu \notin Active /\ ~StopSent
      BY <3>1, Owed DEF Core, StartsOnce
    <3>3. QED  BY <1>2, <2>1, <3>2 DEF ReasonTrue, StopReasonTrue, Active, StopSent, StopEvents
  <2>4. QED  BY <1>3, <2>2, <2>3 DEF Send
<1>4. CASE Receive
  BY <1>1, <1>2, <1>4 DEF Receive, ReasonTrue, StopReasonTrue
<1>5. CASE Close \/ Drop
  BY <1>2, <1>5 DEF Close, Drop, ReasonTrue, StopReasonTrue
<1>6. QED  BY <1>3, <1>4, <1>5 DEF Client

(* "breakpoint" is reported with the CPU at a breakpoint and "pause" with  *)
(* the CPU at none, at the moment the client reads it.                     *)
THEOREM OrderlyStopReasonTrue ==
  ASSUME Liberties \cap {"eager", "live"} = {}
  PROVE  Spec => []StopReasonTrue
PROOF
<1>1. "eager" \notin Liberties /\ ~Live  BY DEF Live
<1>2. Init => ReasonTrue
  BY DEF Init, RunControlInit, ReasonTrue, StopReasonTrue
<1>3. Inv /\ Core /\ ReasonTrue /\ [Next]_vars => ReasonTrue'
  <2> SUFFICES ASSUME Inv, Core, ReasonTrue, [Next]_vars  PROVE ReasonTrue'
    OBVIOUS
  <2>1. CASE SessionThread    BY <1>1, <2>1, ReasonSession
  <2>2. CASE EmulationThread  BY <1>1, <2>2, ReasonEmulation
  <2>3. CASE Accept
    BY <2>3 DEF Accept, FreshRunControl, ReasonTrue, StopReasonTrue
  <2>4. CASE Client           BY <1>1, <2>4, ReasonClient
  <2>5. CASE UNCHANGED vars
    BY <2>5 DEF vars, dbgVars, cpuVars, bpVars, wireVars, clientVars, ReasonTrue,
       StopReasonTrue, MergedBps
  <2>6. QED  BY <2>1, <2>2, <2>3, <2>4, <2>5 DEF Next
<1>4. Spec => [](Inv /\ Core)  BY <1>1, CoreInvariance
<1>5. ReasonTrue => StopReasonTrue  BY DEF ReasonTrue
<1>6. QED  BY <1>2, <1>3, <1>4, <1>5, PTL DEF Spec

-----------------------------------------------------------------------------
(* The server keeps the promise of Debuggee, and takes a connection down   *)
(* safely, for a client that does not drop the connection either.  The     *)
(* promise is a refinement: the program under debug moves only when the    *)
(* client takes it to be running or starting.                              *)

(* A client that closes after the answer to disconnect leaves nothing      *)
(* behind: no thread, no request, and a session thread that only reads.    *)
ClosedIdle ==
  phase = "gone" => ThreadFinished /\ toServer = << >> /\ main \in {"read"} \cup Teardown

-----------------------------------------------------------------------------
(* What the session thread does once the connection is gone.               *)

USE DEF SessionThread, Read, Respond, LaunchReset, LaunchEntry, ConfigurationDone,
        Continue, ExchangeRunning, JoinPrevious, Spawn, Pause, StepBegin,
        StepInstruction, StepBack, Stepped, StackTrace, Disassemble, SweepOn,
        SetBreakpoints, SetInstructionBreakpoints, SetFunctionBreakpoints, ReplaceList,
        ClearBreakpoints, InsertBreakpoint, BreakpointsRebuilt, Disconnect,
        StopEmulation, JoinStopped, EndOfFile, ClearSender, DestroySession, JoinThread,
        ThreadFinished, Teardown, ClosedIdle, Goto, dbgVars, wireVars, clientVars,
        sessionVars, vars

(* With the thread joined and nothing to read it finds the end of the      *)
(* connection and tears the session down, and starts nothing.              *)
LEMMA ClosedIdleSession ==
  ASSUME ClosedIdle, SessionThread
  PROVE  ClosedIdle'
PROOF
<1>1. UNCHANGED phase  BY SessionFrame
<1>2. CASE phase = "gone" /\ main = "read"      BY <1>1, <1>2 DEF Commands
<1>3. CASE phase = "gone" /\ main \in Teardown  BY <1>1, <1>3
<1>4. CASE phase # "gone"                       BY <1>1, <1>4
<1>5. QED  BY <1>2, <1>3, <1>4

HIDE DEF SessionThread, Read, Respond, LaunchReset, LaunchEntry, ConfigurationDone,
         Continue, ExchangeRunning, JoinPrevious, Spawn, Pause, StepBegin,
         StepInstruction, StepBack, Stepped, StackTrace, Disassemble, SweepOn,
         SetBreakpoints, SetInstructionBreakpoints, SetFunctionBreakpoints, ReplaceList,
         ClearBreakpoints, InsertBreakpoint, BreakpointsRebuilt, Disconnect,
         StopEmulation, JoinStopped, EndOfFile, ClearSender, DestroySession, JoinThread,
         ThreadFinished, Teardown, ClosedIdle, Goto, dbgVars, wireVars, clientVars,
         sessionVars, vars

(* A connection is closed when its disconnect is answered, and stays idle. *)
LEMMA ClosedIdleStep ==
  ASSUME Inv, Core, ClosedIdle, "drop" \notin Liberties, [Next]_vars
  PROVE  ClosedIdle'
PROOF
<1> USE DEF ClosedIdle, ThreadFinished, dbgVars, wireVars, clientVars, sessionVars
<1>1. CASE SessionThread  BY <1>1, ClosedIdleSession
<1>2. CASE EmulationThread
  BY <1>2, EmulationFrame DEF Active
<1>3. CASE Accept  BY <1>3 DEF Accept
<1>4. CASE Client
  <2>1. ASSUME NEW c \in Commands, Send(c)  PROVE ClosedIdle'
    BY <2>1 DEF Send
  <2>2. CASE Receive  BY <2>2 DEF Receive
  <2>3. CASE Close
    <3>1. toServer = << >> /\ main \in {"read"} \cup Teardown
      BY <2>3, NothingOutstanding DEF Close
    <3>2. ThreadFinished
      BY <2>3, <3>1 DEF Close, Core, LeavingEnds, Disconnecting, Teardown
    <3>3. QED  BY <2>3, <3>1, <3>2 DEF Close
  <2>4. ~Drop  BY DEF Drop
  <2>5. QED  BY <1>4, <2>1, <2>2, <2>3, <2>4 DEF Client
<1>5. CASE UNCHANGED vars  BY <1>5 DEF vars
<1>6. QED  BY <1>1, <1>2, <1>3, <1>4, <1>5 DEF Next

(* The three invariants together, for the client of this module. *)
THEOREM ClosedInvariance ==
  ASSUME Liberties \cap {"eager", "drop"} = {}
  PROVE  Spec => [](Inv /\ Core /\ ClosedIdle)
PROOF
<1>1. "eager" \notin Liberties /\ "drop" \notin Liberties  OBVIOUS
<1>2. Init => ClosedIdle  BY DEF Init, ClosedIdle
<1>3. Inv /\ Core /\ ClosedIdle /\ [Next]_vars => ClosedIdle'  BY <1>1, ClosedIdleStep
<1>4. Spec => [](Inv /\ Core)  BY <1>1, CoreInvariance
<1>5. QED  BY <1>2, <1>3, <1>4, PTL DEF Spec

(* The emulation thread never uses the sender or the socket of a session   *)
(* that is being destroyed: it has been joined before.                     *)
THEOREM OrderlyTeardownSafe ==
  ASSUME Liberties \cap {"eager", "drop"} = {}
  PROVE  Spec => []TeardownSafe
PROOF
<1>1. Core /\ ClosedIdle => TeardownSafe
  BY DEF Core, ClosedIdle, OnlyGoneTearsDown, TeardownSafe, ThreadFinished, SenderUsable,
         OutUsable
<1>2. QED  BY <1>1, ClosedInvariance, PTL

-----------------------------------------------------------------------------
(* The step simulation of Debuggee.  Its status is the client's view and   *)
(* its cpu the program counter.                                            *)

statusVars == <<Status, pc>>

(* A step of the emulation thread is a Move: it runs only for a client     *)
(* that waits for the stop of its run.                                     *)
LEMMA EmulationMoves ==
  ASSUME Inv, Core, ClosedIdle, EmulationThread
  PROVE  [Promise!Next]_statusVars
PROOF
<1>1. UNCHANGED <<phase, view>> /\ emu \in Active
  BY EmulationFrame
<1>2. Status = "running"
  BY <1>1, Owed DEF Core, ClosedIdle, ThreadFinished, Active, Status
<1>3. pc' = pc \/ ExecuteInstruction  BY EmulationFrame
<1>4. pc' = pc \/ pc' \in Addr
  BY <1>3, ExecuteType DEF Inv, TypeInv, TypeOK, RunControlTypeOK
<1>5. QED  BY <1>1, <1>2, <1>4 DEF Promise!Next, Promise!Move, Status, statusVars

(* A step of the session thread is a Move when it resets the CPU for a     *)
(* launch, steps it or takes it back, and otherwise a stutter.             *)
LEMMA SessionMoves ==
  ASSUME Inv, Core, ClosedIdle, SessionThread
  PROVE  [Promise!Next]_statusVars
PROOF
<1>1. UNCHANGED <<phase, view>>  BY SessionFrame
<1>2. CASE main \in {"launch", "entry"}
  <2>1. pc' \in {0, Entry}  BY <1>2, SessionMovesCpu
  <2>2. phase # "gone"  BY <1>2 DEF ClosedIdle, Teardown
  <2>3. view \in {"starting", "running"}
    BY <1>2 DEF Core, StartsOnce, Launching, Inv, TypeInv, TypeOK
  <2>4. QED  BY <1>1, <2>1, <2>2, <2>3 DEF Promise!Next, Promise!Move, Status, statusVars
<1>3. CASE main \in {"stepping", "stepBack"}
  <2>1. pc' \in Addr  BY <1>3, SessionMovesCpu
  <2>2. phase # "gone"  BY <1>3 DEF ClosedIdle, Teardown
  <2>3. view = "running"  BY <1>3, <2>2, Owed DEF Core, HandlesExec, ExecCommands
  <2>4. QED  BY <1>1, <2>1, <2>2, <2>3 DEF Promise!Next, Promise!Move, Status, statusVars
<1>4. CASE main \notin {"launch", "entry", "stepping", "stepBack"}
  <2>1. UNCHANGED pc  BY <1>4, SessionMovesCpu
  <2>2. QED  BY <1>1, <2>1 DEF Status, statusVars
<1>5. QED  BY <1>2, <1>3, <1>4

(* A step of the client is a Go when it asks for a run, a Stop when it     *)
(* reads one, a Leave when it closes, and otherwise a stutter.             *)
LEMMA ClientStep ==
  ASSUME Inv, Core, ClosedIdle, Liberties \cap {"eager", "drop"} = {}, Client
  PROVE  [Promise!Next]_statusVars
PROOF
<1>1. UNCHANGED pc  BY ClientLeavesServer DEF dbgVars, cpuVars
<1>2. view \in {"starting", "running", "stopped"} /\ toClient \in Seq(Messages)
  BY DEF Inv, TypeInv, TypeOK
<1>3. ASSUME NEW c \in Commands, Send(c)
      PROVE  [Promise!Next]_statusVars
  <2>1. phase # "gone" /\ phase' # "gone"
    BY <1>3 DEF Send
  <2>2. CASE c \in RunRequests
    <3>1. view # "running" /\ view' = "running"
      BY <1>3, <2>2 DEF Send, Orderly, Core, StartsOnce, RunRequests, ExecCommands,
         BpCommands, ReadCommands
    <3>2. QED  BY <1>1, <1>2, <2>1, <3>1 DEF Promise!Next, Promise!Go, Status, statusVars
  <2>3. CASE c \notin RunRequests
    BY <1>1, <1>3, <2>1, <2>3 DEF Send, RunRequests, Status, statusVars
  <2>4. QED  BY <2>2, <2>3
<1>4. CASE Receive
  <2>1. CASE Head(toClient) \in StopEvents
    <3>1. StopSent  BY <1>2, <1>4, <2>1 DEF Receive, StopSent
    <3>2. phase # "gone" /\ phase' = phase /\ view = "running" /\ view' = "stopped"
      BY <1>4, <2>1, <3>1, Owed DEF Core, Receive
    <3>3. QED  BY <1>1, <3>2 DEF Promise!Next, Promise!Stop, Status, statusVars
  <2>2. CASE Head(toClient) \notin StopEvents
    BY <1>1, <1>4, <2>2 DEF Receive, Status, statusVars
  <2>3. QED  BY <2>1, <2>2
<1>5. CASE Close
  <2>1. Status # "gone" /\ Status' = "gone"
    BY <1>2, <1>5 DEF Close, Status
  <2>2. QED  BY <1>1, <2>1 DEF Promise!Next, Promise!Leave, statusVars
<1>6. ~Drop  BY DEF Drop
<1>7. QED  BY <1>3, <1>4, <1>5, <1>6 DEF Client

(* From the stop the client has read until its next request to run the     *)
(* program does not move, whatever thread the instructions are executed    *)
(* by: the server implements Debuggee.                                     *)
THEOREM OrderlyFrozenWhileStopped ==
  ASSUME Liberties \cap {"eager", "drop"} = {}
  PROVE  Spec => FrozenWhileStopped
PROOF
<1>1. Init => Promise!Init
  BY DEF Init, RunControlInit, Promise!Init, Status
<1>2. Inv /\ Core /\ ClosedIdle /\ [Next]_vars => [Promise!Next]_statusVars
  <2> SUFFICES ASSUME Inv, Core, ClosedIdle, [Next]_vars
               PROVE  [Promise!Next]_statusVars
    OBVIOUS
  <2>1. CASE SessionThread    BY <2>1, SessionMoves
  <2>2. CASE EmulationThread  BY <2>2, EmulationMoves
  <2>3. CASE Client           BY <2>3, ClientStep
  <2>4. CASE Accept
    <3>1. Status = "gone"
      BY <2>4 DEF Accept, Inv, FlagInv, Core, OnlyGoneTearsDown, Teardown, Status
    <3>2. Status' = "starting" /\ pc' = 0
      BY <2>4 DEF Accept, FreshRunControl, Status
    <3>3. QED  BY <3>1, <3>2 DEF Promise!Next, Promise!Renew, Promise!Init
  <2>5. CASE UNCHANGED vars
    BY <2>5 DEF vars, dbgVars, cpuVars, clientVars, Status, statusVars
  <2>6. QED  BY <2>1, <2>2, <2>3, <2>4, <2>5 DEF Next
<1>3. Spec => [](Inv /\ Core /\ ClosedIdle)  BY ClosedInvariance
<1>4. QED  BY <1>1, <1>2, <1>3, PTL DEF Spec, FrozenWhileStopped, Promise!Spec, statusVars
=============================================================================
