----------------------------- MODULE DebugServer ----------------------------
(***************************************************************************)
(* One debug server and its client, connection after connection: the       *)
(* session thread (main.cpp, dap::session::run, the handlers of            *)
(* dap::target::run, the z80_target methods they call), the emulation      *)
(* thread of RunControl, and a DAP client at the other end of a TCP        *)
(* connection.                                                             *)
(*                                                                         *)
(* The session thread serves requests one at a time, in the order they     *)
(* were sent.  Its control point is the name of the request right after    *)
(* reading it, then a name for each later access to state that the         *)
(* emulation thread shares.  Messages to the client are a FIFO, because    *)
(* both threads write whole messages under output_mutex_.                  *)
(***************************************************************************)
EXTENDS RunControl, FiniteSets

CONSTANTS
  BpChoices,    \* BpChoices[l]: what a request may put in the list l
  StepLimit,    \* iterations of the loops in step(), step_in(), step_out()
  MaxPending,   \* requests the client sends ahead of their responses
  Liberties     \* what the client does beyond an orderly DAP session

ASSUME BpChoicesAssumption == BpChoices \in [BpLists -> (SUBSET SUBSET Addr) \ {{}}]
ASSUME StepLimitAssumption == StepLimit \in Nat \ {0}
ASSUME MaxPendingAssumption == MaxPending \in Nat \ {0}

(* "eager": sends any request at any time, also while the program runs.    *)
(* "live": changes breakpoints while the program runs.                     *)
(* "drop": closes the connection without waiting for a disconnect.         *)
ASSUME LibertiesAssumption == Liberties \subseteq {"eager", "live", "drop"}

VARIABLES
  main,       \* where the session thread is
  budget,     \* instructions left to the step being executed
  session,    \* how far the dispatcher is torn down
  toServer,   \* requests sent and not read
  toClient,   \* responses and events written and not received
  phase,      \* client: what it has asked of the session so far
  view        \* client: whether it takes the program to be stopped

sessionVars == <<main, budget, session>>
wireVars    == <<toServer, toClient>>
clientVars  == <<phase, view>>
vars == <<dbgVars, sessionVars, wireVars, clientVars>>

(* The requests that touch run control; "next" stands for stepIn and       *)
(* stepOut too, "stackTrace" for every request that reads the CPU or       *)
(* memory and returns (scopes, variables, readMemory, evaluate), and       *)
(* "disassemble", which may not return, for itself.                        *)
ExecCommands == {"continue", "next", "stepBack"}
BpCommands   == {"setBreakpoints", "setInstructionBreakpoints", "setFunctionBreakpoints"}
ReadCommands == {"stackTrace", "disassemble"}
Commands     == ExecCommands \cup BpCommands \cup ReadCommands \cup
                {"launch", "configurationDone", "pause", "disconnect"}

StopEvents == {"entry", "step", "breakpoint", "pause"}   \* reason of "stopped"
Messages   == StopEvents \cup {"response"}

Teardown   == {"clearSender", "destroySession", "stopLast", "joinLast", "closed"}
MainStates == Commands \cup Teardown \cup
  {"read", "clearLaunch", "rebuildLaunch", "entry", "exchange", "join", "spawn",
   "stepping", "stepped", "endless", "clear", "rebuild", "stop", "joinStop", "respond"}

(* Where the session thread uses the CPU or memory. *)
UsesCpu == {"launch", "entry", "next", "stepping", "stepBack", "endless"} \cup ReadCommands

(* Control points, flags and messages stay in their ranges, and the        *)
(* history within kMaxHistory (dbg.cpp:206-210).                           *)
TypeOK ==
  /\ RunControlTypeOK
  /\ main \in MainStates
  /\ budget \in 0..StepLimit
  /\ session \in {"open", "outCleared", "senderCleared", "destroyed"}
  /\ toServer \in Seq(Commands)
  /\ toClient \in Seq(Messages)
  /\ phase \in {"new", "launched", "configured", "leaving", "gone"}
  /\ view \in {"starting", "running", "stopped"}

Init ==
  /\ RunControlInit
  /\ main = "read"
  /\ budget = 0
  /\ session = "open"
  /\ toServer = << >>
  /\ toClient = << >>
  /\ phase = "new"
  /\ view = "starting"

-----------------------------------------------------------------------------
(* Writing a message; one written to a closed socket is lost. *)

Write(m) ==
  toClient' = IF phase = "gone" THEN toClient ELSE Append(toClient, m)

Goto(next) == main' = next

(* A request replaces one list of breakpoints.  What was armed and is in   *)
(* none of the lists any more has been taken back.                         *)
ReplaceList(l) ==
  /\ \E as \in BpChoices[l] : bps' = [bps EXCEPT ![l] = as]
  /\ settled' = settled \cap MergedBps'
  /\ UNCHANGED allBps

(* The session thread waits for a request. *)
Read ==
  /\ main = "read"
  /\ toServer # << >>
  /\ Goto(Head(toServer))
  /\ toServer' = Tail(toServer)
  /\ UNCHANGED <<dbgVars, budget, session, toClient, clientVars>>

Respond ==
  /\ main = "respond"
  /\ Write("response")
  /\ Goto("read")
  /\ UNCHANGED <<dbgVars, budget, session, toServer, clientVars>>

-----------------------------------------------------------------------------
(* launch: reset, load, and with a program resolve the source breakpoints  *)
(* anew before the entry point is set.                                     *)

LaunchReset ==
  /\ main = "launch"
  /\ pc' = 0
  /\ \/ ReplaceList("source") /\ Goto("clearLaunch")
     \/ Goto("entry") /\ UNCHANGED bpVars      \* no program given
  /\ UNCHANGED <<history, flagVars, emu, hit, budget, session, wireVars, clientVars>>

LaunchEntry ==
  /\ main = "entry"
  /\ pc' = Entry
  /\ launched' = TRUE
  /\ Goto("respond")
  /\ UNCHANGED <<history, bpVars, pauseRequested, running, emu, hit, budget,
                 session, wireVars, clientVars>>

(* configurationDone: the entry stop is reported only after a launch. *)
ConfigurationDone ==
  /\ main = "configurationDone"
  /\ IF launched THEN Write("entry") ELSE UNCHANGED toClient
  /\ Goto("respond")
  /\ UNCHANGED <<dbgVars, budget, session, toServer, clientVars>>

-----------------------------------------------------------------------------
(* continue: resume() is clear_pause(); start_emulation(). *)

Continue ==
  /\ main = "continue"
  /\ pauseRequested' = FALSE
  /\ Goto("exchange")
  /\ UNCHANGED <<cpuVars, bpVars, launched, running, emu, hit, budget, session,
                 wireVars, clientVars>>

ExchangeRunning_IgnoresResult ==
  /\ main = "exchange"
  /\ running' = TRUE
  /\ Goto("join")
  /\ UNCHANGED <<cpuVars, bpVars, pauseRequested, launched, emu, hit, budget,
                 session, wireVars, clientVars>>

(* if (emulation_running_.exchange(true)) return; *)
ExchangeRunning ==
  /\ main = "exchange"
  /\ running' = TRUE
  /\ Goto(IF running THEN "respond" ELSE "join")
  /\ UNCHANGED <<cpuVars, bpVars, pauseRequested, launched, emu, hit, budget,
                 session, wireVars, clientVars>>

JoinPrevious ==
  /\ main = "join"
  /\ JoinThread
  /\ Goto("spawn")
  /\ UNCHANGED <<cpuVars, bpVars, flagVars, hit, budget, session, wireVars, clientVars>>

Spawn ==
  /\ main = "spawn"
  /\ SpawnThread
  /\ Goto("respond")
  /\ UNCHANGED <<cpuVars, bpVars, flagVars, budget, session, wireVars, clientVars>>

Pause_ReportsStop ==
  /\ main = "pause"
  /\ pauseRequested' = TRUE
  /\ Write("pause")
  /\ Goto("respond")
  /\ UNCHANGED <<cpuVars, bpVars, launched, running, emu, hit, budget, session,
                 toServer, clientVars>>

(* request_pause() *)
Pause ==
  /\ main = "pause"
  /\ pauseRequested' = TRUE
  /\ Goto("respond")
  /\ UNCHANGED <<cpuVars, bpVars, launched, running, emu, hit, budget, session,
                 wireVars, clientVars>>

-----------------------------------------------------------------------------
(* next, stepIn, stepOut: a snapshot, then instructions until the step's   *)
(* own condition holds or its loop runs out; Stepping has the conditions.  *)

StepBegin ==
  /\ main = "next"
  /\ PushHistory
  /\ budget' = StepLimit
  /\ Goto("stepping")
  /\ UNCHANGED <<pc, bpVars, flagVars, emu, hit, session, wireVars, clientVars>>

StepInstruction ==
  /\ main = "stepping"
  /\ ExecuteInstruction
  /\ budget' = budget - 1
  /\ main' \in IF budget' = 0 THEN {"stepped"} ELSE {"stepping", "stepped"}
  /\ UNCHANGED <<history, bpVars, flagVars, emu, hit, session, wireVars, clientVars>>

StepBack ==
  /\ main = "stepBack"
  /\ PopHistory
  /\ Goto("stepped")
  /\ UNCHANGED <<bpVars, flagVars, emu, hit, budget, session, wireVars, clientVars>>

(* stopped("step"), before the response *)
Stepped ==
  /\ main = "stepped"
  /\ Write("step")
  /\ Goto("respond")
  /\ UNCHANGED <<dbgVars, budget, session, toServer, clientVars>>

(* A request that reads the CPU or memory. *)
StackTrace ==
  /\ main = "stackTrace"
  /\ Goto("respond")
  /\ UNCHANGED <<dbgVars, budget, session, wireVars, clientVars>>

(* disassemble: its backward sweep counts in 16 bits and never ends near   *)
(* the top of memory (Disassembler says for which addresses).              *)
Disassemble ==
  /\ main = "disassemble"
  /\ main' \in {"respond", "endless"}
  /\ UNCHANGED <<dbgVars, budget, session, wireVars, clientVars>>

(* ... then the loop goes round, and no other request is read.             *)
SweepOn == main = "endless" /\ UNCHANGED vars

-----------------------------------------------------------------------------
(* A breakpoint request replaces its own list, then rebuild_all_breakpoints *)
(* clears all_breakpoints_ and inserts the four lists one after the other.  *)

(* A path of the listing replaces asm_breakpoints_ instead. *)
SetBreakpoints ==
  /\ main = "setBreakpoints"
  /\ ReplaceList("source") \/ ReplaceList("asm")
  /\ Goto("clear")
  /\ UNCHANGED <<cpuVars, flagVars, emu, hit, budget, session, wireVars, clientVars>>

SetInstructionBreakpoints ==
  /\ main = "setInstructionBreakpoints"
  /\ ReplaceList("instruction")
  /\ Goto("clear")
  /\ UNCHANGED <<cpuVars, flagVars, emu, hit, budget, session, wireVars, clientVars>>

SetFunctionBreakpoints ==
  /\ main = "setFunctionBreakpoints"
  /\ ReplaceList("function")
  /\ Goto("clear")
  /\ UNCHANGED <<cpuVars, flagVars, emu, hit, budget, session, wireVars, clientVars>>

(* all_breakpoints_.clear() *)
ClearBreakpoints ==
  /\ main \in {"clear", "clearLaunch"}
  /\ allBps' = {}
  /\ Goto(IF main = "clear" THEN "rebuild" ELSE "rebuildLaunch")
  /\ UNCHANGED <<cpuVars, bps, settled, flagVars, emu, hit, budget, session,
                 wireVars, clientVars>>

NextToInsert_SourceOnly == bps["source"] \ allBps

(* What the first list that is not all in the set yet still lacks.         *)
NextToInsert ==
  {a \in MergedBps \ allBps :
     \E i \in DOMAIN MergeOrder :
       /\ a \in bps[MergeOrder[i]]
       /\ \A j \in 1..(i - 1) : bps[MergeOrder[j]] \subseteq allBps}

InsertBreakpoint ==
  /\ main \in {"rebuild", "rebuildLaunch"}
  /\ \E a \in NextToInsert : allBps' = allBps \cup {a}
  /\ UNCHANGED <<cpuVars, bps, settled, flagVars, emu, hit, sessionVars, wireVars,
                 clientVars>>

BreakpointsRebuilt ==
  /\ main \in {"rebuild", "rebuildLaunch"}
  /\ NextToInsert = {}
  /\ settled' = MergedBps
  /\ Goto(IF main = "rebuild" THEN "respond" ELSE "entry")
  /\ UNCHANGED <<cpuVars, bps, allBps, flagVars, emu, hit, budget, session, wireVars,
                 clientVars>>

-----------------------------------------------------------------------------
(* disconnect: set_launched(false); stop_emulation().  The session goes on *)
(* reading requests until the client closes the connection.                *)

Disconnect_NoStop ==
  /\ main = "disconnect"
  /\ launched' = FALSE
  /\ Goto("respond")
  /\ UNCHANGED <<cpuVars, bpVars, pauseRequested, running, emu, hit, budget,
                 session, wireVars, clientVars>>

Disconnect ==
  /\ main = "disconnect"
  /\ launched' = FALSE
  /\ Goto("stop")
  /\ UNCHANGED <<cpuVars, bpVars, pauseRequested, running, emu, hit, budget,
                 session, wireVars, clientVars>>

StopEmulation_NoJoin ==
  /\ main \in {"stop", "stopLast"}
  /\ running' = FALSE
  /\ Goto(IF main = "stop" THEN "respond" ELSE "closed")
  /\ UNCHANGED <<cpuVars, bpVars, pauseRequested, launched, emu, hit, budget,
                 session, wireVars, clientVars>>

(* stop_emulation, called by disconnect and by ~dbg *)
StopEmulation ==
  /\ main \in {"stop", "stopLast"}
  /\ running' = FALSE
  /\ Goto(IF main = "stop" THEN "joinStop" ELSE "joinLast")
  /\ UNCHANGED <<cpuVars, bpVars, pauseRequested, launched, emu, hit, budget,
                 session, wireVars, clientVars>>

JoinStopped ==
  /\ main \in {"joinStop", "joinLast"}
  /\ JoinThread
  /\ Goto(IF main = "joinStop" THEN "respond" ELSE "closed")
  /\ UNCHANGED <<cpuVars, bpVars, flagVars, hit, budget, session, wireVars, clientVars>>

-----------------------------------------------------------------------------
(* End of file: out_ = nullptr, event_sender_ = nullptr, the dispatcher is *)
(* destroyed with its mutexes, and only then ~dbg stops the thread.        *)

EndOfFile ==
  /\ main = "read"
  /\ toServer = << >>
  /\ phase = "gone"
  /\ session' = "outCleared"
  /\ Goto("clearSender")
  /\ UNCHANGED <<dbgVars, budget, wireVars, clientVars>>

ClearSender ==
  /\ main = "clearSender"
  /\ session' = "senderCleared"
  /\ Goto("destroySession")
  /\ UNCHANGED <<dbgVars, budget, wireVars, clientVars>>

DestroySession ==
  /\ main = "destroySession"
  /\ session' = "destroyed"
  /\ Goto("stopLast")
  /\ UNCHANGED <<dbgVars, budget, wireVars, clientVars>>

(* main(): the next connection gets a target of its own. *)
Accept ==
  /\ main = "closed"
  /\ FreshRunControl
  /\ main' = "read" /\ budget' = 0 /\ session' = "open"
  /\ toServer' = << >> /\ toClient' = << >>
  /\ phase' = "new" /\ view' = "starting"

-----------------------------------------------------------------------------
(* The emulation thread reports its stop: queue_event, send_event,         *)
(* send_event_raw, send_event_direct.  event_sender_ and out_ are tested   *)
(* without a lock and used after the test.  Using either once the session  *)
(* thread has taken it away is undefined: the thread may get away with it  *)
(* or take the process down.                                               *)

SenderUsable == session \in {"open", "outCleared"}
OutUsable    == session = "open"

Undefined == emu' \in {"done", "crashed"} /\ UNCHANGED toClient

(* if (event_sender_) *)
EmuReport ==
  /\ emu = "report"
  /\ emu' = IF SenderUsable THEN "out" ELSE "done"
  /\ UNCHANGED <<cpuVars, bpVars, flagVars, hit, sessionVars, wireVars, clientVars>>

(* ... event_sender_(json); if (!out_) return; *)
EmuOut ==
  /\ emu = "out"
  /\ IF SenderUsable
     THEN emu' = (IF OutUsable THEN "write" ELSE "done") /\ UNCHANGED toClient
     ELSE Undefined
  /\ UNCHANGED <<cpuVars, bpVars, flagVars, hit, sessionVars, toServer, clientVars>>

(* lock_guard lock(output_mutex_); *out_ << ... *)
EmuWrite ==
  /\ emu = "write"
  /\ IF OutUsable
     THEN emu' = "done" /\ Write(IF hit THEN "breakpoint" ELSE "pause")
     ELSE Undefined
  /\ UNCHANGED <<cpuVars, bpVars, flagVars, hit, sessionVars, toServer, clientVars>>

-----------------------------------------------------------------------------
(* The client.  An orderly one launches, configures, sends execution and   *)
(* state requests only while it takes the program to be stopped, pauses    *)
(* while it runs, and closes the connection when everything it asked for,  *)
(* a disconnect last, has been answered.                                   *)

(* How many messages of a channel are among S. *)
Queued(s, S) == Cardinality({i \in 1..Len(s) : s[i] \in S})

Outstanding ==
  Len(toServer) + (IF main \in {"read"} \cup Teardown THEN 0 ELSE 1)
    + Queued(toClient, {"response"})

Orderly(c) ==
  \/ c = "launch" /\ phase = "new"
  \/ c = "configurationDone" /\ phase = "launched"
  \/ c \in ExecCommands \cup ReadCommands /\ phase = "configured" /\ view = "stopped"
  \/ c = "pause" /\ phase = "configured" /\ view = "running"
  \/ c \in BpCommands /\ phase \in {"new", "launched", "configured"}
       /\ (view # "running" \/ "live" \in Liberties)
  \/ c = "disconnect" /\ phase \in {"launched", "configured"}

Send(c) ==
  /\ phase # "gone"
  /\ Outstanding < MaxPending
  /\ Orderly(c) \/ "eager" \in Liberties
  /\ toServer' = Append(toServer, c)
  /\ phase' = CASE c = "launch" -> "launched"
                [] c = "configurationDone" -> "configured"
                [] c = "disconnect" -> "leaving"
                [] OTHER -> phase
  /\ view' = IF c \in ExecCommands \cup {"configurationDone"} THEN "running" ELSE view
  /\ UNCHANGED <<dbgVars, sessionVars, toClient>>

Receive ==
  /\ phase # "gone"
  /\ toClient # << >>
  /\ view' = IF Head(toClient) \in StopEvents THEN "stopped" ELSE view
  /\ toClient' = Tail(toClient)
  /\ UNCHANGED <<dbgVars, sessionVars, toServer, phase>>

Close ==
  /\ phase = "leaving" /\ Outstanding = 0
  /\ phase' = "gone"
  /\ toClient' = << >>
  /\ UNCHANGED <<dbgVars, sessionVars, toServer, view>>

(* A reset connection also loses the requests not read yet. *)
Drop ==
  /\ "drop" \in Liberties
  /\ phase # "gone"
  /\ phase' = "gone"
  /\ toClient' = << >>
  /\ toServer' \in {toServer, << >>}
  /\ UNCHANGED <<dbgVars, sessionVars, view>>

-----------------------------------------------------------------------------
SessionThread ==
  \/ Read \/ Respond
  \/ LaunchReset \/ LaunchEntry \/ ConfigurationDone
  \/ Continue \/ ExchangeRunning \/ JoinPrevious \/ Spawn \/ Pause
  \/ StepBegin \/ StepInstruction \/ StepBack \/ Stepped
  \/ StackTrace \/ Disassemble \/ SweepOn
  \/ SetBreakpoints \/ SetInstructionBreakpoints \/ SetFunctionBreakpoints
  \/ ClearBreakpoints \/ InsertBreakpoint \/ BreakpointsRebuilt
  \/ Disconnect \/ StopEmulation \/ JoinStopped
  \/ EndOfFile \/ ClearSender \/ DestroySession

EmulationThread ==
  \/ EmuRun /\ UNCHANGED <<sessionVars, wireVars, clientVars>>
  \/ EmuReport \/ EmuOut \/ EmuWrite

Client == (\E c \in Commands : Send(c)) \/ Receive \/ Close \/ Drop

(* A crash takes every thread of the server with it. *)
Next ==
  \/ emu # "crashed" /\ (SessionThread \/ EmulationThread \/ Accept)
  \/ Client

(* Both threads are scheduled, and the client reads what it is sent. *)
Fairness ==
  /\ WF_vars(emu # "crashed" /\ SessionThread)
  /\ WF_vars(EmulationThread)
  /\ WF_vars(Receive)

Spec     == Init /\ [][Next]_vars
FairSpec == Spec /\ Fairness

-----------------------------------------------------------------------------
(* Safety, for every client. *)

(* The running flag is owned: while it is set, a thread is on its way to   *)
(* clear it or the session thread is about to start one.  A flag left set  *)
(* would make start_emulation ignore every later continue (dbg.cpp:42).    *)
RunningOwned ==
  running => emu \in InLoop \cup {"exit"} \/ main \in {"join", "spawn"}

(* continue joins only a thread that has already cleared the flag: were it *)
(* still to clear it, the new thread would stop before its first           *)
(* instruction.  And no thread object is overwritten before it is joined,  *)
(* which would terminate the process (dbg.cpp:45-48).                      *)
JoinIsSafe ==
  /\ main \in {"join", "spawn"} => running /\ emu \notin InLoop \cup {"exit"}
  /\ main = "spawn" => emu = "none"

(* The last thread has been joined when the target is destroyed, so none   *)
(* outlives the dbg it uses (emulator.cpp:36-42).                          *)
NoThreadOutlivesTarget == main = "closed" => emu = "none" /\ ~running

(* The emulation thread uses the event sender and the output stream only   *)
(* while the session keeps them (target.cpp:473-474, dap.cpp:306).         *)
TeardownSafe ==
  /\ emu = "out" => SenderUsable
  /\ emu = "write" => OutUsable

-----------------------------------------------------------------------------
(* Safety, for an orderly client. *)

(* The two threads are never in the CPU or memory at the same time: what   *)
(* the manual promises of requests for its state (USING-LIBDAP.md:402-404) *)
(* holds if the client asks between a stop and the next execution request, *)
(* and no handler sees to it.                                              *)
CpuExclusive == ~ (main \in UsesCpu /\ emu \in InLoop)

(* Stops owed to the client: execution requests on their way, a run under  *)
(* way and stopped events on their way back.                               *)
HandlesExec ==
  ExecCommands \cup {"configurationDone", "exchange", "join", "spawn",
                     "stepping", "stepped"}
StopsOwed ==
  Queued(toServer, ExecCommands \cup {"configurationDone"})
    + (IF main \in HandlesExec THEN 1 ELSE 0)
    + (IF emu \in InLoop \cup {"exit"} \cup Reporting THEN 1 ELSE 0)
    + Queued(toClient, StopEvents)

(* Every request to run is answered by exactly one stopped event: while    *)
(* the client waits one is owed, and none is owed when it does not wait.   *)
OneStopPerRun == phase # "gone" => StopsOwed = IF view = "running" THEN 1 ELSE 0

(* The reason of a stop is true when the client gets it: "breakpoint" with *)
(* the CPU at a breakpoint, "pause" with the CPU at none (dbg.cpp:59-66).  *)
StopReasonTrue ==
  phase = "configured" =>
    \A i \in 1..Len(toClient) :
      /\ toClient[i] = "breakpoint" => pc \in MergedBps
      /\ toClient[i] = "pause" => pc \notin MergedBps

(* The response to disconnect is the last word: the thread has been joined *)
(* and no event comes after it (z80_target.cpp:200-204).                   *)
QuietAfterDisconnect ==
  phase = "leaving" /\ Outstanding = 0 => toClient = << >> /\ ThreadFinished

(* A run never passes a breakpoint that stays set: one that an earlier     *)
(* request has armed and that is still in a list, whatever the request     *)
(* being served replaces (dbg.cpp:59 against dbg.cpp:147-151).             *)
BreakpointHolds ==
  [][emu = "breakpoint" /\ emu' = "pause" => pc \notin settled]_vars

-----------------------------------------------------------------------------
(* Liveness, under FairSpec. *)

(* A pause sent during a run stops that run, wherever the thread is; one   *)
(* that a later run request has overtaken is not a pause of that run:      *)
(* resume() clears it.  Behind a disassemble that never ends it waits for  *)
(* good, like every other request.                                         *)
PauseSent ==
  /\ view = "running"
  /\ \E i \in 1..Len(toServer) :
       /\ toServer[i] = "pause"
       /\ \A j \in i..Len(toServer) : toServer[j] \notin ExecCommands
PauseStops == PauseSent ~> view = "stopped" \/ main = "endless"

(* A disconnect is answered, whatever the program is doing, unless a       *)
(* disassemble before it never ends.                                       *)
DisconnectAnswered ==
  phase = "leaving" ~> main = "endless" \/ (phase = "leaving" /\ Outstanding = 0)

(* While the connection lasts the session thread always gets back to       *)
(* reading requests, for any client: no join waits for a thread that does  *)
(* not end (dbg.cpp:45-46 and 87-92).  A disassemble that never ends       *)
(* (z80_target.cpp:571) is the one thing that keeps it.                    *)
SessionResponsive ==
  main \notin {"read", "endless"} \cup Teardown ~> main \in {"read", "endless"}

-----------------------------------------------------------------------------
(* What a client may rely on, stated in Debuggee without threads or wire.  *)
Status == IF phase = "gone" THEN "gone" ELSE view
Promise == INSTANCE Debuggee WITH status <- Status, cpu <- pc
FrozenWhileStopped == Promise!Spec
=============================================================================
