# udap: a TLA+ verification project

udap is a debug server for Z80 programs. An editor connects over TCP, speaks the Debug Adapter Protocol
(DAP), and debugs a program that runs in an emulated Z80 inside the server. This directory holds TLA+ models
of the server, TLC configurations that check them on small instances, and proofs that TLAPS checks for every
value of the constants.

The C++ code is in `src/`, `lib/` and `include/` of the repository; `PROJECT.json` puts `src/` before every path,
for the checkout itself.

| To do | Command, in this directory |
|---|---|
| check a model | `tlc -config Orderly.cfg MCDebugServer.tla` |
| check a module of proofs | `tlapm DebugServerProofs.tla` |

`PROJECT.json` lists the runs, the source lines each definition stands for, the hazards, the findings and the
theorems.

## 1. Inventory

### Threads and objects

`main` (src/main.cpp) accepts one connection at a time. For each it makes a `z80_target`, which owns a `dbg`,
which owns the emulated CPU, its 64 KB of memory and at most one background thread. Two threads matter:

* the **session thread**, which reads a request, runs its handler to the end, writes the response, and reads
  the next one; all of `target.cpp` and `z80_target.cpp` runs here;
* the **emulation thread**, which `continue` starts, which executes instructions until something stops it, and
  which then writes a `stopped` event to the same connection.

They share the CPU, the memory, the merged breakpoint set, three flags, the event sender and the output stream.
Only the flags are atomic, and only the writing of a whole message is under a mutex. Everything else relies on
the client asking for nothing but a pause or a disconnect while the program runs.

### Components

| Component | State | Operations | What makes it correct |
|---|---|---|---|
| run control (`dbg.cpp`, `emulator.cpp`) | CPU and memory, history, breakpoint lists, `pause_requested_`, `launched_`, `emulation_running_`, the thread | start, stop, pause, join, the loop of the thread, history | one thread at most; every run ends in one truthful stop; no breakpoint passed; no join that does not return |
| session and requests (`dap.cpp`, `target.cpp`) | `out_`, `event_sender_`, dispatcher, `response_seq_`, `launched`, `scope_names`, source references | read, dispatch, one handler a command, events, teardown | one response to each request, in order and by name; scopes and sources are the ones meant; nothing used after it is destroyed |
| stepping (`z80_target.cpp`) | local variables of a step, history | over, into, out, back | over stays in its frame, out leaves it, back restores |
| breakpoints (`z80_target.cpp`, `dbg.cpp`) | lines by file, four lists of addresses, their union | four requests, launch | what is verified is armed, what is removed is not |
| debug information (`cdb_parser.cpp`, `dbg.cpp`) | modules, symbols, three indices | parse, index, look up | both directions of the index agree; the variables in scope are those of the function |
| MAP parser | none | parse | every symbol found |
| IHX loader, launch options | memory, entry point | load | bytes where the records say, nothing left of an earlier program, entry at the start |
| disassembler and listing | listing addresses, text, name | build, disassemble | terminates; every line an instruction; the row asked for is where the client looks |
| source delivery | `path_to_ref`, `ref_to_path`, the source roots | stackTrace, source, setBreakpoints | a reference leads back to its path across launches, and the path to the file it was given for |
| variables and evaluate | none of their own | read registers, symbols, memory | all views of one byte agree; a name shown leads back to its place |
| socket stream | two buffers | underflow, overflow, sync | every byte once, in order |
| response and request types, text utilities | none | construct, parse | round trips |
| z80ex, sockpp, nlohmann json | external | | taken as their callers use them |

### How they interact

A request is a message read by `session::run`, dispatched to a handler of `target`, which calls a virtual
method of `z80_target`, which calls `dbg`. An event goes the other way: from `dbg` (either thread) through a
callback set at construction to `target::send_event_raw`, from there through `event_sender_` to the
dispatcher, and through `out_` to the socket. The launch is where debug information meets breakpoints: it
parses CDB and MAP, builds the indices, resolves the source breakpoints again and builds the listing.

### What is hard here

* **Interleaving and atomicity.** A breakpoint request clears and refills the set that the emulation thread is
  testing. The end of a connection takes the event sender and the output stream away from a thread that may be
  about to use them.
* **Ordering.** The stopped event of a run is unordered with the responses of the session thread, but must
  not follow the response to `disconnect`; the running flag must be cleared before the event is written.
* **Races between reasons to stop.** Pause, breakpoint, HALT and disconnect can coincide, and a pause may be
  left over for the next run.
* **Liveness.** The session thread joins the emulation thread, and a disassembly near the top of memory has no end.
* **Protocol sequences.** Breakpoints come before or after the launch, in any order; launches may repeat and
  disconnects precede them; requests are sent ahead of the answers they depend on.
* **Partial failure.** Arguments of a wrong type or a source text that is not UTF-8 throw out of the handler
  and end the server; a frame that cannot be read ends the connection.
* **Numeric edges.** Stack pointers are compared as signed integers; the entry point is cut to 16 bits; a
  sweep of a `uint16_t` towards an address near 0xFFFF does not end; views are cut at the top of memory.
* **Stale state.** Source references and scope numbers outlive the stop and the program they were given for;
  a path is searched under the roots of the launch in force; lists and the history outlive a launch.

`PROJECT.json` lists 40 hazards at their lines, with the properties that cover them; those that no property
covers carry the reason.

## 2. Modules

| Module | Models | Extends |
|---|---|---|
| `RunControl` | `dbg`'s run control: the emulation thread, one action per access to shared state | |
| `DebugServer` | the session thread, the wire, the client, connections one after the other | `RunControl` |
| `Debuggee` | the abstract promise: a stopped program does not move | |
| `Stepping` | the step commands, one action per iteration of their loops | |
| `DebugInfo` | CDB records to modules, indices, lookups, variables in scope, listing: pure operators | |
| `Breakpoints` | the breakpoint requests and what a launch does to them | `DebugInfo` |
| `Session` | the session thread from the frame to the response, over several connections | |
| `Dialogue` | the abstract promise: one response to each request, in order and by name | |
| `IhxLoader` | the records of a program file to memory and entry point: pure operators | |
| `Disassembler` | the rows of a disassembly and the lines of the listing: pure operators | `IhxLoader` |
| `Values` | C variables, registers, symbols, readMemory, evaluate: pure operators | `IhxLoader` |
| `Inspection` | launch, run and every request that shows memory | `Disassembler`, `Values` |
| `MCDebugServer`, `MCStepping`, `MCBreakpoints`, `MCSession`, `MCInspection` | small programs for TLC | the module each names |
| `DebugServerProofs`, `SteppingProofs`, `SessionProofs` | theorems | the module each names |
| `Recursion` | lemmas on least elements, recursive functions and folds | |
| `DebugInfoProofs` | what `Parse` makes of the records of a CDB file | `Breakpoints`, `Recursion` |
| `BreakpointsProofs` | theorems about `Breakpoints` | `DebugInfoProofs` |
| `LoaderProofs` | the loop of `load_ihx` against its reference definition | `Inspection`, `Recursion` |
| `InspectionProofs` | theorems about `Inspection` | `LoaderProofs` |

A definition named `X_Fault` next to a definition `X` is a plausible fault of it (`JoinThread_NotJoinable`,
`Merge_NoAsm`, ...). It takes no part in the specification; put in place of `X` it breaks the property
`PROJECT.json` pairs it with. Every property of every passing run has one.

### RunControl and DebugServer

`emu` is the control point of the emulation thread; each value is a line of the loop in `dbg::start_emulation`
(dbg.cpp:51-84): `test` the loop condition, `step` the instruction, `launched`, `breakpoint`, `pause`,
`clearPause`, `halt` the tests in their order, `exit` the clearing of the flag, and `report`, `out`, `write`
the three layers the stopped event passes. `none` is a thread object that cannot be joined, `done` a thread
that has returned but has not been joined, `crashed` the outcome of undefined behaviour.

`main` is the control point of the session thread: the name of a request when it has just been read, then a
name for each later access to shared state. `continue` has five points (clear the pause flag, exchange the
running flag, join, spawn, respond), because the emulation thread of the previous run may still be between
any two of its own. A breakpoint request has one point for the replacement of its list, one for the clearing of
the merged set and one for each insertion into it, from the four lists in the order of
`rebuild_all_breakpoints` (within a list in any order). `settled` is not in the code: the addresses that a request
which is done has armed and no request since has taken back.

`stackTrace` stands for the requests that only read. `disassemble` has an action of its own, since its sweep may
not end: `endless` is the point where the session thread then stays. For which addresses it does is in
`Disassembler`; `DebugServer` has no memory and leaves it open.

The CPU is reduced to its program counter: that, and whether memory holds a HALT there, is all run control
reads. A program is a successor relation, so a loop may run for any number of rounds. The wire is two FIFO
queues, since both threads write whole messages under `output_mutex_`. `session` says how far the end of a
connection has torn the session down. Use of a sender or stream that has gone is modelled as what it is, a
choice between surviving and crashing.

The client is orderly by default: it launches, configures, asks for execution and for state only when it
takes the program to be stopped, pauses when it runs, and sends up to `MaxPending` requests ahead of their
responses. `Liberties` takes that discipline away: `live` changes breakpoints during a run (which DAP
allows), `eager` sends any request at any time, `drop` loses the connection at any moment, unread requests
included.

`Debuggee` has no threads, flags or messages: a status and a program counter that may change only while the
status is `starting` or `running`. `DebugServer` implements it, with the client's view as the status.

### Stepping

The Z80 is reduced to what the step loops look at: the opcode class (`is_call` and `is_ret`), the program
counter, the stack pointer and the words on the stack. Stack pointers wrap at `2 * Half` and are compared as
the code compares them, as signed integers of that width. The CDB and assembly locations of an address are
given by `CLine` and `AsmLine`. `level` (calls less returns since the step began), `held` (whether the frame the
step began in has kept what was on the stack then) and `trail` (all snapshots, with no cap) exist in the model
only, to state what a step should do. So does the constant `Words`, which says how many words a frame of a
program holds at each address below its return address.

### DebugInfo and Breakpoints

A CDB file is a sequence of records: modules, functions, symbols, function markers, C lines and assembly
lines. `Parse` follows `cdb_parser`, including the order dependence of the current module, to which symbols
belong whatever module they name, and the late merge of assembly lines. `AddrByFileLine`, `LookupAddress`, `LookupSourceAny` and `FunctionAt` follow the indices and
lookups of `dbg`. Where the code takes an element of an unordered map, the operator yields the set of the
elements it may take.

`Breakpoints` has one action for each request that replaces a list, and one for each way a launch can go. It
keeps the four lists, the lines by file and their merged set as `dbg` does; `wanted` and `verified` record
what the client asked for last and what it was told, `loaded` whether the last launch named a program.
`ShowListing` is the listing `get_source` builds when no launch has: of clear memory, one NOP a line, in which
breakpoints can be set from then on. A MAP symbol carries the names it answers to, which stand for the three forms
`lookup_function_address` tries (`main`, `_main`, `G$main$...`). Requests here are atomic: only the session thread
changes the lists, and how the emulation thread sees the merged set change is in `DebugServer`.

### Session and Dialogue

`Session` looks at the session thread from the other side: not which memory it shares but what it answers.
`inbox` holds what the client has sent ahead; one action reads a message, runs its handler and writes events
and response, as one iteration of `session::run` does. The locals of `target::run` (`launched`, `path_to_ref`,
`ref_to_path`, `next_src_ref`, `scope_names`) and the dispatcher's `response_seq_` are the state; `Accept`
makes all of them new, as `main` does with its target. The program is reduced to what the handlers ask of it:
the path of its source (`place.path`), whether it has locals there, and what the launch loaded. It moves while
it runs (`Runs`).

`Resolve` is `resolve_source_path`: a path that names no file on disk is searched by its bare name under
`source_root_`, which a launch without a program keeps, and under the roots of the launch. `Found` says for a
directory what a search in and below it leads to. Both `stackTrace` (for the path it shows) and `source` (for the path it opens)
go through it, so a path shown under one launch may lead elsewhere under the next.

Requests that touch none of this share one message (`threads`); the four steps share one (`step`). `disassemble`
is answered, or never ends and leaves the session `hung`. A message
may also be malformed, name an unknown command, or have arguments of a type its handler does not take
(`mistyped`). The three frames that `read_message` gives up on are the ways a connection ends.

The client keeps what it was given: source references and scopes with the paths and names they were given
for. `meant` in a request says which of them it takes its number for. It is not sent and no handler reads it;
the properties compare it with the answer.

`Dialogue` has no handlers: requests wait in a queue, an answer takes the first and names it, and a
connection that closes drops the rest. `Session` implements it with the queue of the requests that nobody has
read yet (`Waiting`: of the messages in `inbox`, those that are requests and not the end of the connection).
Only a request that sweeps memory may have no end; the session is `stuck` then and answers nothing more.
`OneAnswerEach` is all of it, `AnsweredInOrder` its safety.

### IhxLoader, Disassembler, Values and Inspection

`IhxLoader` folds `LoadRecord` over the records of a file, with the `uint32_t` base and its wrap, the
characters that are not hexadecimal and the records behind the end. Its reference definition
(`BaseOf`, `Covering`, `Says`) has no running state: it says for each address which record of the whole file
decides it.

`Disassembler` follows the loops of `disassemble` over a function from bytes to instruction lengths that
stands for the library. A loop is the function of its iterations (`Walk`); that the sweep of a backward
disassembly is endless means that no element of it is past its end. `Values` follows `c_variable_value`,
`lookup_symbol`, `lookup_symbol_exact`, `read_memory` and `evaluate`. The underscore before the name of a C
object is a flag beside the name, since the lookups differ in whether they add one.

`Inspection` puts them together: a launch resets, loads, and builds the listing; a run moves the program and may
change its memory; each request answers from the state there is. `answer` is the response on its way, which
the properties look at. A request whose sweep is endless leaves `hung`, and nothing happens any more.

## 3. Runs

### Runs that pass

| Run | States | Question |
|---|---|---|
| `orderly` | 703,083 | With an orderly client: is the CPU used by one thread at a time, does every run end in one truthful stop, is disconnect the last word, does every breakpoint hold, is `Debuggee` implemented? Does a pause stop the run it was sent in, and is a disconnect answered, wherever the thread is, unless a disassemble before it does not end? |
| `any_client` | 260,634 | Whatever a client does: do the flag and the joins keep the threads in order, and does the session thread always return to reading, but from an endless disassemble? |
| `stepping` | 13,487 | Do the four step commands, in every order, end where they should in four programs? |
| `breakpoints` | 48,361 | Is what should be armed armed, and nothing else, is a stop shown where its breakpoint was set, and are the variables in scope those of the function there? |
| `session` | 281,542 | Is every request answered once and in order, over two connections, relaunches and requests sent ahead? Do source references, scope numbers and the entry stop mean what the client takes them for? Is `Dialogue` implemented, and no request left waiting but behind an endless disassemble? |
| `inspection` | 132,096 | Is every short program file loaded where its records say and entered where it begins? Do listing, disassembly, readMemory, variables, symbols and evaluate agree, and where does a backward disassembly not end? |

The properties that would be hardest to see by testing:

* `OneStopPerRun` counts the stops owed to the client across both queues and both threads and requires exactly
  one while the client waits. A stop lost, doubled or sent for a run that never started breaks it.
* `StopReasonTrue` compares a reason in a message still on the wire with the CPU.
* `QuietAfterDisconnect`: once the disconnect is answered no event follows and the thread is gone.
* `BreakpointHolds` compares the thread's decision with what earlier requests have armed in any of the four lists and
  the one being served leaves there (`settled`), not with the merged set it reads. A breakpoint that only the
  request being served sets or removes may go either way: that request has not been answered.
* `JoinIsSafe`: `continue` waits only for a thread that has already cleared the flag. Otherwise that thread
  would clear the flag of the run that follows.
* `StepOverInFrame`: a step over never ends inside a function it called, through nested, conditional,
  recursive and early returning calls, whatever they push, unless its own frame has popped what it held.
* `StepBackRestores` holds across the cap of the history.
* `VerifiedIsArmed` and `NothingElseArmed` bound the merged set from both sides through all orders of requests
  and launches.
* `RefsLeadBack` and `SourceDelivered` follow a source reference from the frame it was shown in to a source
  request after another program was launched; `ScopeAnswered` does the same for the number of a scope.
  `SourceDelivered` promises what the code keeps: a file on disk and the current listing are delivered as meant.
  A path its own launch did not find, or the listing of an earlier program, may be answered by a namesake under
  the roots of the launch in force; the property says that it is one of those or a refusal. `MCSession` has both cases:
  the ROM lies beside a `lost.c`, `hello` beside a `hello.asm`.
* `OneAnswerEach` holds with requests sent ahead, malformed and mistyped ones among them, and includes that
  no request waits for good while its connection lasts, unless it is a disassemble without an end or stands
  behind one: what `HangsOnlyAtTop` is about does reach every later request.
* `EntryReported` holds across launches, disconnects and relaunches sent before their answers were read.
* `LoadedFaithfully` compares the loop of `load_ihx` with a definition that has no loop, for every file of up to
  two lines and for longer ones with several extended addresses; a relaunch must leave nothing behind. `EntryIsLoaded`
  holds although bytes above 64 KB, which are dropped, count for the lowest address too; it leaves out files
  of which no byte is in memory, whose entry is a cut address where nothing was loaded.
* `HangsOnlyAtTop` gives the exact limits of the defect it is about: for no address more than seven bytes below
  the top of memory does a backward disassembly fail to end, and for none of the last four does it end.
* `BackwardLands` says where the row asked for is although the sweep may fall out of step: right there if the
  sweep comes to the address itself before it passes it, and at most three bytes past it otherwise. Near the bottom
  of memory, where the sweep is clamped to 0 (z80_target.cpp:567, 581), there may be fewer than k rows before
  the address; the rows begin at 0 then and the one asked for comes earlier than k.
* `ViewsAgree` and `SymbolsAgree` compare lookups that share no code.
* `VariablesInScope` compares, at every address, the records of a CDB with the variables its function shows.
* `StopShownWhereSet` and `StopInFunction` require that independent lookups agree: line to address with
  address to line, and MAP symbols with CDB markers.

### Runs that find a violation

Each states what a comment or a manual of the repository says and shows that the code does otherwise.
`PROJECT.json` quotes the texts.

| Run | Property | What happens |
|---|---|---|
| `live_breakpoints` | `BreakpointHolds` | `rebuild_all_breakpoints` empties the set and refills it while the thread tests it. In the trace the program runs with a breakpoint armed by its launch sequence; a request that leaves it in its list empties the set just before the test, and the breakpoint is passed. |
| `dropped_connection` | `TeardownSafe` | The end of a connection during a run resets the sender and the stream between the thread's test of them and its use. |
| `stepping_sign_bit` | `StepOverInFrame` | A stack that grows from above 0x8000 to below it looks as if it had returned, and the step ends in the callee. |
| `breakpoint_lines` | `OfferedLinesResolve` | Lines of generated assembly are offered as breakpoint locations of a C file, but none can be set there. |
| `virtual_listing` | `NothingElseArmed` | A breakpoint in a listing that is set before the launch is kept under a source file that no later request for the listing reaches. |
| `value_sign` | `ShownSigned` | Whether a variable is signed is guessed from letters that every type has: an unsigned int is shown as a signed decimal. |

Three limits of the code are stated in the properties that hold rather than shown as violations. No handler
checks that the program is stopped, so `CpuExclusive` is stated for an orderly client, as the manual
(USING-LIBDAP.md) describes one. A step out ends at the first instruction that raises the stack pointer, a POP
included: `StepOutReturnsFromBase` says of every step out that it does not end inside a function its frame called,
but that it has returned only of one that begins with nothing pushed. A step over takes the
stack pointer back at `start_sp` for a return whatever brought it there: where a line begins with an argument on
the stack, pops it and calls again, the new return address takes the argument's place and the step ends inside the
function called. `StepOverInFrame` is therefore stated while `held`; without `held'` TLC finds that ending in the
program `Arguments` of `MCStepping`.

Two properties say less than their names suggest. `BreakpointHolds` holds in `orderly` because that client sets
breakpoints only while the program is stopped: there it says that the four lists are in the merged set when a run
begins and stay there, and the race of hazard dbg.cpp:147 is in `live_breakpoints` alone. `SessionResponsive` is about
the joins: handlers are short sequences of steps in `DebugServer`, and that their own loops end is not its
question (the steps are bounded by their limits in `Stepping`, the sweep of disassemble is not).

### Bounds

* **Programs of `DebugServer`**: three addresses, a loop that may leave for a HALT, entry in the loop. The
  thread can therefore run for any number of rounds, meet breakpoints at either address of the loop or at none,
  and halt. Two addresses in a breakpoint request give a merged set that is seen half filled; the other three lists
  are empty or hold one of the two, so that an address may be in several lists or in one only.
* **`MaxPending = 2`** lets a request wait behind the one being served: a pause behind a continue, a
  disconnect behind a pause. `any_client` and the three violations need one only.
* **`StepLimit`** (the iterations of a step loop) is 1 or 2: a step ends by its limit or before it. What a step
  does inside is the subject of `Stepping`.
* **`MaxHistory`** is 1 in `DebugServer` and 2 in `Stepping`. With `MaxSteps = 3` the cap is exceeded there and
  a step back follows.
* **Connections** are not bounded: after a connection closes, the state is that of the start.
* **`Half = 16`** gives stack pointers of five bits. The stack of the programs, at most three frames and a
  saved register or an argument, stays in one half of them in `stepping` and crosses the middle in `stepping_sign_bit`.
* **`OverLimit = 14`, `InLimit = 6`, `WalkLimit = 4`** are large enough for a step to end by its own condition
  and small enough to be reached; `RecursionFloor` keeps the recursion finite. That the programs balance
  their stack as `Words` says is an `ASSUME` of `MCStepping`.
* **`AddrSpace = 16`, `LastLine = 3`** with two programs: one in C with a start-up module, a line with two
  addresses, lines of generated assembly, a file known by MAP markers only, a marker that a CDB record hides,
  a global and a static function; one in assembly alone, whose last
  instruction runs past the end of memory. References reach 20, past
  the address space.
  The image of the C program is called `listing`, so that its listing has the path of the one shown after a launch
  without a program. The C program's CDB has a second module with a global that both declare and a local of a name that a
  function of the first has too.
* **`MaxLaunches = 2`** so that one program follows another; `virtual_listing` needs one.
* **`MaxRequests = 4`** on each of two connections, of which two may be sent ahead. Three requests are a
  frame, a launch and a source; two scopes and a variables request; a launch, a disconnect and a
  configurationDone; the fourth lets one more come between. The places of `MCSession` are a C file on disk, one
  that was not found, an assembly file found under the root and none; a path the client asks for by itself
  names a file that is not UTF-8. Three images, each with a directory of its own: with and without debug
  information, and none.
* **Sixteen bytes of two bits** in `Inspection`, of which one value begins no instruction and the others one of
  1, 2 or 4 bytes: the largest length, the invalid one and instructions over the top of memory all occur. Every
  file of up to two lines from ten kinds, and longer ones that move the base up, down and around; two start
  addresses. `Again` names the programs launched after another, and a run happens once between two launches.
  `Count = 3` with offsets from -2 to 1 shows the row asked for, rows before it and rows after it.

Deadlock is checked in every run but `any_client` and `session`, where the end of the process ends the
behaviour (the client of `session` also runs out of requests), and `inspection` and `value_sign`, where a hung
session thread does.

### Fairness

`FairSpec` assumes weak fairness of the session thread as a whole, of the emulation thread as a whole and of
the client's receiving. Both threads are threads of the operating system that run whenever they can, neither
is ever held by the other except in a join, and the mutex on output is held for one message only. The
client must read what it is sent, or a blocking socket would stop the server; nothing forces it to send. `Session` assumes weak fairness of its `Handle` only, the same thread, which reads on while there is
something to read. No
fairness is assumed of the program under debug: it may loop for ever. That an instruction ends is assumed
(see hazards: the loops that complete a prefix or a block instruction have no limit).

## 4. Proofs

TLAPS checks these for every value of the constants, under the named assumptions of the modules and the
hypotheses in the last column.

| Theorem | Statement | Hypothesis |
|---|---|---|
| `TypeCorrect` | `TypeOK` of `DebugServer`, which includes the cap of the history | |
| `RunningFlagOwned` | `RunningOwned`: a set flag has an owner that will clear it | |
| `JoinsAreSafe` | `JoinIsSafe` | |
| `TargetOutlivesThread` | `NoThreadOutlivesTarget` | |
| `OrderlyCpuExclusive` | `CpuExclusive` | not `eager` |
| `OrderlyOneStopPerRun` | `OneStopPerRun` | not `eager` |
| `OrderlyQuietAfterDisconnect` | `QuietAfterDisconnect` | not `eager` |
| `OrderlyBreakpointHolds` | `BreakpointHolds` | neither `eager` nor `live` |
| `OrderlyStopReasonTrue` | `StopReasonTrue` | neither `eager` nor `live` |
| `OrderlyTeardownSafe` | `TeardownSafe` | neither `eager` nor `drop` |
| `OrderlyFrozenWhileStopped` | `FrozenWhileStopped`: `DebugServer` implements `Debuggee` | neither `eager` nor `drop` |
| `SteppingTypeCorrect` | `TypeOK` of `Stepping` | |
| `HistoryIsEndOfTrail` | the history is always the end of the sequence of all snapshots not taken back | |
| `StepBackRestoring` | `StepBackRestores` | |
| `StepOverEndsInFrame` | `StepOverInFrame` | `StackBalanced`, always `OneHalf` |
| `StepOutEndsInCaller` | `StepOutReturnsFromBase` | `StackBalanced`, always `OneHalf` |
| `SourcesAreArmed` | `SourceArmed` | |
| `VerifiedStaysArmed` | `VerifiedIsArmed` | |
| `OnlyWantedIsArmed` | `NothingElseArmed` | `NoNamesake`, `DefaultVirtual` not in `Files` |
| `BreakpointsTypeCorrect` | `TypeOK` of `Breakpoints`: every armed address is one of the Z80's | |
| `FunctionStopsAreInIt` | `StopInFunction` | `RecordsInOrder`, `MarkersAgree` |
| `StopsAreShownWhereSet` | `StopShownWhereSet` | `LinesApart` |
| `VariablesAreInScope` | `VariablesInScope` | `RecordsInOrder`, `ListingsDiffer` |
| `ReferencesLeadBack` | `RefsLeadBack` | |
| `ResponsesCountUp` | `ResponsesNumbered` | |
| `SessionTypeCorrect` | `TypeOK` of `Session` | |
| `SourcesAreDelivered` | `SourceDelivered` | |
| `ScopesAreAnswered` | `ScopeAnswered` | |
| `EntryIsReported` | `EntryReported` | |
| `EachIsAnsweredOnce` | `AnsweredInOrder`: `Session` implements the safety of `Dialogue` | |
| `InspectionTypeCorrect` | `TypeOK` of `Inspection` | |
| `FilesAreLoadedFaithfully` | `LoadedFaithfully` | |
| `ProgramsAreEntered` | `EntryIsLoaded` | |
| `SweepsHangAtTopOnly` | `HangsOnlyAtTop` | |
| `BackwardDisassemblyLands` | `BackwardLands` | |
| `ListingIsDisassembly` | `ListingAgrees` | |
| `ViewsOfMemoryAgree` | `ViewsAgree` | |
| `SymbolsLeadBack` | `SymbolsAgree` | `NamesAreUnique` |

A hypothesis on `Liberties` is the client's part of the bargain: nothing in the server keeps a request out of
turn from being served. It is needed, too: with `live` the run `live_breakpoints` violates `BreakpointHolds`, with
`drop` the run `dropped_connection` violates `TeardownSafe`. `NoNamesake` says that no program resolves a line of
a file called as its listing is; it holds of the programs of `breakpoints` and fails for those of
`virtual_listing`, which violates `NothingElseArmed`. The other hypothesis of `OnlyWantedIsArmed` is about a client
that sets breakpoints in the listing it may see before the launch: no launch clears them (see the hazard at
z80_target.cpp:110). `NamesAreUnique` says that no MAP file gives one name two
places; a linker does not, for global symbols.

`StackBalanced` says what a compiler's output does: at an address a frame holds the same number of words however it
is reached, a function begins and returns with none, and `Words` is that number. `OneHalf` says that the stack stays
on one side of 0x8000; the programs of `stepping` do so, and `stepping_sign_bit` shows that `StepOverInFrame`
fails without it.

The other hypotheses of `Breakpoints` say what files must say for lookups in both directions to agree; TLC checks
that they hold of the programs of the runs (the `ASSUME` of `MCBreakpoints`), which hold functions of two
modules, a static one, a module known from assembly records only and a file known from MAP markers only.
`RecordsInOrder` is about the CDB, which SDCC writes module by module: functions and variables stand behind the module they
are in, locals and markers behind their function, every function has a name of its own, one start and an end,
and no two enclose an address. `MarkersAgree` says that the MAP symbol of a function is not inside another, `LinesApart`
that an address where a line of assembly or a MAP marker begins is that of one line only, `ListingsDiffer` that
programs of one name are one. Without the first two the code shows the wrong function (the hazard at
cdb_parser.cpp:238), without the third the wrong line (the hazard at dbg.cpp:238). The type theorem needs none of
them.

**DebugServer, any client.** The assumptions say that programs are successor relations on a set of addresses
with 0 and the entry in it and that the bounds are positive; nothing restricts the client. `RunningOwned` is not
inductive: `JoinIsSafe` at `continue` needs the converse, that a thread still executing has the flag set
unless the session thread has just cleared it and now waits in a join (`FlagKept`), and the last join needs
that the flag is still clear (`LastStop`). The invariant `FlagInv` is their conjunction. Only eight or so
actions touch the flag or either control point in a way that matters; the rest follow from `Goto`. Type
correctness is a second invariant, proved action by action; `PushType` and `PopType` carry the history.

**DebugServer, an orderly client.** `OneStopPerRun` counts messages in two queues, so the proofs begin with lemmas
on `Queued`: what appending, taking the first and emptying do to a count. The invariant is `Core`. Besides the
count it says that at most one of the places a run can be in is taken (`OneRun`: a request on its way, the
session thread, the emulation thread, a stop on its way), that behind a request that starts a run only a pause
or a disconnect is sent, and with `live` a breakpoint request (`AfterRunOnlyAside`, `AsideOfRun`), where in a
connection a launch can be (`StartsOnce`, `LaunchPrecedes`), that nothing follows a disconnect
(`DisconnectLast`, `LeavingEnds`), and that only a client that has gone tears the session down. `CpuExclusive`
and `QuietAfterDisconnect` are consequences. `ReasonTrue` follows the reason from the test in the loop to the
wire; it rests on `Core` for that the session thread leaves CPU and breakpoints alone meanwhile. `ClosedIdle`
says that without `drop` a connection that has gone has no thread and no request left; `TeardownSafe` follows at
once. For `Debuggee`, every step of `DebugServer` that changes the program counter is shown to happen while the
client's view is `starting` or `running`, action by action.

**Stepping.** The assumptions are that stack pointers have a width, that limits and bounds are positive and that
programs map addresses to instructions. `EndOf(h, t)` says that `h` is the last part of `t`; three lemmas show that
appending to both, dropping the first of `h` and dropping the last of both preserve it. The invariant is that
the history is an end of the trail and both hold typed snapshots, so the history's last element is the trail's
last. The loops of the steps leave both alone, which is why the theorem needs nothing about calls, returns or
limits. For the type invariant the counters of the loops need bounds of their own (`LoopInv`): `depth` stays below
its limit because no round adds more than one and the rounds are limited.

That a step over ends in its frame depends on what the program does with its stack, so the proof reconstructs it.
`Framed` says that the stack is a sequence of frames: each holds its return address, as many words as `Words` says
at the address it will return to, and the next frame. Every instruction of a balanced program keeps it so
(`ExecuteFrames`: a call adds a frame, a return takes one away, the last return leaves what the program was started
with). `Base` says where in the sequence the frame is in which the step began, namely `level` below the last, and
`FrameInv` that as long as `held` the code's `call_depth` is that same number (`CallsCounted`). This is where the
two hypotheses are used: within one half no stack pointer wraps and the signed comparison is the unsigned one
(`NoWrap`, `SignedOrder`), and any frame above the base lies below `start_sp`, so that `sp_after >= start_sp` resets
`call_depth` only when it is 0 already (`AboveBase`). The snapshots in the history must be framed too, since a
step back returns to one. A step out goes on only while its frame holds
what it held, so what raises the stack pointer past where it began is an instruction of that frame, and on a bare
frame the return itself (`LeavesBase`).

**Breakpoints.** Nothing is assumed of how an address is looked up: the proofs show that every path to the
merged set goes through the list it came from. The invariant says that the merged set is the union of the
four lists (`Merged`), that the lines by file are the last requested (`FilesWanted`, for files that are never
the listing), that the source list is resolved in the present index whenever a program is loaded, and that
what was verified is in the list it was verified for. The last part needs more than its name says: a request
for one file resolves *all* files again, so a verified address must also be known to resolve again
(`VerifiedListed`). `NothingElseArmed` needs in addition what the lists are made of while there has been one
launch at most (`IOnce`), that a path requested before the launch makes it the listing resolves nothing,
which is `NoNamesake`, and that no breakpoint is set in the listing before it.

**Debug information.** `TypeOK` of `Breakpoints` depends on every operator of `DebugInfo`: an armed address comes out of
the index, a MAP symbol, the listing or a reference. `CdbModules(R)` is the type of a module made of the records `R`;
each `Parse...` of `cdb_parser` preserves it (`ParseRecordTyped`), hence so does the fold (`FoldSteps`, which unrolls
`FoldLeft` with the induction of `Recursion`), and the index, the concatenations and the recursive function of the
listing yield addresses of records, or of the Z80 (`IndexTyped`, `FlattenTyped`, `ListingTyped`). What is assumed of
programs is what the casts to `uint16_t` guarantee (`ProgramAssumption`).

The other three theorems say what `Parse` *means*. `Said(rec, k, ms)` is the invariant of its loop: after `k`
records the current module is the one begun last, each function declared so far is in one place, in the module it
was declared in, with exactly the locals and the range the first `k` records say, and the globals are those
declared. None of it is inductive alone: that a local reaches its function needs that the function is in the current
module, which needs that the module in which a function was placed is still the last one exactly when no other has
begun since. `RecordSaid` shows it for each kind of record, `MergeKeeps` that merging the assembly lines changes
none of it, `ParseSaid` what it gives at the end of the file. From there `BetweenMarkers` says that `Encloses`, which
reads a function, agrees with `Inside`, which reads the records. `FromProgram` is the state invariant:
modules, symbols, index and name of the listing come from one and the same program as long as one is `loaded`.

**Session.** Of programs, paths and the client nothing is assumed but that a search leads to files on disk. `RefsLeadBack` speaks of the references the
client knows; it is inductive only together with `Inverses`: every
reference in `ref_to_path` is below the next one, and `ref_to_path` undoes `path_to_ref`, so that a new
reference collides with none.
`ResponsesNumbered` needs that the number of the next response is one more than the last number the client has
seen (`INumbers`), on which a malformed request, a throwing handler, the end of a connection and the next one
must all be silent or start again together.

The properties of requests sent ahead speak of the moment of the answer, but what a request means is fixed when it
is sent. The invariant therefore looks at every message in `inbox` and says what it will find when it is handled
(`Foreseen`): for a `configurationDone`, whether the launches and disconnects before it leave a program launched
(`LaunchedAfter`); for a `variables`, that the scopes it names are in force and no `scopes` stands before it; for a
`source`, that its reference leads to what was meant, which nothing undoes. `HandleFrame` says once for all
handlers what each may change, and `TakeShifts` that taking the first message moves the rest of the foresight one
place down. `AnsweredInOrder` is a step simulation: `Waiting` loses its first with each answer because only the last
message can be one that ends the connection (`EndingLast`).

**The loader.** `LoadIhx` is a fold and its reference is not, so their agreement needs induction over the
file. The induction theorems of the library are out of reach (they take an operator), but their content is not:
every non-empty set of numbers has a least element, hence a set that contains 0 and with each number the next is
all of them (`Recursion`: `LeastExists`, `Induction`). From these come the existence of recursive functions and
of the fold (`RecursionExists`, `FoldExists`). `Agrees(l, records, k)` is the invariant of the loop: after `k`
records the locals of `load_ihx` are what the first `k` records say, byte for byte, with the base in force, the
addresses of the data and the end. `LoadIhxSays` and `IhxEntryLowest` are what it gives at the last record.

**Inspection.** The lemmas are about memory of any size and any lengths of one to four bytes: a walk goes up
and comes past every address, and never jumps over four (`Walk`, `Sweep`, `Endless`: `HangsOnlyAtTop`,
`BackwardLands`); a listing and a walk from one of its lines run through the same addresses (`ListingAgrees`);
`ReadWide` of any size, cut to 16 bits, is its first two bytes, low byte first, and of one at the top of
memory the one there is (`ViewsAgree`); the first symbol that matches is at the place of the one shown if names are
unique (`SymbolsAgree`). The invariant `IInv` keeps where each thing came from: memory, entry point and
listing from the program launched last, until the program runs (`LaunchMeans`, `ListingMeans`), the answer
from the state it was sent in (`AnswerMeans`), a hung thread from a sweep without an end (`HungMeans`).

Checked by TLC only: liveness (`PauseStops`, `DisconnectAnswered`, `SessionResponsive`, and that of `OneAnswerEach`),
which TLAPS does not reach. Every other property of a passing run is stated by a theorem.

## 5. What is not modelled, and why

* **The MAP parser** is regular expressions over text; its result is an input of `DebugInfo` and `Inspection`.
* **Text**: the wording of responses, the columns of the listing, the mnemonics of a disassembly, JSON itself.
  What text decides is modelled: whether it can be parsed, whether it is UTF-8, which names are equal.
* **The socket stream** is a byte buffer below the wire; the wire is a sequence of messages.
* **Types of a CDB** are parsed and never read again. The MAP Segments scope lists what the MAP parser read.
* **Code nothing calls** (`ensure_source_reference` and `source_by_reference` of `dbg`) has no behaviour to model.
* **z80ex, sockpp, nlohmann json** are external. One call that steps the CPU is one instruction.
* **The editor extension and the tests** hold no code of the server.

Abstractions worth knowing: in `DebugServer` the copy of the program counter the thread takes before its
tests is the program counter itself (they can differ only if `CpuExclusive` fails), a read of the breakpoint
set sees it as it is at that moment although a real `unordered_set` under modification may do worse, and
`next` stands for every step command. In `Session` a client waits for the scopes it has asked for before it asks
for variables, since it cannot know what a number will mean; and every mistyped argument throws, although some
are never looked at. In `Values` BC stands for all register pairs. In the programs of
`breakpoints` no two functions share a name (see the hazard at cdb_parser.cpp:238).

## 6. Plan

Done, in this order: run control with session thread and client, stepping, debug information and
breakpoints; the session as a dialogue with its source references and scopes; the loader, the disassembler and
the values shown; variables in scope; the theorems of section 4: any client, an orderly client with the
refinement of `Debuggee`, stepping, the session with the refinement of `Dialogue`, all of `Breakpoints` with the
debug information it rests on, the loader and all of `Inspection`.

Next, in order of importance:

1. **More programs for `DebugInfo`**: static functions of one name in two modules, and several lines at one
   address.
2. **Weaker hypotheses**: which of `RecordsInOrder` each lookup needs, and `StopReasonTrue` with `live`, where only
   breakpoint stops can be untrue.
