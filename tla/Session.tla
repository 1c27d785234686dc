------------------------------- MODULE Session -------------------------------
(***************************************************************************)
(* The session thread from the frame to the response: session::run and     *)
(* handle_message of libdap, the handlers of target::run with the state    *)
(* they keep (source references, scope names, launched), and the queries   *)
(* of z80_target they pass on.  The client may send ahead of the answers.  *)
(* What it was answered counts as read: the connection keeps the order.    *)
(* The threads of the emulation are in DebugServer, the lists of           *)
(* breakpoints in Breakpoints, the values shown in Inspection.             *)
(***************************************************************************)
EXTENDS Naturals, Sequences, SequencesExt

CONSTANTS
  Places,          \* where a program can be: [path, locals]
  CFiles,          \* the paths that end in .c or .h
  OnDisk,          \* the paths of files that exist
  NotUtf8,         \* those of them whose text is not UTF-8
  Asked,           \* the paths a client asks for by themselves
  Found,           \* for each directory, the files a search in it leads to
  NoRoot,          \* the empty directory name, where nothing is found
  Images,          \* what a launch can load: [listing, cdb, map, places,
                   \*   program, root, roots]
  NoImage,         \* the same before a launch
  NoPath,          \* the path of a place without source; an empty path
  None,            \* no arguments, no number, nothing known
  MaxRequests,     \* bounds of the model: requests on one connection,
  MaxPending,      \* requests sent ahead,
  MaxConnections   \* connections

ASSUME BoundAssumption ==
  MaxRequests \in Nat /\ MaxPending \in Nat /\ MaxConnections \in Nat \ {0}
ASSUME NoneAssumption == None \notin Nat
ASSUME PathAssumption == NoPath \notin OnDisk \cup CFiles \cup {i.listing : i \in Images \cup {NoImage}}
ASSUME PlacesAssumption == \A i \in Images \cup {NoImage} : i.places \subseteq Places
ASSUME FoundAssumption ==
  /\ \A r \in DOMAIN Found : \A p \in DOMAIN Found[r] : Found[r][p] \in OnDisk
  /\ \A i \in Images : i.program \in BOOLEAN /\ {i.root, i.roots} \subseteq DOMAIN Found
  /\ NoImage.roots = NoRoot /\ NoRoot \in DOMAIN Found /\ DOMAIN Found[NoRoot] = {}

Paths == {p.path : p \in Places} \cup {i.listing : i \in Images \cup {NoImage}} \cup OnDisk

VARIABLES
  alive,          \* the process runs
  open,           \* session::run is in its loop
  hung,           \* ... or in a handler that does not end
  connections,    \* not in the code: how many were accepted
  image, place,   \* the program: what was launched, where it is
  source_root_,   \* where dbg looks for sources first
  running,        \* it runs on the emulation thread
  launched,       \* the locals of target::run
  path_to_ref, ref_to_path, next_src_ref,
  scope_names,
  response_seq_,  \* of the dispatcher
  inbox,          \* what the client has sent and the session not read
  number,         \* not in the code: the client's last request number,
  answers,        \* how many responses it got,
  seen,           \* the number of the last of them that had one,
  exchange,       \* the last request and its response,
  refs, scopes,   \* the references and the scopes it knows,
  expects         \* whether its last launch is still to be configured

loaded  == <<image, source_root_>>
target  == <<loaded, place, running>>
local   == <<launched, path_to_ref, ref_to_path, next_src_ref, scope_names>>
client  == <<number, seen, refs, scopes, expects>>
vars    == <<alive, open, hung, connections, target, local, response_seq_, inbox,
             answers, exchange, client>>

-----------------------------------------------------------------------------
(* What a client can send.  meant is not in the message: it is what the    *)
(* client takes the reference of a scope or a source for, or whether it    *)
(* expects an entry stop.                                                  *)
Request(command, arg, meant) ==
  [number |-> number + 1, command |-> command, arg |-> arg, meant |-> meant]

(* Requests without arguments that matter here.  "step" stands for next,   *)
(* stepIn, stepOut and stepBack, "threads" for the requests that touch     *)
(* nothing of the session: threads, pause, readMemory, evaluate,           *)
(* loadedSources, the other breakpoint requests; "notfound" for a command  *)
(* without a handler; "mistyped" for one whose arguments have another type *)
(* than its handler takes.                                                 *)
Plain == {"initialize", "disconnect", "stackTrace", "scopes", "continue",
          "step", "threads", "disassemble", "notfound", "mistyped"}

(* "malformed": not a JSON object, or seq, type or command of another      *)
(* type.  The frames that read_message gives up on: no usable length, a    *)
(* length of 0, an end of the stream before the text is complete.          *)
Endings == {"noLength", "empty", "end"}

(* The references of variables mean what the last scopes said, so a client *)
(* that has asked for new scopes waits for them.                           *)
Messages ==
  {Request(c, None, None) : c \in Plain}
    \cup {Request("configurationDone", None, expects)}
    \cup {Request("launch", i, None) : i \in Images}
    \cup (IF \E i \in DOMAIN inbox : inbox[i].command = "scopes" THEN {}
          ELSE {Request("variables", r, scopes[r]) : r \in DOMAIN scopes})
    \cup {Request("source", [ref |-> g.ref, path |-> NoPath], g.path) : g \in refs}
    \cup {Request("source", [ref |-> 0, path |-> p], p) : p \in Asked}
    \cup {Request("setBreakpoints", [path |-> p, name |-> p], p) : p \in Asked}
    \cup {[Request(c, None, None) EXCEPT !.number = 0] : c \in Endings \cup {"malformed"}}

Send ==
  /\ open /\ Len(inbox) < MaxPending /\ number < MaxRequests
  /\ \A i \in DOMAIN inbox : inbox[i].command \notin Endings
  /\ \E m \in Messages :
       /\ inbox' = Append(inbox, m)
       /\ expects' = CASE m.command = "launch" -> TRUE
                       [] m.command = "disconnect" -> FALSE
                       [] OTHER -> expects
  /\ number' = number + 1
  /\ UNCHANGED <<alive, open, hung, connections, target, local, response_seq_, answers,
                 seen, exchange, refs, scopes>>

-----------------------------------------------------------------------------
(* read_message and the lookup of the handler *)
Take(command) ==
  /\ open /\ ~hung /\ inbox # << >> /\ Head(inbox).command = command
  /\ inbox' = Tail(inbox)

Answered(request, request_seq, seq, events, success, body) ==
  exchange' = [request |-> request, request_seq |-> request_seq, seq |-> seq,
               events |-> events, success |-> success, body |-> body]

Respond_LastRequest(events, success, body) ==
  /\ Answered(Head(inbox), Last(inbox).number, response_seq_, events, success, body)
  /\ response_seq_' = response_seq_ + 1 /\ seen' = response_seq_ /\ answers' = answers + 1
  /\ UNCHANGED <<alive, open, hung, connections, number, expects>>

(* The response names the number of its request and gets the next number   *)
(* of its own; the events of the handler are written before it.            *)
Respond(events, success, body) ==
  /\ Answered(Head(inbox), Head(inbox).number, response_seq_, events, success, body)
  /\ response_seq_' = response_seq_ + 1 /\ seen' = response_seq_ /\ answers' = answers + 1
  /\ UNCHANGED <<alive, open, hung, connections, number, expects>>

(* The answer to what is no request names no request and has no number. *)
Malformed ==
  /\ Take("malformed")
  /\ Answered(Head(inbox), 0, None, << >>, FALSE, None)
  /\ answers' = answers + 1
  /\ UNCHANGED <<alive, open, hung, connections, target, local, response_seq_, client>>

UnknownCommand ==
  /\ Take("notfound") /\ Respond(<< >>, FALSE, None)
  /\ UNCHANGED <<target, local, refs, scopes>>

Threads ==
  /\ Take("threads") /\ Respond(<< >>, TRUE, None)
  /\ UNCHANGED <<target, local, refs, scopes>>

Disassemble ==
  /\ Take("disassemble") /\ Respond(<< >>, TRUE, None)
  /\ UNCHANGED <<target, local, refs, scopes>>

(* Near the top of memory the backward sweep has no end (Disassembler says *)
(* for which addresses): the request is not answered, none is read behind  *)
(* it, and the end of the connection is not noticed.                       *)
DisassembleHangs ==
  /\ open /\ ~hung /\ inbox # << >> /\ Head(inbox).command = "disassemble"
  /\ hung' = TRUE
  /\ UNCHANGED <<alive, open, connections, target, local, response_seq_, inbox,
                 answers, exchange, client>>

Initialize ==
  /\ Take("initialize") /\ Respond(<<"initialized">>, TRUE, None)
  /\ UNCHANGED <<target, local, refs, scopes>>

Launch ==
  /\ Take("launch") /\ Respond(<< >>, TRUE, None)
  /\ launched' = TRUE
  /\ image' = Head(inbox).arg /\ place' \in image'.places
  /\ source_root_' = IF image'.program THEN image'.root ELSE source_root_
  /\ UNCHANGED <<running, path_to_ref, ref_to_path, next_src_ref, scope_names, refs, scopes>>

ConfigurationDone ==
  /\ Take("configurationDone")
  /\ Respond(IF launched THEN <<"entry">> ELSE << >>, TRUE, None)
  /\ UNCHANGED <<target, local, refs, scopes>>

Disconnect_StaysLaunched ==
  /\ Take("disconnect") /\ Respond(<< >>, TRUE, None)
  /\ running' = FALSE
  /\ UNCHANGED <<loaded, place, local, refs, scopes>>

Disconnect ==
  /\ Take("disconnect") /\ Respond(<< >>, TRUE, None)
  /\ launched' = FALSE /\ running' = FALSE
  /\ UNCHANGED <<loaded, place, path_to_ref, ref_to_path, next_src_ref, scope_names, refs, scopes>>

Continue ==
  /\ Take("continue") /\ Respond(<< >>, TRUE, None)
  /\ running' = TRUE
  /\ UNCHANGED <<loaded, place, local, refs, scopes>>

Step ==
  /\ Take("step") /\ Respond(<<"step">>, TRUE, None)
  /\ place' \in image.places
  /\ UNCHANGED <<loaded, running, local, refs, scopes>>

-----------------------------------------------------------------------------
(* resolve_source_path: a file that is not where its path says is searched *)
(* for under the source root and the source roots of the launch, as a path *)
(* and by its name alone; one that is found nowhere keeps its path.        *)
Resolve(path) ==
  IF path \in OnDisk THEN path
  ELSE IF path \in DOMAIN Found[source_root_] THEN Found[source_root_][path]
  ELSE IF path \in DOMAIN Found[image.roots] THEN Found[image.roots][path]
  ELSE path

(* get_stack: a source is known from the CDB, whose paths are resolved when *)
(* it is loaded; the listing is shown instead.                              *)
FramePath ==
  IF image.cdb /\ place.path # NoPath THEN Resolve(place.path) ELSE image.listing

(* assign_src_ref *)
Assigned_NoCounter(path) ==
  /\ path_to_ref' = [p \in DOMAIN path_to_ref \cup {path} |->
                       IF p = path THEN next_src_ref ELSE path_to_ref[p]]
  /\ ref_to_path' = [r \in DOMAIN ref_to_path \cup {next_src_ref} |->
                       IF r = next_src_ref THEN path ELSE ref_to_path[r]]
  /\ UNCHANGED next_src_ref

Assigned(path) ==
  /\ path_to_ref' = [p \in DOMAIN path_to_ref \cup {path} |->
                       IF p = path THEN next_src_ref ELSE path_to_ref[p]]
  /\ ref_to_path' = [r \in DOMAIN ref_to_path \cup {next_src_ref} |->
                       IF r = next_src_ref THEN path ELSE ref_to_path[r]]
  /\ next_src_ref' = next_src_ref + 1

Known(ref, path) == refs' = refs \cup {[ref |-> ref, path |-> path]}

(* A C file on disk is opened by the editor itself; any other source gets  *)
(* a reference, the one it had if it was shown before.                     *)
StackTrace ==
  /\ Take("stackTrace")
  /\ \/ /\ FramePath \in CFiles \cap OnDisk
        /\ Respond(<< >>, TRUE, [path |-> FramePath, ref |-> 0])
        /\ UNCHANGED <<path_to_ref, ref_to_path, next_src_ref, refs>>
     \/ /\ FramePath \notin CFiles \cap OnDisk /\ FramePath \in DOMAIN path_to_ref
        /\ Respond(<< >>, TRUE, [path |-> FramePath, ref |-> path_to_ref[FramePath]])
        /\ Known(path_to_ref[FramePath], FramePath)
        /\ UNCHANGED <<path_to_ref, ref_to_path, next_src_ref>>
     \/ /\ FramePath \notin CFiles \cap OnDisk /\ FramePath \notin DOMAIN path_to_ref
        /\ Assigned(FramePath)
        /\ Respond(<< >>, TRUE, [path |-> FramePath, ref |-> next_src_ref])
        /\ Known(next_src_ref, FramePath)
  /\ UNCHANGED <<target, launched, scope_names, scopes>>

(* get_scopes: what there is to show depends on the program and on where   *)
(* it is, so that one reference stands for different scopes over time.     *)
GetScopes ==
  <<"Registers">>
    \o (IF ~image.cdb THEN << >>
        ELSE IF place.locals THEN <<"Locals", "Globals">> ELSE <<"Globals">>)
    \o (IF image.map THEN <<"MAP Segments", "MAP Symbols">> ELSE << >>)

ScopesRequest_NoClear ==
  /\ Take("scopes") /\ Respond(<< >>, TRUE, GetScopes)
  /\ scope_names' = scope_names \o GetScopes /\ scopes' = GetScopes
  /\ UNCHANGED <<target, launched, path_to_ref, ref_to_path, next_src_ref, refs>>

ScopesRequest ==
  /\ Take("scopes") /\ Respond(<< >>, TRUE, GetScopes)
  /\ scope_names' = GetScopes /\ scopes' = GetScopes
  /\ UNCHANGED <<target, launched, path_to_ref, ref_to_path, next_src_ref, refs>>

(* The body is the scope whose variables are given; None for no scope. *)
Variables ==
  /\ Take("variables")
  /\ LET r == Head(inbox).arg
     IN  Respond(<< >>, TRUE, IF r \in DOMAIN scope_names THEN scope_names[r] ELSE None)
  /\ UNCHANGED <<target, local, refs, scopes>>

(* The target gets the path of the source, or its name; a source known by  *)
(* reference only would arrive as an empty path.                           *)
SetBreakpoints ==
  /\ Take("setBreakpoints")
  /\ LET source == Head(inbox).arg
     IN  Respond(<< >>, TRUE, IF source.path # NoPath THEN source.path ELSE source.name)
  /\ UNCHANGED <<target, local, refs, scopes>>

SourcePath_PathOnly(arg) == arg.path

(* A reference, when there is one, is all that counts. *)
SourcePath(arg) ==
  IF arg.ref = 0 THEN arg.path
  ELSE IF arg.ref \in DOMAIN ref_to_path THEN ref_to_path[arg.ref] ELSE NoPath

(* get_source: the listing of the program that is loaded, or the file that *)
(* the path leads to now                                                   *)
Delivered(path) == IF path = image.listing THEN path ELSE Resolve(path)

Readable(path) == path # NoPath /\ Delivered(path) \in OnDisk \cup {image.listing}

(* The body is the text that is delivered, named by its file. *)
Source ==
  /\ Take("source")
  /\ LET path == SourcePath(Head(inbox).arg)
     IN  /\ Delivered(path) \notin NotUtf8
         /\ IF Readable(path) THEN Respond(<< >>, TRUE, Delivered(path))
            ELSE Respond(<< >>, FALSE, None)
  /\ UNCHANGED <<target, local, refs, scopes>>

-----------------------------------------------------------------------------
(* The loop ends; the client may have gone or not be understood. *)
EndOfSession ==
  /\ \E c \in Endings : Take(c)
  /\ open' = FALSE /\ running' = FALSE
  /\ UNCHANGED <<alive, hung, connections, loaded, place, local, response_seq_, answers,
                 exchange, client>>

(* A typed request, or the text of a response, that the JSON library       *)
(* refuses throws; nothing above the handler catches it.                   *)
HandlerThrows ==
  /\ \/ Take("mistyped")
     \/ Take("source") /\ Delivered(SourcePath(Head(inbox).arg)) \in NotUtf8
  /\ alive' = FALSE /\ open' = FALSE /\ running' = FALSE
  /\ UNCHANGED <<hung, connections, loaded, place, local, response_seq_, answers, exchange, client>>

Init ==
  /\ alive = TRUE /\ open = TRUE /\ hung = FALSE /\ connections = 1
  /\ image = NoImage /\ source_root_ = NoRoot /\ place \in NoImage.places /\ running = FALSE
  /\ launched = FALSE
  /\ path_to_ref = << >> /\ ref_to_path = << >> /\ next_src_ref = 2
  /\ scope_names = << >> /\ response_seq_ = 1
  /\ inbox = << >> /\ number = 0 /\ answers = 0 /\ seen = 0 /\ exchange = None
  /\ refs = {} /\ scopes = << >> /\ expects = FALSE

NewDispatcher_Kept == UNCHANGED response_seq_

NewDispatcher == response_seq_' = 1

(* main accepts the next client, with a fresh target, and run a fresh      *)
(* dispatcher and fresh locals.                                            *)
Accept ==
  /\ alive /\ ~open /\ connections < MaxConnections
  /\ open' = TRUE /\ connections' = connections + 1 /\ UNCHANGED <<alive, hung>>
  /\ image' = NoImage /\ source_root_' = NoRoot /\ place' \in NoImage.places /\ running' = FALSE
  /\ launched' = FALSE
  /\ path_to_ref' = << >> /\ ref_to_path' = << >> /\ next_src_ref' = 2
  /\ scope_names' = << >> /\ NewDispatcher
  /\ inbox' = << >> /\ number' = 0 /\ answers' = 0 /\ seen' = 0 /\ exchange' = None
  /\ refs' = {} /\ scopes' = << >> /\ expects' = FALSE

(* The emulation thread: the program moves and stops. *)
Runs ==
  /\ running
  /\ place' \in image.places /\ running' \in BOOLEAN
  /\ UNCHANGED <<alive, open, hung, connections, loaded, local, response_seq_, inbox,
                 answers, exchange, client>>

Handle ==
  \/ Malformed \/ UnknownCommand \/ Threads \/ Disassemble \/ DisassembleHangs
  \/ Initialize \/ Launch
  \/ ConfigurationDone \/ Disconnect \/ Continue \/ Step \/ StackTrace
  \/ ScopesRequest \/ Variables \/ SetBreakpoints \/ Source
  \/ EndOfSession \/ HandlerThrows

Next == Send \/ Handle \/ Accept \/ Runs

(* The session thread goes on reading what is there to read. *)
Spec == Init /\ [][Next]_vars /\ WF_vars(Handle)

-----------------------------------------------------------------------------
References == 2..(next_src_ref - 1)

(* 0 tells the editor to open the file itself and 1 is kept for the        *)
(* listing (target.cpp:76): every reference is a higher number, and below  *)
(* the next one.                                                           *)
TypeOK ==
  /\ alive \in BOOLEAN /\ open \in BOOLEAN /\ hung \in BOOLEAN
  /\ connections \in 1..MaxConnections
  /\ image \in Images \cup {NoImage} /\ source_root_ \in DOMAIN Found
  /\ place \in Places /\ running \in BOOLEAN
  /\ launched \in BOOLEAN /\ expects \in BOOLEAN
  /\ DOMAIN path_to_ref \subseteq Paths /\ DOMAIN ref_to_path = References
  /\ \A p \in DOMAIN path_to_ref : path_to_ref[p] \in References
  /\ response_seq_ \in Nat /\ answers \in Nat /\ number \in 0..MaxRequests
  /\ Len(inbox) <= MaxPending

(* The references a client was given, at any time of its connection, lead  *)
(* back to the path each was given for, and no path has two                *)
(* (target.cpp:74-85).                                                     *)
RefsLeadBack ==
  \A g \in refs :
    /\ g.ref \in DOMAIN ref_to_path /\ ref_to_path[g.ref] = g.path
    /\ g.path \in DOMAIN path_to_ref /\ path_to_ref[g.path] = g.ref

(* What the roots of the last launch hold under a path. *)
Namesakes(path) ==
  {Found[r][path] : r \in {d \in {source_root_, image.roots} : path \in DOMAIN Found[d]}}

(* A source asked for by the reference or the path the client was given: a *)
(* file on disk, as each that a launch has found is, and the listing of    *)
(* the program that is loaded are delivered as they are meant, however     *)
(* many programs were launched in between.  Any other source (one that its *)
(* own launch did not find, the listing of a program before) is refused,   *)
(* or answered by a file of the same name under the roots of the last      *)
(* launch, which need not be the one it was given for                      *)
(* (target.cpp:380-401 and dbg.cpp:404-440).                               *)
SourceDelivered ==
  exchange # None /\ exchange.request.command = "source" =>
    IF exchange.request.meant \in OnDisk \cup {image.listing}
    THEN exchange.success /\ exchange.body = exchange.request.meant
    ELSE exchange.success => exchange.body \in Namesakes(exchange.request.meant)

(* The variables a client gets are those of the scope it asked for,        *)
(* although the numbers of the scopes change with the place of the program *)
(* (target.cpp:219-251).                                                   *)
ScopeAnswered ==
  exchange # None /\ exchange.request.command = "variables" =>
    exchange.body = exchange.request.meant

(* A client that has launched and not disconnected hears of the entry stop *)
(* before its configurationDone is answered, and one that has not hears of *)
(* none (target.cpp:157-173).                                              *)
EntryReported ==
  exchange # None /\ exchange.request.command = "configurationDone" =>
    exchange.events = IF exchange.request.meant THEN <<"entry">> ELSE << >>

(* The responses of a connection that have a number count from 1 without a *)
(* gap: none is lost, and none of the connection before bleeds into it     *)
(* (dap.cpp:232 "Inject monotonic response seq required by the DAP spec",  *)
(* USING-LIBDAP.md:459 "Construct a fresh target per connection so there   *)
(* is no state bleed between sessions").                                   *)
ResponsesNumbered ==
  [][answers' = answers + 1 /\ exchange'.seq # None => exchange'.seq = seen + 1]_vars

(* The requests the client waits for, up to where it ends its connection. *)
Waiting ==
  IF ~open THEN << >>
  ELSE [i \in {j \in DOMAIN inbox : inbox[j].command \notin Endings} |->
          [number |-> inbox[i].number, sweeps |-> inbox[i].command = "disassemble"]]

Promise ==
  INSTANCE Dialogue WITH
    Numbers <- 0..MaxRequests, waiting <- Waiting, stuck <- hung,
    latest  <- IF answers = 0 THEN 0 ELSE exchange.request_seq

(* While the connection lasts each request is answered once, in order and  *)
(* by name, ...                                                            *)
AnsweredInOrder == Promise!Spec

(* ... and none waits for good, whatever the program under debug does,     *)
(* unless it is a disassemble that does not end or is read behind one      *)
(* (session::run and handle_message implement Dialogue).                   *)
OneAnswerEach == AnsweredInOrder /\ Promise!Fairness
=============================================================================
