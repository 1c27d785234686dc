---------------------------- MODULE SessionProofs ----------------------------
(***************************************************************************)
(* For every set of places, images and files, and every number of          *)
(* requests and connections: the source references of a connection lead    *)
(* back to the paths they were given for; its responses count up from 1;   *)
(* every answer is as the client meant its request (source, scope, entry   *)
(* stop), although requests are sent ahead; and the session is a           *)
(* Dialogue. What a request ahead will find when it is handled is          *)
(* foreseen from the requests before it (IAnswers).                        *)
(***************************************************************************)
EXTENDS Session, SequenceTheorems, TLAPS

(* The two maps are inverses of each other, and no reference has been      *)
(* handed out that is not below the next one: a new one disturbs neither.  *)
Inverses ==
  /\ next_src_ref \in Nat
  /\ \A r \in DOMAIN ref_to_path : r \in Nat /\ r < next_src_ref
  /\ \A p \in DOMAIN path_to_ref :
       path_to_ref[p] \in DOMAIN ref_to_path /\ ref_to_path[path_to_ref[p]] = p

IRefs == Inverses /\ RefsLeadBack

refvars == <<path_to_ref, ref_to_path, next_src_ref, refs>>

(* A step that leaves the references alone keeps the invariant. *)
LEMMA Untouched ==
  ASSUME IRefs, UNCHANGED refvars PROVE IRefs'
BY DEF IRefs, Inverses, RefsLeadBack, refvars

(* So do the fresh maps of a new connection. *)
LEMMA Fresh ==
  ASSUME path_to_ref = << >>, ref_to_path = << >>, next_src_ref = 2, refs = {} PROVE IRefs
BY DEF IRefs, Inverses, RefsLeadBack

(* The same after a step, for a connection that is accepted *)
LEMMA FreshNext ==
  ASSUME path_to_ref' = << >>, ref_to_path' = << >>, next_src_ref' = 2, refs' = {} PROVE IRefs'
BY DEF IRefs, Inverses, RefsLeadBack

(* assign_src_ref for a path that has no reference yet *)
LEMMA NewReference ==
  ASSUME IRefs, NEW path, path \notin DOMAIN path_to_ref,
         Assigned(path), Known(next_src_ref, path)
  PROVE  IRefs'
<1> USE DEF IRefs, Inverses
<1>1. next_src_ref \notin DOMAIN ref_to_path
  OBVIOUS
<1>2. /\ DOMAIN path_to_ref' = DOMAIN path_to_ref \cup {path}
      /\ path_to_ref'[path] = next_src_ref
      /\ \A p \in DOMAIN path_to_ref : path_to_ref'[p] = path_to_ref[p]
  BY DEF Assigned
<1>3. /\ DOMAIN ref_to_path' = DOMAIN ref_to_path \cup {next_src_ref}
      /\ ref_to_path'[next_src_ref] = path
      /\ \A r \in DOMAIN ref_to_path : ref_to_path'[r] = ref_to_path[r]
  BY <1>1 DEF Assigned
<1>4. next_src_ref' \in Nat /\ next_src_ref < next_src_ref' /\ next_src_ref' = next_src_ref + 1
  BY DEF Assigned
<1>5. \A r \in DOMAIN ref_to_path' : r \in Nat /\ r < next_src_ref'
  BY <1>3, <1>4
<1>6. \A p \in DOMAIN path_to_ref' :
        path_to_ref'[p] \in DOMAIN ref_to_path' /\ ref_to_path'[path_to_ref'[p]] = p
  BY <1>2, <1>3
<1>7. RefsLeadBack'
  <2> SUFFICES ASSUME NEW g \in refs'
               PROVE  /\ g.ref \in DOMAIN ref_to_path' /\ ref_to_path'[g.ref] = g.path
                      /\ g.path \in DOMAIN path_to_ref' /\ path_to_ref'[g.path] = g.ref
    BY DEF RefsLeadBack
  <2>1. CASE g \in refs
    BY <2>1, <1>2, <1>3 DEF RefsLeadBack
  <2>2. CASE g = [ref |-> next_src_ref, path |-> path]
    BY <2>2, <1>2, <1>3
  <2> QED
    BY <2>1, <2>2 DEF Known
<1> QED
  BY <1>4, <1>5, <1>6, <1>7

(* stackTrace: no reference, the one the path has, or a new one *)
LEMMA StackTraceKeeps ==
  ASSUME IRefs, StackTrace PROVE IRefs'
<1>1. CASE UNCHANGED refvars
  BY <1>1, Untouched
<1>2. CASE /\ FramePath \in DOMAIN path_to_ref
           /\ Known(path_to_ref[FramePath], FramePath)
           /\ UNCHANGED <<path_to_ref, ref_to_path, next_src_ref>>
  BY <1>2 DEF IRefs, Inverses, RefsLeadBack, Known
<1>3. CASE /\ FramePath \notin DOMAIN path_to_ref
           /\ Assigned(FramePath) /\ Known(next_src_ref, FramePath)
  BY <1>3, NewReference
<1> QED
  BY <1>1, <1>2, <1>3 DEF StackTrace, refvars

(* No step lets a reference lead elsewhere. *)
LEMMA NextKeeps ==
  ASSUME IRefs, [Next]_vars PROVE IRefs'
<1> SUFFICES ASSUME ~UNCHANGED refvars PROVE IRefs'
  BY Untouched
<1>1. CASE StackTrace
  BY <1>1, StackTraceKeeps
<1>2. CASE Accept
  BY <1>2, FreshNext DEF Accept
<1>3. ASSUME Send PROVE FALSE
  BY <1>3 DEF Send, local, refvars
<1>4. ASSUME Runs PROVE FALSE
  BY <1>4 DEF Runs, local, client, refvars
<1>5. ASSUME Malformed PROVE FALSE
  BY <1>5 DEF Malformed, local, client, refvars
<1>6. ASSUME UnknownCommand \/ Threads \/ Initialize \/ ConfigurationDone PROVE FALSE
  BY <1>6 DEF UnknownCommand, Threads, Initialize, ConfigurationDone, local, refvars
<1>11. ASSUME Disassemble \/ DisassembleHangs PROVE FALSE
  BY <1>11 DEF Disassemble, DisassembleHangs, local, client, refvars
<1>7. ASSUME Launch \/ Disconnect \/ Continue \/ Step PROVE FALSE
  BY <1>7 DEF Launch, Disconnect, Continue, Step, local, refvars
<1>8. ASSUME ScopesRequest \/ Variables \/ SetBreakpoints \/ Source PROVE FALSE
  BY <1>8 DEF ScopesRequest, Variables, SetBreakpoints, Source, local, refvars
<1>9. ASSUME EndOfSession \/ HandlerThrows PROVE FALSE
  BY <1>9 DEF EndOfSession, HandlerThrows, local, client, refvars
<1>10. ASSUME UNCHANGED vars PROVE FALSE
  BY <1>10 DEF vars, local, client, refvars
<1> QED
  BY <1>1, <1>2, <1>3, <1>4, <1>5, <1>6, <1>7, <1>8, <1>9, <1>10, <1>11
  DEF Next, Handle

(* The references a client was given lead back to the path each was given  *)
(* for, and no path has two, whatever is launched, stepped and asked in    *)
(* between (assign_src_ref and the source handler of target::run).         *)
THEOREM ReferencesLeadBack == Spec => []RefsLeadBack
<1>1. Init => IRefs
  BY Fresh DEF Init
<1>2. IRefs /\ [Next]_vars => IRefs'
  BY NextKeeps
<1>3. IRefs => RefsLeadBack
  BY DEF IRefs
<1> QED
  BY <1>1, <1>2, <1>3, PTL DEF Spec

-----------------------------------------------------------------------------
(* The number of the last response the client saw is the one before the    *)
(* next, and answers are counted.                                          *)
INumbers == response_seq_ \in Nat /\ seen + 1 = response_seq_ /\ answers \in Nat /\ seen \in Nat

Numbered ==
  answers' = answers + 1 /\ exchange'.seq # None => exchange'.seq = seen + 1

(* A response with a number takes the next one. *)
LEMMA RespondNumbers ==
  ASSUME INumbers, NEW events, NEW success, NEW body, Respond(events, success, body)
  PROVE  INumbers' /\ Numbered
<1>1. exchange'.seq = response_seq_
  BY DEF Respond, Answered
<1> QED
  BY <1>1 DEF Respond, INumbers, Numbered

(* A step that answers nothing leaves the numbers alone. *)
LEMMA SilentNumbers ==
  ASSUME INumbers, UNCHANGED <<response_seq_, seen, answers>> PROVE INumbers' /\ Numbered
BY DEF INumbers, Numbered

(* No step gives a response a number other than the next one. *)
LEMMA NextNumbers ==
  ASSUME INumbers, [Next]_vars PROVE INumbers' /\ Numbered
<1>1. CASE UnknownCommand \/ Threads \/ Initialize \/ Launch \/ ConfigurationDone
  BY <1>1, RespondNumbers DEF UnknownCommand, Threads, Initialize, Launch, ConfigurationDone
<1>2. CASE Disconnect \/ Continue \/ Step \/ ScopesRequest \/ Variables \/ SetBreakpoints
  BY <1>2, RespondNumbers DEF Disconnect, Continue, Step, ScopesRequest, Variables, SetBreakpoints
<1>10. CASE Disassemble
  BY <1>10, RespondNumbers DEF Disassemble
<1>3. CASE StackTrace
  BY <1>3, RespondNumbers DEF StackTrace
<1>4. CASE Source
  BY <1>4, RespondNumbers DEF Source
<1>5. CASE Malformed
  <2>1. exchange'.seq = None
    BY <1>5 DEF Malformed, Answered
  <2> QED
    BY <1>5, <2>1 DEF Malformed, INumbers, Numbered, client
<1>6. CASE Accept
  BY <1>6 DEF Accept, NewDispatcher, INumbers, Numbered
<1>7. CASE Send \/ Runs
  BY <1>7, SilentNumbers DEF Send, Runs, client
<1>8. CASE EndOfSession \/ HandlerThrows \/ DisassembleHangs
  BY <1>8, SilentNumbers DEF EndOfSession, HandlerThrows, DisassembleHangs, client
<1>9. CASE UNCHANGED vars
  BY <1>9, SilentNumbers DEF vars, client
<1> QED
  BY <1>1, <1>2, <1>3, <1>4, <1>5, <1>6, <1>7, <1>8, <1>9, <1>10
  DEF Next, Handle

(* The responses of a connection that have a number count from 1 without a *)
(* gap, over every sequence of requests and of connections (handle_message *)
(* and its response_seq_, a dispatcher for each target::run).              *)
THEOREM ResponsesCountUp == Spec => ResponsesNumbered
<1>1. Init => INumbers
  BY DEF Init, INumbers
<1>2. INumbers /\ [Next]_vars => INumbers' /\ [Numbered]_vars
  BY NextNumbers
<1>3. [Numbered]_vars <=>
        [answers' = answers + 1 /\ exchange'.seq # None => exchange'.seq = seen + 1]_vars
  BY DEF Numbered
<1> QED
  BY <1>1, <1>2, <1>3, PTL DEF Spec, ResponsesNumbered
-----------------------------------------------------------------------------
(* What each request that waits will find when it is handled.              *)

Commands == Plain \cup Endings
              \cup {"configurationDone", "launch", "variables", "source",
                    "setBreakpoints", "malformed"}
ScopeNames == {"Registers", "Locals", "Globals", "MAP Segments", "MAP Symbols"}
AnyPath  == Paths \cup Asked \cup {NoPath}
Args     == {None} \cup Images \cup Nat \cup [ref : Nat, path : AnyPath]
              \cup [path : AnyPath, name : AnyPath]
Meanings == {None} \cup BOOLEAN \cup ScopeNames \cup AnyPath
Requests ==
  {m \in [number : 0..MaxRequests, command : Commands, arg : Args, meant : Meanings] :
     /\ m.command = "launch" => m.arg \in Images
     /\ m.command = "malformed" => m.number = 0}

Typed ==
  /\ TypeOK
  /\ inbox \in Seq(Requests)
  /\ scopes = scope_names /\ scopes \in Seq(ScopeNames)
  /\ next_src_ref \in Nat /\ next_src_ref >= 2
  /\ refs \subseteq [ref : References, path : AnyPath]

(* A client sends nothing behind what ends its connection. *)
EndingLast ==
  \A i \in 1..Len(inbox) : inbox[i].command \in Endings => i = Len(inbox)

(* Is launched_ set after the first n requests that wait? *)
LaunchedAfter(n) ==
  \/ launched /\ \A i \in 1..n : inbox[i].command # "disconnect"
  \/ \E i \in 1..n :
       /\ inbox[i].command = "launch"
       /\ \A j \in (i + 1)..n : inbox[j].command # "disconnect"

EntryForeseen ==
  /\ expects <=> LaunchedAfter(Len(inbox))
  /\ \A i \in 1..Len(inbox) :
       inbox[i].command = "configurationDone" => (inbox[i].meant <=> LaunchedAfter(i - 1))

(* No scopes is handled between those the client numbers by and its        *)
(* variables.                                                              *)
ScopesForeseen ==
  \A i \in 1..Len(inbox) : inbox[i].command = "variables" =>
    /\ inbox[i].arg \in DOMAIN scope_names /\ scope_names[inbox[i].arg] = inbox[i].meant
    /\ \A j \in 1..(i - 1) : inbox[j].command # "scopes"

(* A reference keeps its path for good. *)
SourcesForeseen ==
  \A i \in 1..Len(inbox) : inbox[i].command = "source" =>
    IF inbox[i].arg.ref = 0 THEN inbox[i].arg.path = inbox[i].meant
    ELSE /\ inbox[i].arg.ref \in DOMAIN ref_to_path
         /\ ref_to_path[inbox[i].arg.ref] = inbox[i].meant

Foreseen == EndingLast /\ EntryForeseen /\ ScopesForeseen /\ SourcesForeseen

IAnswers == Typed /\ IRefs /\ Foreseen

(* A path that is shown is one of the program's. *)
LEMMA FramePathType ==
  ASSUME TypeOK PROVE FramePath \in Paths
BY FoundAssumption DEF FramePath, Resolve, Paths, TypeOK

(* What is there to show has names of scopes. *)
LEMMA GetScopesType == GetScopes \in Seq(ScopeNames)
<1> DEFINE Program == IF ~image.cdb THEN << >>
                      ELSE IF place.locals THEN <<"Locals", "Globals">> ELSE <<"Globals">>
           Symbols == IF image.map THEN <<"MAP Segments", "MAP Symbols">> ELSE << >>
<1>1. /\ <<"Registers">> \in Seq(ScopeNames) /\ << >> \in Seq(ScopeNames)
      /\ <<"Locals", "Globals">> \in Seq(ScopeNames) /\ <<"Globals">> \in Seq(ScopeNames)
      /\ <<"MAP Segments", "MAP Symbols">> \in Seq(ScopeNames)
  BY DEF ScopeNames
<1>2. Program \in Seq(ScopeNames) /\ Symbols \in Seq(ScopeNames)  BY <1>1
<1>3. GetScopes = <<"Registers">> \o Program \o Symbols  BY DEF GetScopes
<1> HIDE DEF Program, Symbols
<1>4. <<"Registers">> \o Program \in Seq(ScopeNames)  BY <1>1, <1>2, ConcatProperties
<1> QED  BY <1>2, <1>3, <1>4, ConcatProperties

(* What a client can send is a request. *)
LEMMA MessagesType ==
  ASSUME Typed, number < MaxRequests, NEW m \in Messages
  PROVE  m \in Requests
<1>0. number + 1 \in 0..MaxRequests /\ None \in Args /\ None \in Meanings
  BY BoundAssumption DEF Typed, TypeOK, Args, Meanings
<1>1. ASSUME NEW c \in Plain, m = Request(c, None, None)  PROVE m \in Requests
  <2>1. c \in Commands /\ c \notin {"launch", "malformed"}  BY <1>1 DEF Commands, Plain
  <2> QED  BY <1>0, <1>1, <2>1 DEF Request, Requests
<1>2. CASE m = Request("configurationDone", None, expects)
  <2>1. expects \in Meanings  BY DEF Typed, TypeOK, Meanings
  <2> QED  BY <1>0, <1>2, <2>1 DEF Request, Requests, Commands
<1>3. ASSUME NEW i \in Images, m = Request("launch", i, None)  PROVE m \in Requests
  BY <1>0, <1>3 DEF Request, Requests, Commands, Args
<1>4. ASSUME NEW r \in DOMAIN scopes, m = Request("variables", r, scopes[r])
      PROVE  m \in Requests
  BY <1>0, <1>4 DEF Request, Requests, Commands, Args, Meanings, Typed
<1>5. ASSUME NEW g \in refs, m = Request("source", [ref |-> g.ref, path |-> NoPath], g.path)
      PROVE  m \in Requests
  <2>1. g.ref \in Nat /\ g.path \in AnyPath /\ NoPath \in AnyPath
    BY DEF Typed, TypeOK, References, AnyPath
  <2> QED  BY <1>0, <1>5, <2>1 DEF Request, Requests, Commands, Args, Meanings
<1>6. ASSUME NEW p \in Asked, m = Request("source", [ref |-> 0, path |-> p], p)
      PROVE  m \in Requests
  BY <1>0, <1>6 DEF Request, Requests, Commands, Args, Meanings, AnyPath
<1>7. ASSUME NEW p \in Asked, m = Request("setBreakpoints", [path |-> p, name |-> p], p)
      PROVE  m \in Requests
  BY <1>0, <1>7 DEF Request, Requests, Commands, Args, Meanings, AnyPath
<1>8. ASSUME NEW c \in Endings \cup {"malformed"},
             m = [Request(c, None, None) EXCEPT !.number = 0]
      PROVE  m \in Requests
  <2>1. m = [number |-> 0, command |-> c, arg |-> None, meant |-> None]
    BY <1>8 DEF Request
  <2>2. 0 \in 0..MaxRequests  BY BoundAssumption
  <2>3. c \in Commands /\ c # "launch"  BY <1>8 DEF Commands, Endings
  <2> QED  BY <1>0, <2>1, <2>2, <2>3 DEF Requests
<1> QED
  BY <1>1, <1>2, <1>3, <1>4, <1>5, <1>6, <1>7, <1>8 DEF Messages

(* Taking a request leaves requests. *)
LEMMA TakeShifts ==
  ASSUME Typed, NEW c, Take(c)
  PROVE  /\ inbox \in Seq(Requests) /\ inbox # << >> /\ inbox[1] = Head(inbox)
         /\ Head(inbox) \in Requests /\ Head(inbox).command = c
         /\ inbox' \in Seq(Requests) /\ Len(inbox') = Len(inbox) - 1
         /\ \A i \in 1..Len(inbox') : i + 1 \in 1..Len(inbox) /\ inbox'[i] = inbox[i + 1]
BY DEF Typed, Take

USE DEF UnknownCommand, Threads, Disassemble, Initialize, ConfigurationDone, Variables, SetBreakpoints,
        Launch, Disconnect, Continue, Step, StackTrace, ScopesRequest, Source, Malformed,
        EndOfSession, HandlerThrows, Accept, NewDispatcher, Runs,
        DisassembleHangs, Handle, vars, loaded, target, local, client

(* What the handling of a command does to what is known of the requests    *)
(* behind it.                                                              *)
Handles(c) ==
  /\ c \in Commands /\ Take(c)
  /\ launched' = IF c = "launch" THEN TRUE
                 ELSE IF c = "disconnect" THEN FALSE ELSE launched
  /\ c # "scopes" => scope_names' = scope_names
  /\ \A r \in DOMAIN ref_to_path : r \in DOMAIN ref_to_path' /\ ref_to_path'[r] = ref_to_path[r]
  /\ expects' = expects

(* Every handler that ends takes the first message and changes what its    *)
(* command may.                                                            *)
LEMMA HandleFrame ==
  ASSUME Typed, Handle, ~DisassembleHangs
  PROVE  \E c \in Commands : Handles(c)
<1> USE DEF Handles, Respond, local, Commands, Plain, Endings
<1>1. Malformed => Handles("malformed")  OBVIOUS
<1>2. UnknownCommand => Handles("notfound")  OBVIOUS
<1>3. Threads => Handles("threads")  OBVIOUS
<1>17. Disassemble => Handles("disassemble")  OBVIOUS
<1>4. Initialize => Handles("initialize")  OBVIOUS
<1>5. Launch => Handles("launch")  OBVIOUS
<1>6. ConfigurationDone => Handles("configurationDone")  OBVIOUS
<1>7. Disconnect => Handles("disconnect")  OBVIOUS
<1>8. Continue => Handles("continue")  OBVIOUS
<1>9. Step => Handles("step")  OBVIOUS
<1>10. StackTrace => Handles("stackTrace")
  <2>1. Assigned(FramePath) =>
          \A r \in DOMAIN ref_to_path :
            r \in DOMAIN ref_to_path' /\ ref_to_path'[r] = ref_to_path[r]
    BY DEF Assigned, Typed, TypeOK, References
  <2> QED  BY <2>1
<1>11. ScopesRequest => Handles("scopes")  OBVIOUS
<1>12. Variables => Handles("variables")  OBVIOUS
<1>13. SetBreakpoints => Handles("setBreakpoints")  OBVIOUS
<1>14. Source => Handles("source")  OBVIOUS
<1>15. EndOfSession => \E c \in Endings : Handles(c)  OBVIOUS
<1>16. HandlerThrows => Handles("mistyped") \/ Handles("source")  OBVIOUS
<1> QED
  BY <1>1, <1>2, <1>3, <1>4, <1>5, <1>6, <1>7, <1>8, <1>9, <1>10, <1>11, <1>12, <1>13,
     <1>14, <1>15, <1>16, <1>17

(* A handler that ends answers, or the connection ends. *)
LEMMA HandleAnswers ==
  ASSUME Handle, ~DisassembleHangs
  PROVE  /\ UNCHANGED <<hung, connections, number, expects>>
         /\ \/ UNCHANGED <<alive, open, response_seq_>> /\ answers' = answers + 1
            \/ /\ UNCHANGED <<alive, open>>
               /\ response_seq_' = response_seq_ + 1 /\ answers' = answers + 1
            \/ /\ open' = FALSE /\ (alive' = FALSE \/ alive' = alive)
               /\ UNCHANGED <<response_seq_, answers>>
<1>1. Malformed \/ EndOfSession \/ HandlerThrows \/ \E e, s, b : Respond(e, s, b)
  OBVIOUS
<1>2. CASE Malformed  BY <1>2
<1>3. CASE EndOfSession  BY <1>3
<1>4. CASE HandlerThrows  BY <1>4
<1>5. CASE \E e, s, b : Respond(e, s, b)  BY <1>5 DEF Respond
<1> QED  BY <1>1, <1>2, <1>3, <1>4, <1>5

(* Only a launch changes the program, only stackTrace the references and   *)
(* only scopes the scopes.                                                 *)
LEMMA HandleChanges ==
  ASSUME Handle
  PROVE  /\ \/ UNCHANGED loaded
            \/ /\ Take("launch") /\ image' = Head(inbox).arg
               /\ source_root_' = IF image'.program THEN image'.root ELSE source_root_
         /\ UNCHANGED place \/ place' \in image'.places
         /\ UNCHANGED running \/ running' \in BOOLEAN
         /\ UNCHANGED launched \/ launched' \in BOOLEAN
         /\ ~StackTrace => UNCHANGED <<path_to_ref, ref_to_path, next_src_ref, refs>>
         /\ \/ UNCHANGED <<scope_names, scopes>>
            \/ scope_names' = GetScopes /\ scopes' = GetScopes
<1>1. \/ UNCHANGED loaded
      \/ /\ Take("launch") /\ image' = Head(inbox).arg
         /\ source_root_' = IF image'.program THEN image'.root ELSE source_root_
  OBVIOUS
<1>2. UNCHANGED place \/ place' \in image'.places  OBVIOUS
<1>3. /\ UNCHANGED running \/ running' \in BOOLEAN
      /\ UNCHANGED launched \/ launched' \in BOOLEAN
  OBVIOUS
<1>4. ~StackTrace => UNCHANGED <<path_to_ref, ref_to_path, next_src_ref, refs>>  OBVIOUS
<1>5. \/ UNCHANGED <<scope_names, scopes>>
      \/ scope_names' = GetScopes /\ scopes' = GetScopes
  OBVIOUS
<1> QED  BY <1>1, <1>2, <1>3, <1>4, <1>5

HIDE DEF Handle

(* Every step is well typed. *)
LEMMA TypedStep ==
  ASSUME Typed, [Next]_vars
  PROVE  Typed'
<1>0. CASE UNCHANGED vars
  BY <1>0 DEF Typed, TypeOK, References
<1>5. CASE DisassembleHangs
  <2>1. /\ hung' = TRUE
        /\ UNCHANGED <<alive, open, connections, image, source_root_, place, running, launched,
                        path_to_ref, ref_to_path, next_src_ref, scope_names, response_seq_,
                        inbox, answers, number, refs, scopes, expects>>
    BY <1>5
  <2> QED  BY <2>1 DEF Typed, TypeOK, References
<1>1. CASE Handle /\ ~DisassembleHangs
  <2>1. PICK c \in Commands : Take(c)  BY <1>1, HandleFrame DEF Handles
  <2>2. inbox' \in Seq(Requests) /\ Len(inbox') <= MaxPending
    <3>1. inbox' \in Seq(Requests) /\ Len(inbox') = Len(inbox) - 1
      BY <2>1, TakeShifts
    <3>2. inbox \in Seq(Requests) /\ Len(inbox) <= MaxPending
      BY DEF Typed, TypeOK
    <3> QED  BY ONLY <3>1, <3>2, BoundAssumption
  <2>3. /\ connections' \in 1..MaxConnections /\ number' \in 0..MaxRequests
        /\ response_seq_' \in Nat /\ answers' \in Nat
    <3>1. /\ connections \in 1..MaxConnections /\ number \in 0..MaxRequests
          /\ response_seq_ \in Nat /\ answers \in Nat
      BY DEF Typed, TypeOK
    <3>2. /\ UNCHANGED <<connections, number>>
          /\ UNCHANGED response_seq_ \/ response_seq_' = response_seq_ + 1
          /\ UNCHANGED answers \/ answers' = answers + 1
      BY <1>1, HandleAnswers
    <3> QED  BY ONLY <3>1, <3>2, BoundAssumption
  <2>8. alive' \in BOOLEAN /\ open' \in BOOLEAN /\ hung' \in BOOLEAN /\ expects' \in BOOLEAN
    <3>1. alive \in BOOLEAN /\ open \in BOOLEAN /\ hung \in BOOLEAN /\ expects \in BOOLEAN
      BY DEF Typed, TypeOK
    <3> QED  BY <1>1, <3>1, HandleAnswers
  <2>4. image' \in Images \cup {NoImage} /\ source_root_' \in DOMAIN Found
    <3>1. CASE /\ Take("launch") /\ image' = Head(inbox).arg
               /\ source_root_' = IF image'.program THEN image'.root ELSE source_root_
      <4>1. image' \in Images  BY <3>1, TakeShifts DEF Requests
      <4> QED  BY <3>1, <4>1, FoundAssumption DEF Typed, TypeOK
    <3>2. CASE UNCHANGED loaded  BY <3>2 DEF Typed, TypeOK
    <3> QED  BY <1>1, <3>1, <3>2, HandleChanges
  <2>5. place' \in Places /\ running' \in BOOLEAN /\ launched' \in BOOLEAN
    BY <1>1, <2>4, HandleChanges, PlacesAssumption DEF Typed, TypeOK
  <2>6. /\ DOMAIN path_to_ref' \subseteq Paths /\ DOMAIN ref_to_path' = References'
        /\ \A p \in DOMAIN path_to_ref' : path_to_ref'[p] \in References'
        /\ next_src_ref' \in Nat /\ next_src_ref' >= 2
        /\ refs' \subseteq [ref : References', path : AnyPath]
    <3> USE DEF Typed, TypeOK, References
    <3>1. CASE StackTrace
      <4>1. FramePath \in Paths  BY FramePathType
      <4>2. CASE UNCHANGED <<path_to_ref, ref_to_path, next_src_ref, refs>>  BY <4>2
      <4>3. CASE /\ FramePath \in DOMAIN path_to_ref
                 /\ Known(path_to_ref[FramePath], FramePath)
                 /\ UNCHANGED <<path_to_ref, ref_to_path, next_src_ref>>
        BY <4>1, <4>3 DEF Known, AnyPath
      <4>4. CASE Assigned(FramePath) /\ Known(next_src_ref, FramePath)
        <5>1. /\ DOMAIN path_to_ref' = DOMAIN path_to_ref \cup {FramePath}
              /\ \A p \in DOMAIN path_to_ref' :
                   path_to_ref'[p] = next_src_ref \/ (p \in DOMAIN path_to_ref /\ path_to_ref'[p] = path_to_ref[p])
              /\ DOMAIN ref_to_path' = DOMAIN ref_to_path \cup {next_src_ref}
              /\ next_src_ref' = next_src_ref + 1
          BY <4>4 DEF Assigned
        <5>2. next_src_ref \in References' BY <5>1
        <5>3. refs' = refs \cup {[ref |-> next_src_ref, path |-> FramePath]} BY <4>4 DEF Known
        <5>4. DOMAIN ref_to_path' = References' BY <5>1
        <5>5. \A p \in DOMAIN path_to_ref' : path_to_ref'[p] \in References' BY <5>1
        <5>6. refs' \subseteq [ref : References', path : AnyPath]
          BY <4>1, <5>1, <5>3 DEF AnyPath
        <5> QED  BY <4>1, <5>1, <5>4, <5>5, <5>6
      <4> QED  BY <3>1, <4>2, <4>3, <4>4
    <3>2. CASE UNCHANGED <<path_to_ref, ref_to_path, next_src_ref, refs>>  BY <3>2
    <3> QED  BY <1>1, <3>1, <3>2, HandleChanges
  <2>7. scopes' = scope_names' /\ scopes' \in Seq(ScopeNames)
    BY <1>1, HandleChanges, GetScopesType DEF Typed
  <2> QED
    BY <2>2, <2>3, <2>4, <2>5, <2>6, <2>7, <2>8 DEF Typed, TypeOK
<1>2. CASE Send
  <2>1. PICK m \in Messages : /\ inbox' = Append(inbox, m)
                             /\ expects' = CASE m.command = "launch" -> TRUE
                                             [] m.command = "disconnect" -> FALSE
                                             [] OTHER -> expects
    BY <1>2 DEF Send
  <2>2. m \in Requests  BY <1>2, MessagesType DEF Send
  <2>3. /\ inbox \in Seq(Requests) /\ Len(inbox) < MaxPending
    BY <1>2 DEF Send, Typed
  <2>4. inbox' \in Seq(Requests) /\ Len(inbox') <= MaxPending
    BY <2>1, <2>2, <2>3, BoundAssumption
  <2>5. number' \in 0..MaxRequests /\ expects' \in BOOLEAN
    <3>1. /\ number \in 0..MaxRequests /\ expects \in BOOLEAN
          /\ number < MaxRequests /\ number' = number + 1
      BY <1>2 DEF Send, Typed, TypeOK
    <3>2. number' \in 0..MaxRequests  BY <3>1, BoundAssumption
    <3>3. expects' \in BOOLEAN  BY <2>1, <3>1
    <3> QED  BY <3>2, <3>3
  <2>6. UNCHANGED <<alive, open, hung, connections, image, source_root_, place, running, launched, path_to_ref,
                    ref_to_path, next_src_ref, scope_names, response_seq_, answers, refs,
                    scopes>>
    BY <1>2 DEF Send
  <2>7. References' = References /\ refs' \subseteq [ref : References', path : AnyPath]
    BY <2>6 DEF References, Typed
  <2>8. /\ DOMAIN path_to_ref' \subseteq Paths /\ DOMAIN ref_to_path' = References'
        /\ \A p \in DOMAIN path_to_ref' : path_to_ref'[p] \in References'
    BY <2>6, <2>7 DEF Typed, TypeOK
  <2> QED
    BY <2>4, <2>5, <2>6, <2>7, <2>8 DEF Typed, TypeOK
<1>3. CASE Accept
  <2>1. connections' \in 1..MaxConnections
    BY <1>3, BoundAssumption DEF Typed, TypeOK
  <2>2. DOMAIN ref_to_path' = References' /\ DOMAIN path_to_ref' = {}
    BY <1>3 DEF References
  <2>3. inbox' \in Seq(Requests) /\ Len(inbox') = 0 /\ scopes' \in Seq(ScopeNames)
    BY <1>3
  <2>4. /\ alive' \in BOOLEAN /\ open' \in BOOLEAN /\ hung' \in BOOLEAN
        /\ running' \in BOOLEAN
        /\ launched' \in BOOLEAN /\ expects' \in BOOLEAN
    BY <1>3 DEF Typed, TypeOK
  <2>5. /\ image' \in Images \cup {NoImage} /\ source_root_' \in DOMAIN Found
        /\ place' \in Places /\ response_seq_' \in Nat /\ answers' \in Nat /\ number' \in 0..MaxRequests
        /\ next_src_ref' \in Nat /\ next_src_ref' >= 2
        /\ refs' = {} /\ scopes' = scope_names'
    BY <1>3, BoundAssumption, PlacesAssumption, FoundAssumption
  <2> QED  BY <2>1, <2>2, <2>3, <2>4, <2>5, BoundAssumption DEF Typed, TypeOK
<1>4. CASE Runs
  <2>1. /\ place' \in image.places /\ running' \in BOOLEAN
        /\ UNCHANGED <<alive, open, hung, connections, image, source_root_, launched, path_to_ref, ref_to_path,
                        next_src_ref, scope_names, response_seq_, inbox, answers, number,
                        refs, scopes, expects>>
    BY <1>4 DEF local
  <2>2. place' \in Places  BY <2>1, PlacesAssumption DEF Typed, TypeOK
  <2> QED  BY <2>1, <2>2 DEF Typed, TypeOK, References
<1> QED
  BY <1>0, <1>1, <1>2, <1>3, <1>4, <1>5 DEF Next

(* What a client means by a request is so when it sends it. *)
LEMMA MessageMeans ==
  ASSUME Typed, IRefs, NEW m \in Messages
  PROVE  /\ m.command = "configurationDone" => m.meant = expects
         /\ m.command = "variables" =>
              /\ m.arg \in DOMAIN scope_names /\ scope_names[m.arg] = m.meant
              /\ \A j \in 1..Len(inbox) : inbox[j].command # "scopes"
         /\ m.command = "source" =>
              IF m.arg.ref = 0 THEN m.arg.path = m.meant
              ELSE m.arg.ref \in DOMAIN ref_to_path /\ ref_to_path[m.arg.ref] = m.meant
<1> USE DEF Messages, Request, Plain, Endings
<1>1. m.command = "configurationDone" => m.meant = expects
  OBVIOUS
<1>2. m.command = "variables" =>
        /\ m.arg \in DOMAIN scope_names /\ scope_names[m.arg] = m.meant
        /\ \A j \in 1..Len(inbox) : inbox[j].command # "scopes"
  <2>1. ASSUME m.command = "variables"
        PROVE  /\ \A j \in DOMAIN inbox : inbox[j].command # "scopes"
               /\ \E r \in DOMAIN scopes : m = Request("variables", r, scopes[r])
    BY <2>1
  <2>2. scopes = scope_names /\ DOMAIN inbox = 1..Len(inbox)  BY DEF Typed
  <2> QED  BY <2>1, <2>2
<1>3. ASSUME m.command = "source"
      PROVE  IF m.arg.ref = 0 THEN m.arg.path = m.meant
             ELSE m.arg.ref \in DOMAIN ref_to_path /\ ref_to_path[m.arg.ref] = m.meant
  <2>1. CASE \E p \in Asked : m = Request("source", [ref |-> 0, path |-> p], p)
    BY <2>1
  <2>2. ASSUME NEW g \in refs, m = Request("source", [ref |-> g.ref, path |-> NoPath], g.path)
        PROVE  m.arg.ref # 0 /\ m.arg.ref \in DOMAIN ref_to_path
               /\ ref_to_path[m.arg.ref] = m.meant
    BY <2>2 DEF Typed, References, IRefs, RefsLeadBack
  <2> QED  BY <1>3, <2>1, <2>2
<1> QED  BY <1>1, <1>2, <1>3

(* What waits behind a request that is handled meets what it meets anyway. *)
LEMMA ForeseenHandle ==
  ASSUME Typed, Foreseen, NEW c \in Commands, Handles(c)
  PROVE  Foreseen'
<1>1. /\ inbox \in Seq(Requests) /\ inbox # << >> /\ inbox[1].command = c
      /\ inbox' \in Seq(Requests) /\ Len(inbox') = Len(inbox) - 1
      /\ \A i \in 1..Len(inbox') : i + 1 \in 1..Len(inbox) /\ inbox'[i] = inbox[i + 1]
  BY TakeShifts DEF Handles
<1>2. /\ launched' = IF c = "launch" THEN TRUE
                     ELSE IF c = "disconnect" THEN FALSE ELSE launched
      /\ c # "scopes" => scope_names' = scope_names
      /\ \A r \in DOMAIN ref_to_path :
           r \in DOMAIN ref_to_path' /\ ref_to_path'[r] = ref_to_path[r]
      /\ expects' = expects
  BY DEF Handles
<1> HIDE DEF Typed, Handles, Foreseen
<1>3. EndingLast'
  BY <1>1 DEF Foreseen, EndingLast
<1>4. ASSUME NEW n \in 0..Len(inbox')
      PROVE  LaunchedAfter(n)' <=> LaunchedAfter(n + 1)
  <2>1. \A i \in 1..n : inbox'[i] = inbox[i + 1] /\ i + 1 \in 2..(n + 1)
    BY <1>1
  <2>2. \A k \in 2..(n + 1) : k - 1 \in 1..n /\ inbox[k] = inbox'[k - 1]
    BY <2>1
  <2>3. ASSUME LaunchedAfter(n)'  PROVE LaunchedAfter(n + 1)
    <3>1. CASE launched' /\ \A i \in 1..n : inbox'[i].command # "disconnect"
      <4>1. \A k \in 2..(n + 1) : inbox[k].command # "disconnect"  BY <2>2, <3>1
      <4>2. c = "launch" \/ (launched /\ c # "disconnect")  BY <1>2, <3>1
      <4>3. CASE c = "launch"  BY <1>1, <4>1, <4>3 DEF LaunchedAfter
      <4>4. CASE launched /\ c # "disconnect"  BY <1>1, <4>1, <4>4 DEF LaunchedAfter
      <4> QED  BY <4>2, <4>3, <4>4
    <3>2. ASSUME NEW i \in 1..n, inbox'[i].command = "launch",
                 \A j \in (i + 1)..n : inbox'[j].command # "disconnect"
          PROVE  LaunchedAfter(n + 1)
      <4>1. i + 1 \in 1..(n + 1) /\ inbox[i + 1].command = "launch"  BY <2>1, <3>2
      <4>2. \A k \in ((i + 1) + 1)..(n + 1) : inbox[k].command # "disconnect"
        BY <2>2, <3>2
      <4> QED  BY <4>1, <4>2 DEF LaunchedAfter
    <3> QED  BY <2>3, <3>1, <3>2 DEF LaunchedAfter
  <2>4. ASSUME LaunchedAfter(n + 1)  PROVE LaunchedAfter(n)'
    <3>1. CASE launched /\ \A k \in 1..(n + 1) : inbox[k].command # "disconnect"
      <4>1. launched'  BY <1>1, <1>2, <3>1
      <4>2. \A i \in 1..n : i + 1 \in 1..(n + 1)  OBVIOUS
      <4>3. \A i \in 1..n : inbox'[i].command # "disconnect"  BY <2>1, <3>1, <4>2
      <4> QED  BY <4>1, <4>3 DEF LaunchedAfter
    <3>2. ASSUME NEW k \in 1..(n + 1), inbox[k].command = "launch",
                 \A j \in (k + 1)..(n + 1) : inbox[j].command # "disconnect"
          PROVE  LaunchedAfter(n)'
      <4>1. CASE k = 1
        <5>1. launched'  BY <1>1, <1>2, <3>2, <4>1
        <5>2. \A i \in 1..n : inbox'[i].command # "disconnect"  BY <2>1, <3>2, <4>1
        <5> QED  BY <5>1, <5>2 DEF LaunchedAfter
      <4>2. CASE k # 1
        <5>1. k - 1 \in 1..n /\ inbox'[k - 1].command = "launch"  BY <2>2, <3>2, <4>2
        <5>2. \A i \in k..n : i \in 1..n /\ i + 1 \in (k + 1)..(n + 1)  OBVIOUS
        <5>3. \A i \in k..n : inbox'[i].command # "disconnect"
          BY <2>1, <3>2, <5>2
        <5>4. (k - 1) + 1 = k  OBVIOUS
        <5> QED  BY <5>1, <5>3, <5>4 DEF LaunchedAfter
      <4> QED  BY <4>1, <4>2
    <3> QED  BY <2>4, <3>1, <3>2 DEF LaunchedAfter
  <2> QED  BY <2>3, <2>4
<1>5. EntryForeseen'
  <2>1. expects' <=> LaunchedAfter(Len(inbox))'
    <3>1. expects <=> LaunchedAfter(Len(inbox))  BY DEF Foreseen, EntryForeseen
    <3>2. PICK n \in 0..Len(inbox') : n = Len(inbox') /\ n + 1 = Len(inbox)  BY <1>1
    <3>3. LaunchedAfter(n)' <=> LaunchedAfter(n + 1)  BY <1>4
    <3> QED  BY <1>2, <3>1, <3>2, <3>3
  <2>2. ASSUME NEW i \in 1..Len(inbox'), inbox'[i].command = "configurationDone"
        PROVE  inbox'[i].meant <=> LaunchedAfter(i - 1)'
    <3>1. inbox[i + 1].meant <=> LaunchedAfter((i + 1) - 1)
      BY <1>1, <2>2 DEF Foreseen, EntryForeseen
    <3>2. i - 1 \in 0..Len(inbox') /\ (i - 1) + 1 = (i + 1) - 1  BY <1>1
    <3> QED  BY <1>1, <1>4, <3>1, <3>2
  <2> QED  BY <2>1, <2>2 DEF EntryForeseen
<1>6. ScopesForeseen'
  <2> SUFFICES ASSUME NEW i \in 1..Len(inbox'), inbox'[i].command = "variables"
               PROVE  /\ inbox'[i].arg \in DOMAIN scope_names'
                      /\ scope_names'[inbox'[i].arg] = inbox'[i].meant
                      /\ \A j \in 1..(i - 1) : inbox'[j].command # "scopes"
    BY DEF ScopesForeseen
  <2>1. /\ inbox[i + 1].arg \in DOMAIN scope_names
        /\ scope_names[inbox[i + 1].arg] = inbox[i + 1].meant
        /\ \A j \in 1..((i + 1) - 1) : inbox[j].command # "scopes"
    BY <1>1 DEF Foreseen, ScopesForeseen
  <2>2. c # "scopes"
    <3>1. 1 \in 1..((i + 1) - 1)  BY <1>1
    <3> QED  BY <1>1, <2>1, <3>1
  <2>3. \A j \in 1..(i - 1) : inbox'[j].command # "scopes"  BY <1>1, <2>1
  <2> QED  BY <1>1, <1>2, <2>1, <2>2, <2>3
<1>7. SourcesForeseen'
  <2> SUFFICES ASSUME NEW i \in 1..Len(inbox'), inbox'[i].command = "source"
               PROVE  IF inbox'[i].arg.ref = 0 THEN inbox'[i].arg.path = inbox'[i].meant
                      ELSE /\ inbox'[i].arg.ref \in DOMAIN ref_to_path'
                           /\ ref_to_path'[inbox'[i].arg.ref] = inbox'[i].meant
    BY DEF SourcesForeseen
  <2>1. IF inbox[i + 1].arg.ref = 0 THEN inbox[i + 1].arg.path = inbox[i + 1].meant
        ELSE /\ inbox[i + 1].arg.ref \in DOMAIN ref_to_path
             /\ ref_to_path[inbox[i + 1].arg.ref] = inbox[i + 1].meant
    BY <1>1 DEF Foreseen, SourcesForeseen
  <2> QED  BY <1>1, <1>2, <2>1
<1> QED  BY <1>3, <1>5, <1>6, <1>7 DEF Foreseen

(* A request that is sent is behind all others. *)
LEMMA ForeseenSend ==
  ASSUME Typed, IRefs, Foreseen, Send
  PROVE  Foreseen'
<1>1. PICK m \in Messages : /\ inbox' = Append(inbox, m)
                            /\ expects' = CASE m.command = "launch" -> TRUE
                                            [] m.command = "disconnect" -> FALSE
                                            [] OTHER -> expects
  BY DEF Send
<1>2. m \in Requests  BY MessagesType DEF Send
<1>3. /\ UNCHANGED <<launched, scope_names, ref_to_path>>
      /\ \A i \in 1..Len(inbox) : inbox[i].command \notin Endings
  BY DEF Send, local, Typed
<1>4. /\ m.command = "configurationDone" => m.meant = expects
      /\ m.command = "variables" =>
           /\ m.arg \in DOMAIN scope_names /\ scope_names[m.arg] = m.meant
           /\ \A j \in 1..Len(inbox) : inbox[j].command # "scopes"
      /\ m.command = "source" =>
           IF m.arg.ref = 0 THEN m.arg.path = m.meant
           ELSE m.arg.ref \in DOMAIN ref_to_path /\ ref_to_path[m.arg.ref] = m.meant
  BY MessageMeans
<1>n. PICK n \in Nat : n = Len(inbox)  BY DEF Typed
<1>5. /\ n = Len(inbox) /\ Len(inbox') = n + 1 /\ inbox'[n + 1] = m
      /\ \A i \in 1..n : inbox'[i] = inbox[i]
  BY <1>1, <1>2, <1>n DEF Typed
<1> HIDE DEF Typed, Foreseen
<1>6. EndingLast'
  BY <1>3, <1>5 DEF EndingLast
<1>7. ASSUME NEW k \in 0..n  PROVE LaunchedAfter(k)' <=> LaunchedAfter(k)
  <2>1. \A i \in 1..k : inbox'[i] = inbox[i]  BY <1>5
  <2>2. \A i \in 1..k : \A j \in (i + 1)..k : inbox'[j] = inbox[j]  BY <1>5
  <2>3. LaunchedAfter(k)' => LaunchedAfter(k)  BY <1>3, <2>1, <2>2 DEF LaunchedAfter
  <2>4. LaunchedAfter(k) => LaunchedAfter(k)'  BY <1>3, <2>1, <2>2 DEF LaunchedAfter
  <2> QED  BY <2>3, <2>4
<1>8. EntryForeseen'
  <2>1. expects <=> LaunchedAfter(n)  BY <1>5 DEF Foreseen, EntryForeseen
  <2>2. LaunchedAfter(n)' <=> LaunchedAfter(n)  BY <1>5, <1>7
  <2>3. expects' <=> LaunchedAfter(n + 1)'
    <3>1. CASE m.command = "launch"
      <4>1. LaunchedAfter(n + 1)'  BY <1>5, <3>1 DEF LaunchedAfter
      <4> QED  BY <1>1, <3>1, <4>1
    <3>2. CASE m.command = "disconnect"
      <4>1. ~LaunchedAfter(n + 1)'
        <5>1. n + 1 \in 1..(n + 1)  BY <1>5
        <5>2. \A i \in 1..(n + 1) : inbox'[i].command = "launch" => n + 1 \in (i + 1)..(n + 1)
          BY <1>5, <3>2
        <5> QED  BY <1>5, <3>2, <5>1, <5>2 DEF LaunchedAfter
      <4> QED  BY <1>1, <3>2, <4>1
    <3>3. CASE m.command \notin {"launch", "disconnect"}
      <4>1. LaunchedAfter(n + 1)' <=> LaunchedAfter(n)'
        <5>1. ASSUME LaunchedAfter(n + 1)'  PROVE LaunchedAfter(n)'
          BY <1>5, <3>3, <5>1 DEF LaunchedAfter
        <5>2. ASSUME LaunchedAfter(n)'  PROVE LaunchedAfter(n + 1)'
          BY <1>5, <3>3, <5>2 DEF LaunchedAfter
        <5> QED  BY <5>1, <5>2
      <4>2. expects' = expects  BY <1>1, <3>3
      <4> QED  BY <2>1, <2>2, <4>1, <4>2
    <3> QED  BY <3>1, <3>2, <3>3
  <2>4. ASSUME NEW i \in 1..Len(inbox'), inbox'[i].command = "configurationDone"
        PROVE  inbox'[i].meant <=> LaunchedAfter(i - 1)'
    <3>1. CASE i \in 1..n
      <4>1. inbox[i].meant <=> LaunchedAfter(i - 1)
        BY <1>5, <2>4, <3>1 DEF Foreseen, EntryForeseen
      <4>2. i - 1 \in 0..n  BY <1>5, <3>1
      <4> QED  BY <1>5, <1>7, <3>1, <4>1, <4>2
    <3>2. CASE i = n + 1
      <4>1. i - 1 = n /\ inbox'[i].meant = expects  BY <1>4, <1>5, <2>4, <3>2
      <4> QED  BY <2>1, <2>2, <4>1
    <3> QED  BY <1>5, <3>1, <3>2
  <2> QED  BY <1>5, <2>3, <2>4 DEF EntryForeseen
<1>9. ScopesForeseen'
  BY <1>3, <1>4, <1>5 DEF Foreseen, ScopesForeseen
<1>10. SourcesForeseen'
  BY <1>3, <1>4, <1>5 DEF Foreseen, SourcesForeseen
<1> QED  BY <1>6, <1>8, <1>9, <1>10 DEF Foreseen

(* Every step keeps what is foreseen. *)
LEMMA ForeseenStep ==
  ASSUME Typed, IRefs, Foreseen, [Next]_vars
  PROVE  Foreseen'
<1>1. CASE Handle /\ ~DisassembleHangs  BY <1>1, HandleFrame, ForeseenHandle
<1>2. CASE Send  BY <1>2, ForeseenSend
<1>3. CASE Accept
  BY <1>3 DEF Foreseen, EndingLast, EntryForeseen, LaunchedAfter, ScopesForeseen,
              SourcesForeseen
<1>4. CASE UNCHANGED <<inbox, launched, scope_names, ref_to_path, expects>>
  BY <1>4 DEF Foreseen, EndingLast, EntryForeseen, LaunchedAfter, ScopesForeseen,
              SourcesForeseen
<1> QED
  BY <1>1, <1>2, <1>3, <1>4 DEF Next, local

(* What is foreseen for every message on its way holds in every state. *)
LEMMA AnswersInvariance == Spec => []IAnswers
<1>1. Init => IAnswers
  <2> SUFFICES ASSUME Init PROVE IAnswers  OBVIOUS
  <2>1. DOMAIN ref_to_path = References /\ DOMAIN path_to_ref = {}  BY DEF Init, References
  <2>2. inbox \in Seq(Requests) /\ Len(inbox) = 0 /\ scopes \in Seq(ScopeNames)  BY DEF Init
  <2>3. Typed
    <3>1. /\ alive \in BOOLEAN /\ open \in BOOLEAN /\ hung \in BOOLEAN /\ running \in BOOLEAN
          /\ launched \in BOOLEAN /\ expects \in BOOLEAN
      BY DEF Init
    <3>2. /\ image \in Images \cup {NoImage} /\ source_root_ \in DOMAIN Found
          /\ place \in Places /\ response_seq_ \in Nat /\ answers \in Nat /\ number \in 0..MaxRequests
          /\ next_src_ref \in Nat /\ next_src_ref >= 2
          /\ refs = {} /\ scopes = scope_names /\ connections \in 1..MaxConnections
      BY BoundAssumption, PlacesAssumption, FoundAssumption DEF Init
    <3> QED  BY <2>1, <2>2, <3>1, <3>2, BoundAssumption DEF Typed, TypeOK
  <2>4. IRefs  BY Fresh DEF Init
  <2>5. Foreseen
    BY DEF Init, Foreseen, EndingLast, EntryForeseen, LaunchedAfter, ScopesForeseen,
           SourcesForeseen
  <2> QED  BY <2>3, <2>4, <2>5 DEF IAnswers
<1>2. IAnswers /\ [Next]_vars => IAnswers'
  BY TypedStep, NextKeeps, ForeseenStep DEF IAnswers
<1> QED
  BY <1>1, <1>2, PTL DEF Spec

(* Every variable of the session stays in its type, whatever is asked.     *)
THEOREM SessionTypeCorrect == Spec => []TypeOK
<1>1. IAnswers => TypeOK  BY DEF IAnswers, Typed
<1> QED  BY <1>1, AnswersInvariance, PTL

-----------------------------------------------------------------------------
(* What was answered is what was meant.                                    *)

AsMeant == SourceDelivered /\ ScopeAnswered /\ EntryReported

(* The response to the first of the requests that wait *)
LEMMA RespondExchange ==
  ASSUME NEW events, NEW success, NEW body, Respond(events, success, body)
  PROVE  /\ exchange'.request = Head(inbox) /\ exchange'.request_seq = Head(inbox).number
         /\ exchange'.events = events /\ exchange'.success = success
         /\ exchange'.body = body
BY DEF Respond, Answered

(* The three handlers that answer what a request means *)
LEMMA AsMeantHandlers ==
  ASSUME IAnswers, Source \/ Variables \/ ConfigurationDone
  PROVE  AsMeant'
<1> USE DEF IAnswers
<1>1. CASE Source
  <2>1. /\ inbox[1] = Head(inbox) /\ Head(inbox).command = "source" /\ 1 \in 1..Len(inbox)
    BY <1>1, TakeShifts
  <2>2. SourcePath(Head(inbox).arg) = Head(inbox).meant
    BY <2>1 DEF SourcePath, Foreseen, SourcesForeseen
  <2>3. exchange'.request = Head(inbox) /\ image' = image /\ source_root_' = source_root_
    BY <1>1, RespondExchange
  <2> DEFINE path == Head(inbox).meant
  <2>4. IF Readable(path) THEN exchange'.success = TRUE /\ exchange'.body = Delivered(path)
        ELSE exchange'.success = FALSE
    BY <1>1, <2>2, RespondExchange
  <2>5. CASE path \in OnDisk \cup {image.listing}
    <3>1. path # NoPath  BY <2>5, PathAssumption DEF Typed, TypeOK
    <3>2. Delivered(path) = path  BY <2>5 DEF Delivered, Resolve
    <3> QED
      BY <2>1, <2>3, <2>4, <2>5, <3>1, <3>2
         DEF AsMeant, SourceDelivered, ScopeAnswered, EntryReported, Readable
  <2>6. CASE path \notin OnDisk \cup {image.listing}
    <3>1. Readable(path) => Delivered(path) \in Namesakes(path)
      BY <2>6 DEF Readable, Delivered, Resolve, Namesakes
    <3>2. Namesakes(exchange.request.meant)' = Namesakes(path)
      BY <2>3 DEF Namesakes
    <3>3. exchange'.success => exchange'.body \in Namesakes(exchange.request.meant)'
      BY <2>4, <3>1, <3>2
    <3>4. exchange'.request.meant \notin OnDisk \cup {image'.listing}
      BY <2>3, <2>6
    <3> QED
      BY <2>1, <2>3, <3>3, <3>4 DEF AsMeant, SourceDelivered, ScopeAnswered, EntryReported
  <2> QED  BY <2>5, <2>6
<1>2. CASE Variables
  <2>1. /\ inbox[1] = Head(inbox) /\ Head(inbox).command = "variables" /\ 1 \in 1..Len(inbox)
    BY <1>2, TakeShifts
  <2>2. /\ Head(inbox).arg \in DOMAIN scope_names
        /\ scope_names[Head(inbox).arg] = Head(inbox).meant
    BY <2>1 DEF Foreseen, ScopesForeseen
  <2>3. exchange'.request = Head(inbox) /\ exchange'.body = Head(inbox).meant
    BY <1>2, <2>2, RespondExchange
  <2> QED
    BY <2>1, <2>3 DEF AsMeant, SourceDelivered, ScopeAnswered, EntryReported
<1>3. CASE ConfigurationDone
  <2>1. /\ inbox[1] = Head(inbox) /\ Head(inbox).command = "configurationDone"
        /\ 1 \in 1..Len(inbox)
    BY <1>3, TakeShifts
  <2>2. Head(inbox).meant <=> launched
    BY <2>1 DEF Foreseen, EntryForeseen, LaunchedAfter
  <2>3. /\ exchange'.request = Head(inbox)
        /\ exchange'.events = IF launched THEN <<"entry">> ELSE << >>
    BY <1>3, RespondExchange
  <2> QED
    BY <2>1, <2>2, <2>3 DEF AsMeant, SourceDelivered, ScopeAnswered, EntryReported
<1> QED  BY <1>1, <1>2, <1>3

(* An answer is as meant when the message it answers was foreseen. *)
LEMMA AsMeantStep ==
  ASSUME IAnswers, AsMeant, [Next]_vars
  PROVE  AsMeant'
<1> USE DEF AsMeant, SourceDelivered, ScopeAnswered, EntryReported
<1>1. CASE Source \/ Variables \/ ConfigurationDone  BY <1>1, AsMeantHandlers
<1>2. ASSUME NEW c, Take(c), c \notin {"source", "variables", "configurationDone"},
             exchange'.request = Head(inbox)
      PROVE  AsMeant'
  BY <1>2, TakeShifts DEF IAnswers
<1>3. CASE UnknownCommand \/ Threads \/ Disassemble \/ Initialize \/ Launch \/ Disconnect
  BY <1>2, <1>3, RespondExchange
<1>4. CASE Continue \/ Step \/ ScopesRequest \/ SetBreakpoints \/ StackTrace
  BY <1>2, <1>4, RespondExchange
<1>5. CASE Malformed  BY <1>2, <1>5 DEF Answered
<1>6. CASE Accept  BY <1>6
<1>7. CASE UNCHANGED <<exchange, loaded>>  BY <1>7 DEF Namesakes
<1> QED
  BY <1>1, <1>3, <1>4, <1>5, <1>6, <1>7 DEF Next, Handle, Send

(* Every answer is as the client meant its request. *)
LEMMA AsMeantInvariance == Spec => []AsMeant
<1>1. Init => AsMeant
  BY DEF Init, AsMeant, SourceDelivered, ScopeAnswered, EntryReported
<1>2. IAnswers /\ AsMeant /\ [Next]_vars => AsMeant'
  BY AsMeantStep
<1> QED
  BY <1>1, <1>2, AnswersInvariance, PTL DEF Spec

(* A source asked for by the reference the client was given, or by its     *)
(* path, is the one meant, whatever is launched and shown before the       *)
(* request is handled (the source handler and get_source).                 *)
THEOREM SourcesAreDelivered == Spec => []SourceDelivered
<1>1. AsMeant => SourceDelivered  BY DEF AsMeant
<1> QED  BY <1>1, AsMeantInvariance, PTL

(* The variables are those of the scope the client asked for, for a client *)
(* that lets no variables overtake a scopes it waits for (the scopes and   *)
(* variables handlers and scope_names).                                    *)
THEOREM ScopesAreAnswered == Spec => []ScopeAnswered
<1>1. AsMeant => ScopeAnswered  BY DEF AsMeant
<1> QED  BY <1>1, AsMeantInvariance, PTL

(* The entry stop is reported by configurationDone exactly when a launch   *)
(* went before it that no disconnect has undone, with any number of each   *)
(* sent ahead (the launch, configurationDone and disconnect handlers).     *)
THEOREM EntryIsReported == Spec => []EntryReported
<1>1. AsMeant => EntryReported  BY DEF AsMeant
<1> QED  BY <1>1, AsMeantInvariance, PTL

-----------------------------------------------------------------------------
(* The step simulation of Dialogue.                                        *)

Latest == IF answers = 0 THEN 0 ELSE exchange.request_seq

dialogueVars == <<open, Waiting, hung, answers, Latest>>

(* What Dialogue knows of a request *)
Asks(m) == [number |-> m.number, sweeps |-> m.command = "disassemble"]

(* How many requests are answered before the connection ends *)
Answerable(n) ==
  /\ n \in 0..Len(inbox)
  /\ \A i \in 1..Len(inbox) : inbox[i].command \notin Endings <=> i \in 1..n

(* All that is on its way is answered, but a last frame that ends the connection. *)
LEMMA AnswerableCount ==
  ASSUME Typed, EndingLast
  PROVE  \E n \in 0..Len(inbox) :
           /\ Answerable(n) /\ n \in {Len(inbox), Len(inbox) - 1}
<1>1. inbox \in Seq(Requests) /\ Len(inbox) \in Nat  BY DEF Typed
<1>2. CASE \A i \in 1..Len(inbox) : inbox[i].command \notin Endings
  BY <1>1, <1>2 DEF Answerable
<1>3. CASE \E i \in 1..Len(inbox) : inbox[i].command \in Endings
  <2>1. Len(inbox) - 1 \in 0..Len(inbox) /\ inbox[Len(inbox)].command \in Endings
    BY <1>1, <1>3 DEF EndingLast
  <2>2. Answerable(Len(inbox) - 1)  BY <1>1, <2>1 DEF EndingLast, Answerable
  <2> QED  BY <2>1, <2>2
<1> QED  BY <1>2, <1>3

(* What the client waits for is the sequence of them. *)
LEMMA WaitingIs ==
  ASSUME inbox \in Seq(Requests), open, NEW n, Answerable(n)
  PROVE  /\ Waiting = [i \in 1..n |-> Asks(inbox[i])]
         /\ Waiting \in Seq(Promise!Requests) /\ Len(Waiting) = n
<1>1. {j \in DOMAIN inbox : inbox[j].command \notin Endings} = 1..n
  BY DEF Answerable
<1>2. Waiting = [i \in 1..n |-> Asks(inbox[i])]  BY <1>1 DEF Waiting, Asks
<1>3. n \in Nat /\ \A i \in 1..n : Asks(inbox[i]) \in Promise!Requests
  <2>1. n \in 0..Len(inbox) /\ Len(inbox) \in Nat  BY DEF Answerable
  <2>2. \A i \in 1..n : inbox[i] \in Requests  BY <2>1
  <2>3. ASSUME NEW m \in Requests  PROVE Asks(m) \in Promise!Requests
    BY DEF Requests, Asks, Promise!Requests
  <2> QED  BY <2>1, <2>2, <2>3
<1> QED  BY <1>2, <1>3

(* Sending asks, unless it only ends the connection. *)
LEMMA SendAsks ==
  ASSUME IAnswers, Send
  PROVE  [Promise!Next]_dialogueVars
<1>1. PICK m \in Messages : inbox' = Append(inbox, m)  BY DEF Send
<1>2. m \in Requests  BY MessagesType DEF Send, IAnswers
<1>3. PICK n \in Nat : n = Len(inbox)  BY DEF IAnswers, Typed
<1>4. inbox \in Seq(Requests) /\ inbox' \in Seq(Requests) /\ Len(inbox') = n + 1
      /\ inbox'[n + 1] = m /\ \A i \in 1..n : inbox'[i] = inbox[i]
  BY <1>1, <1>2, <1>3 DEF IAnswers, Typed
<1>5. open /\ open' /\ UNCHANGED <<open, hung, answers, Latest>>
  BY DEF Send, Latest
<1>6. Answerable(n)  BY <1>3 DEF Send, Answerable, IAnswers, Typed
<1>7. /\ Waiting = [i \in 1..n |-> Asks(inbox[i])]
      /\ Waiting \in Seq(Promise!Requests) /\ Len(Waiting) = n
  BY <1>4, <1>5, <1>6, WaitingIs
<1>8. CASE m.command \in Endings
  <2>1. Answerable(n)'
    BY <1>3, <1>4, <1>6, <1>8 DEF Answerable
  <2>2. Waiting' = [i \in 1..n |-> Asks(inbox'[i])]
    <3>1. {j \in DOMAIN inbox' : inbox'[j].command \notin Endings} = 1..n
      BY <1>4, <2>1 DEF Answerable
    <3> QED BY <1>5, <3>1 DEF Waiting, Asks
  <2>3. Waiting' = Waiting  BY <1>4, <1>7, <2>2
  <2> QED  BY <1>5, <2>3 DEF dialogueVars
<1>9. CASE m.command \notin Endings
  <2>1. Waiting' = [i \in 1..(n + 1) |-> Asks(inbox'[i])]
    <3>1. {j \in DOMAIN inbox' : inbox'[j].command \notin Endings} = 1..(n + 1)
      BY <1>3, <1>4, <1>6, <1>9 DEF Answerable
    <3> QED BY <1>5, <3>1 DEF Waiting, Asks
  <2>2. Asks(m) \in Promise!Requests  BY <1>2 DEF Requests, Asks, Promise!Requests
  <2>3. Waiting' = Append(Waiting, Asks(m))
    BY <1>4, <1>7, <2>1, <2>2
  <2> QED  BY <1>5, <2>2, <2>3 DEF Promise!Next, Promise!Ask, Latest
<1> QED  BY <1>8, <1>9

(* A handler that answers answers the first that waits. *)
LEMMA RespondAnswers ==
  ASSUME IAnswers, NEW c, Take(c), c \notin Endings, UNCHANGED <<open, hung>>,
         answers' = answers + 1, exchange'.request_seq = Head(inbox).number
  PROVE  Promise!Answer
<1>1. PICK n \in 0..Len(inbox) : Answerable(n)
  BY AnswerableCount DEF IAnswers, Foreseen
<1>2. /\ inbox \in Seq(Requests) /\ inbox # << >> /\ inbox[1] = Head(inbox)
      /\ inbox[1].command = c
      /\ inbox' \in Seq(Requests) /\ Len(inbox') = Len(inbox) - 1
      /\ \A i \in 1..Len(inbox') : i + 1 \in 1..Len(inbox) /\ inbox'[i] = inbox[i + 1]
  BY TakeShifts DEF IAnswers
<1>3. open /\ open' /\ ~hung  BY DEF Take
<1>4. /\ Waiting = [i \in 1..n |-> Asks(inbox[i])]
      /\ Waiting \in Seq(Promise!Requests) /\ Len(Waiting) = n
  BY <1>1, <1>2, <1>3, WaitingIs
<1>5. 1 \in 1..n  BY <1>1, <1>2 DEF Answerable
<1>6. Waiting # << >> /\ Head(Waiting) = Asks(Head(inbox))
  <2>1. Waiting[1] = Asks(inbox[1]) /\ Len(Waiting) >= 1
    BY ONLY <1>1, <1>4, <1>5
  <2>2. Waiting # << >> /\ Head(Waiting) = Waiting[1]
    BY ONLY <1>4, <2>1
  <2> QED  BY <1>2, <2>1, <2>2
<1>7. Waiting' = [i \in 1..(n - 1) |-> Asks(inbox'[i])]
  <2>1. \A j \in 1..Len(inbox') :
          inbox'[j].command \notin Endings <=> j + 1 \in 1..n
    BY <1>1, <1>2 DEF Answerable
  <2>2. \A j \in 1..Len(inbox') : j + 1 \in 1..n <=> j \in 1..(n - 1)
    BY <1>1, <1>2
  <2>3. 1..(n - 1) \subseteq 1..Len(inbox')  BY <1>1, <1>2
  <2>4. {j \in DOMAIN inbox' : inbox'[j].command \notin Endings} = 1..(n - 1)
    BY <1>2, <2>1, <2>2, <2>3
  <2> QED  BY <1>3, <2>4 DEF Waiting, Asks
<1>8. Waiting' = Tail(Waiting)
  <2>1. \A i \in 1..(n - 1) : Asks(inbox'[i]) = Asks(inbox[i + 1])
    BY <1>1, <1>2
  <2>2. Tail(Waiting) = [i \in 1..(n - 1) |-> Waiting[i + 1]]
    BY <1>4, <1>5
  <2> QED  BY <1>4, <1>7, <2>1, <2>2
<1>9. answers' = answers + 1 /\ Latest' = Head(Waiting).number
  <2>1. answers \in Nat  BY DEF IAnswers, Typed, TypeOK
  <2> QED  BY <1>6, <2>1 DEF Latest, Asks
<1> QED  BY <1>3, <1>6, <1>8, <1>9 DEF Promise!Answer, Latest

(* A step of the session is a step of the dialogue, or none. *)
LEMMA DialogueStep ==
  ASSUME IAnswers, [Next]_vars
  PROVE  [Promise!Next]_dialogueVars
<1> USE DEF Promise!Next
<1>1. CASE Send  BY <1>1, SendAsks
<1>2. ASSUME NEW c, Take(c), c \notin Endings,
             NEW events, NEW success, NEW body, Respond(events, success, body)
      PROVE  Promise!Answer
  BY <1>2, RespondAnswers, RespondExchange DEF Respond
<1>3. CASE UnknownCommand \/ Threads \/ Disassemble \/ Initialize \/ Launch \/ ConfigurationDone
  BY <1>2, <1>3 DEF Endings
<1>4. CASE Disconnect \/ Continue \/ Step \/ ScopesRequest \/ SetBreakpoints
  BY <1>2, <1>4 DEF Endings
<1>5. CASE StackTrace \/ Source \/ Variables
  BY <1>2, <1>5 DEF Endings
<1>6. CASE Malformed
  <2>1. Take("malformed") /\ answers' = answers + 1 /\ UNCHANGED <<open, hung>>
        /\ exchange'.request_seq = 0
    BY <1>6 DEF Answered
  <2>2. Head(inbox).number = 0  BY <2>1, TakeShifts DEF IAnswers, Requests
  <2>3. Promise!Answer  BY <2>1, <2>2, RespondAnswers DEF Endings
  <2> QED  BY <2>3
<1>7. CASE EndOfSession \/ HandlerThrows
  <2>1. open /\ ~hung /\ open' = FALSE /\ UNCHANGED <<hung, answers, Latest>>
    BY <1>7 DEF Take, Latest
  <2>2. Waiting' = << >>  BY <2>1 DEF Waiting
  <2> QED  BY <2>1, <2>2 DEF Promise!Close, Latest
<1>8. CASE Accept
  <2>1. ~open /\ open' = TRUE /\ answers' = 0 /\ inbox' = << >> /\ UNCHANGED hung  BY <1>8
  <2>2. Waiting = << >> /\ Latest' = 0  BY <2>1 DEF Waiting, Latest
  <2>3. Waiting' = << >>
    <3>1. {j \in DOMAIN inbox' : inbox'[j].command \notin Endings} = 1..0  BY <2>1
    <3>2. Waiting' = [i \in 1..0 |-> Asks(inbox'[i])]  BY <2>1, <3>1 DEF Waiting, Asks
    <3> QED  BY <3>2
  <2> QED  BY <2>1, <2>2, <2>3 DEF Promise!Open, Latest
<1>10. CASE DisassembleHangs
  <2>1. /\ open /\ ~hung /\ hung' = TRUE /\ inbox[1].command = "disassemble"
        /\ inbox # << >> /\ inbox \in Seq(Requests)
        /\ UNCHANGED <<open, inbox, answers, Latest>>
    BY <1>10 DEF Latest, IAnswers, Typed
  <2>2. PICK n \in 0..Len(inbox) : Answerable(n)
    BY AnswerableCount DEF IAnswers, Foreseen
  <2>3. /\ Waiting = [i \in 1..n |-> Asks(inbox[i])]
        /\ Waiting \in Seq(Promise!Requests) /\ Len(Waiting) = n
    BY <2>1, <2>2, WaitingIs
  <2>4. 1 \in 1..n  BY <2>1, <2>2 DEF Answerable, Endings
  <2>5. Waiting[1] = Asks(inbox[1]) /\ Len(Waiting) >= 1
    BY ONLY <2>2, <2>3, <2>4
  <2>6. Waiting # << >> /\ Head(Waiting) = Waiting[1]
    BY ONLY <2>3, <2>5
  <2>9. Asks(inbox[1]).sweeps = (inbox[1].command = "disassemble")  BY DEF Asks
  <2>7. Head(Waiting).sweeps
    BY ONLY <2>1, <2>5, <2>6, <2>9
  <2>8. Waiting' = Waiting  BY <2>1 DEF Waiting
  <2> QED  BY <2>1, <2>6, <2>7, <2>8 DEF Promise!Stick, Latest
<1>9. CASE UNCHANGED <<open, hung, inbox, answers, exchange>>
  BY <1>9 DEF Waiting, Latest, dialogueVars
<1> QED
  BY <1>1, <1>3, <1>4, <1>5, <1>6, <1>7, <1>8, <1>9, <1>10 DEF Next, Handle

(* Each request is answered once, in order and by name, while the          *)
(* connection lasts, malformed and unknown ones among them: the session    *)
(* implements the safety of Dialogue (session::run and handle_message).    *)
THEOREM EachIsAnsweredOnce == Spec => AnsweredInOrder
<1>1. Init => Promise!Init
  <2> SUFFICES ASSUME Init PROVE Promise!Init  OBVIOUS
  <2>1. open = TRUE /\ hung = FALSE /\ answers = 0 /\ Latest = 0 /\ inbox = << >>
    BY DEF Init, Latest
  <2>2. {j \in DOMAIN inbox : inbox[j].command \notin Endings} = 1..0  BY <2>1
  <2>3. Waiting = [i \in 1..0 |-> Asks(inbox[i])]  BY <2>1, <2>2 DEF Waiting, Asks
  <2> QED  BY <2>1, <2>3 DEF Promise!Init, Latest
<1>2. IAnswers /\ [Next]_vars => [Promise!Next]_dialogueVars
  BY DialogueStep
<1> QED
  BY <1>1, <1>2, AnswersInvariance, PTL DEF Spec, AnsweredInOrder, Promise!Spec, dialogueVars,
     Promise!vars, Latest
=============================================================================
