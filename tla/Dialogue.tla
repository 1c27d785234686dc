------------------------------ MODULE Dialogue ------------------------------
(***************************************************************************)
(* What session::run promises a client, whatever it asks: while the        *)
(* connection lasts each request is answered by one response, in the order *)
(* the requests were sent, and the response names its request.  A request  *)
(* whose work may have no end (disassemble) may keep the server from all   *)
(* further answers.                                                        *)
(***************************************************************************)
EXTENDS Naturals, Sequences

CONSTANT Numbers   \* the numbers of requests; 0 for one that cannot be read

VARIABLES
  open,     \* is there a connection
  waiting,  \* the requests without an answer, in order: [number, sweeps]
  stuck,    \* the first of them is being worked on and has no end
  answers,  \* how many responses were written on this connection
  latest    \* the number the last of them names

vars == <<open, waiting, stuck, answers, latest>>

Init == open = TRUE /\ waiting = << >> /\ stuck = FALSE /\ answers = 0 /\ latest = 0

Ask(request) ==
  /\ open
  /\ waiting' = Append(waiting, request)
  /\ UNCHANGED <<open, stuck, answers, latest>>

Answer ==
  /\ open /\ ~stuck /\ waiting # << >>
  /\ answers' = answers + 1 /\ latest' = Head(waiting).number
  /\ waiting' = Tail(waiting)
  /\ UNCHANGED <<open, stuck>>

(* Only a request that sweeps memory can have no end. *)
Stick ==
  /\ open /\ ~stuck /\ waiting # << >> /\ Head(waiting).sweeps
  /\ stuck' = TRUE
  /\ UNCHANGED <<open, waiting, answers, latest>>

(* The client has gone, cannot be understood, or its request failed the    *)
(* server: what still waits is not answered.                               *)
Close ==
  /\ open /\ ~stuck /\ open' = FALSE
  /\ waiting' = << >>
  /\ UNCHANGED <<stuck, answers, latest>>

Open ==
  /\ ~open /\ open' = TRUE
  /\ answers' = 0 /\ latest' = 0
  /\ UNCHANGED <<waiting, stuck>>

Requests == [number : Numbers, sweeps : BOOLEAN]

Next == (\E r \in Requests : Ask(r)) \/ Answer \/ Stick \/ Close \/ Open

Spec == Init /\ [][Next]_vars

(* A request does not wait for good, unless it or one before it has no end. *)
Fairness == WF_vars(Answer)
=============================================================================
