------------------------------ MODULE Debuggee ------------------------------
(***************************************************************************)
(* What the debug server promises its client: a "stopped" event says       *)
(* allThreadsStopped, so from the moment the client takes the program to   *)
(* be stopped until it asks for execution again, the program does not      *)
(* move.  There are no threads, flags or messages here.                    *)
(***************************************************************************)
CONSTANTS Addr,        \* program addresses
          Successors,  \* where one instruction may lead
          Entry        \* where a launch starts

VARIABLES status,      \* what the client knows of the program
          cpu          \* the program counter

Init == status = "starting" /\ cpu = 0

(* The client asks for execution, or for the entry stop. *)
Go == /\ status \in {"starting", "stopped"}
      /\ status' = "running"
      /\ UNCHANGED cpu

(* A launch may reset the program; it runs, or a step back restores it. *)
Move == /\ status \in {"starting", "running"}
        /\ \/ cpu' \in {0, Entry}
           \/ status = "running" /\ cpu' \in Addr
        /\ UNCHANGED status

(* The client is told of a stop. *)
Stop == status = "running" /\ status' = "stopped" /\ UNCHANGED cpu

Leave == status # "gone" /\ status' = "gone" /\ UNCHANGED cpu

(* The next connection starts from a fresh program. *)
Renew == status = "gone" /\ Init'

Next == Go \/ Move \/ Stop \/ Leave \/ Renew

Spec == Init /\ [][Next]_<<status, cpu>>
=============================================================================
