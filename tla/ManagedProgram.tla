--------------------------- MODULE ManagedProgram ---------------------------
(***************************************************************************)
(* What adminserviced promises of a program it runs in the foreground, to  *)
(* whom neither pids nor process states mean anything: there is at most    *)
(* one instance, a new one only after the end of the last was noticed, and *)
(* an instance that was told to end does, and is then seen to be down.     *)
(***************************************************************************)
EXTENDS Naturals

VARIABLES status,     \* what the daemon says of the program
          instances   \* how many of it the system runs

vars == <<status, instances>>

Init == status = "down" /\ instances = 0

Launch == /\ status = "down" /\ instances = 0
          /\ status' = "up" /\ instances' = 1

Die == instances = 1 /\ instances' = 0 /\ UNCHANGED status

TellToEnd == status = "up" /\ status' = "ending" /\ UNCHANGED instances

Notice == /\ status # "down" /\ instances = 0
          /\ status' = "down" /\ UNCHANGED instances

Next == Launch \/ Die \/ TellToEnd \/ Notice

\* What may happen, and what is to happen.
Safety == Init /\ [][Next]_vars
Spec == Safety /\ WF_vars(Notice) /\ WF_vars(status = "ending" /\ Die)
=============================================================================
