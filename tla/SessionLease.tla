---------------------------- MODULE SessionLease ----------------------------
(***************************************************************************)
(* What a command promises about the coordinator sessions it allocates,    *)
(* whatever its control flow: it gives back every session it holds before  *)
(* it reports its outcome.  Only a process that is killed (or that exits   *)
(* from inside a prompt) stops while it holds sessions.                    *)
(***************************************************************************)

CONSTANT Session

VARIABLES lease,   \* lease[s]: has the command asked for s, does it hold it
          status   \* whether the command is still running

Init ==
    /\ lease = [s \in Session |-> "none"]
    /\ status = "running"

Acquire(s) ==
    /\ status = "running" /\ lease[s] = "none"
    /\ lease' = [lease EXCEPT ![s] = "held"]
    /\ UNCHANGED status

GiveBack(s) ==
    /\ status = "running" /\ lease[s] = "held"
    /\ lease' = [lease EXCEPT ![s] = "returned"]
    /\ UNCHANGED status

Finish ==
    /\ status = "running"
    /\ \A s \in Session : lease[s] # "held"
    /\ status' = "finished"
    /\ UNCHANGED lease

Killed ==
    /\ status = "running"
    /\ status' = "killed"
    /\ UNCHANGED lease

Next ==
    \/ \E s \in Session : Acquire(s) \/ GiveBack(s)
    \/ Finish
    \/ Killed

Spec == Init /\ [][Next]_<<lease, status>>

=============================================================================
