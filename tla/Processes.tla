----------------------------- MODULE Processes -----------------------------
(***************************************************************************)
(* What the modules on several cyanprint processes of one machine share.   *)
(***************************************************************************)
EXTENDS Naturals

CONSTANTS Proc,      \* the processes
          Earlier,   \* whoever made what is there from earlier
          MaxFaults  \* calls that fail, processes killed, containers that exit

ASSUME FaultAssumption == MaxFaults \in Nat
ASSUME EarlierAssumption == Earlier \notin Proc

VARIABLE faults      \* how many there have been

\* A step that is a fault, or one that is none.
Fault   == faults < MaxFaults /\ faults' = faults + 1
NoFault == UNCHANGED faults
=============================================================================
