------------------------------ MODULE Machine ------------------------------
(***************************************************************************)
(* cyanprint processes that run on one machine at the same time: some      *)
(* start or stop the daemon, some try or test a template, which needs the  *)
(* daemon and then a port, and some build and push images.  They share     *)
(* Docker, the ports of the machine and the registries.                    *)
(***************************************************************************)
EXTENDS Daemon, Ports, Publishing

CONSTANT Mixes   \* what the processes may be doing together

ASSUME MixAssumption ==
    \A m \in Mixes : /\ m.want \in [Proc -> {"start", "stop", "ensure", "none"}]
                     /\ m.cmd \in [Proc -> Command] /\ m.config \subseteq Image

vars == <<faults, daemonVars, portVars, publishVars>>

Init ==
    /\ faults = 0
    /\ \E m \in Mixes : want = m.want /\ cmd = m.cmd /\ config = m.config
    /\ DaemonInit /\ PortsInit /\ PublishInit

\* try and test take a port once the daemon answers.
TakePort(p) ==
    /\ want[p] = "ensure" /\ at[p] = "ok"
    /\ PortStep(p) \/ StartFails(p) \/ KillHolder(p)

Over(p) ==
    /\ Ended(p) /\ PublishEnded(p)
    /\ want[p] = "ensure" /\ at[p] = "ok" => stage[p] \in {"done", "noPort", "killed"}
AllOver == (\A p \in Proc : Over(p)) /\ UNCHANGED vars

Next ==
    \/ DaemonNext /\ UNCHANGED <<portVars, publishVars>>
    \/ (\E p \in Proc : TakePort(p)) /\ UNCHANGED <<daemonVars, publishVars>>
    \/ PublishNext /\ UNCHANGED <<daemonVars, portVars>>
    \/ AllOver

Spec == Init /\ [][Next]_vars

\* A process does its next step, and the container of the set-up its own.
FairSpec ==
    /\ Spec
    /\ WF_vars(SetupExits /\ UNCHANGED <<portVars, publishVars>>)
    /\ \A p \in Proc :
         /\ WF_vars(DaemonStep(p) /\ UNCHANGED <<portVars, publishVars>>)
         /\ WF_vars(want[p] = "ensure" /\ at[p] = "ok" /\ PortStep(p)
                      /\ UNCHANGED <<daemonVars, publishVars>>)
         /\ WF_vars(PublishStep(p) /\ UNCHANGED <<daemonVars, portVars>>)

-----------------------------------------------------------------------------
TypeOK == DaemonTypeOK /\ PortsTypeOK /\ PublishTypeOK

\* Every command ends, whatever the others do and whatever fails: none waits
\* for ever for the set-up of another, for a port or for an image.  The log of
\* the set-up is the one thing that is waited for, so the container must end.
CommandsEnd == \A p \in Proc : <>Over(p)
=============================================================================
