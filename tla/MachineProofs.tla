---------------------------- MODULE MachineProofs ---------------------------
(***************************************************************************)
(* Proofs about Machine, for any number of processes, ports, tags, faults  *)
(* and any mix of commands.  The three components have no variable in      *)
(* common but the number of faults, so each has an inductive invariant of  *)
(* its own.                                                                *)
(***************************************************************************)
EXTENDS Machine, TLAPS

(***************************************************************************)
(* The daemon.                                                             *)
(***************************************************************************)
SettingUp == {"startSetup", "logs", "removeSetup"}
Starting  == {"pull", "createSetup", "create"} \cup SettingUp

\* Only "daemon stop" stops.
StopsStop == \A p \in Proc : at[p] \in {"cleanup", "find", "force"} => want[p] = "stop"

RanIsRight ==
    /\ coord.state = "running" => \A p \in Proc : ran[p]
    /\ SuccessMeansItRan

\* The container of the set-up belongs to the process that is setting up.
SetupIsOwned ==
    faults = 0 =>
        /\ setup.state # "none" => setup.by \in Proc
        /\ \A p \in Proc : at[p] \in SettingUp <=> setup.state # "none" /\ setup.by = p

\* Unless the coordinator runs, a process is on its way to start it: the one
\* that has created it, or one that will remove the stopped one, or one that
\* will create it or be kept from it by another such process only.
SomeoneWillStart ==
    faults = 0 /\ (\E p \in Proc : want[p] = "start") /\ (\A p \in Proc : want[p] # "stop") =>
        /\ coord.state = "created" => coord.by \in Proc /\ at[coord.by] = "start"
        /\ coord.state = "none" => \E p \in Proc : at[p] \in {"list"} \cup Starting
        /\ coord.state = "exited" =>
              \E p \in Proc : at[p] = "list" \/ (at[p] = "remove" /\ seen[p] = coord.by)

DaemonInv == DaemonTypeOK /\ StopsStop /\ RanIsRight /\ SetupIsOwned /\ SomeoneWillStart

USE FaultAssumption, EarlierAssumption

LEMMA DaemonInitially == Init => DaemonInv
<1> SUFFICES ASSUME Init PROVE DaemonInv
  OBVIOUS
<1>1. want \in [Proc -> {"start", "stop", "ensure", "none"}] /\ faults = 0
  BY MixAssumption DEF Init
<1>2. \A p \in Proc : at[p] = Begin_(want[p]) /\ Begin_(want[p]) \in {"list", "cleanup", "check", "ok"}
  BY <1>1 DEF Init, DaemonInit, Begin_
<1>3. DaemonTypeOK
  BY <1>1, <1>2 DEF Init, DaemonInit, DaemonTypeOK, Container, NoContainer, States
<1>4. StopsStop
  BY <1>1, <1>2 DEF StopsStop, Begin_
<1>5. RanIsRight
  BY <1>1, <1>2 DEF Init, DaemonInit, RanIsRight, SuccessMeansItRan, Begin_
<1>6. SetupIsOwned
  BY <1>1, <1>2 DEF Init, DaemonInit, SetupIsOwned, SettingUp, NoContainer
<1>7. SomeoneWillStart
  BY <1>1, <1>2 DEF Init, DaemonInit, SomeoneWillStart, NoContainer, Begin_
<1> QED
  BY <1>3, <1>4, <1>5, <1>6, <1>7 DEF DaemonInv

LEMMA DaemonTypeKept == DaemonTypeOK /\ DaemonNext => DaemonTypeOK'
<1> SUFFICES ASSUME DaemonTypeOK, DaemonNext PROVE DaemonTypeOK'
  OBVIOUS
<1> USE DEF DaemonTypeOK, Go, Same, NoFault, CoordBecomes, Container, NoContainer, States
<1>1. ASSUME NEW p \in Proc, CheckRunning(p) \/ HealthCheck(p) \/ Find(p) \/ RemoveStopped(p)
      PROVE  DaemonTypeOK'
  BY <1>1 DEF CheckRunning, HealthCheck, Find, RemoveStopped, Started
<1>2. ASSUME NEW p \in Proc, PullImage(p) \/ CreateSetup(p) \/ StartSetup(p) \/ FollowLogs(p) \/ RemoveSetup(p)
      PROVE  DaemonTypeOK'
  BY <1>2 DEF PullImage, CreateSetup, StartSetup, FollowLogs, RemoveSetup
<1>3. ASSUME NEW p \in Proc, CreateCoordinator(p) \/ StartCoordinator(p)
      PROVE  DaemonTypeOK'
  <2>1. CASE CreateCoordinator(p)
    BY <2>1 DEF CreateCoordinator
  <2>2. CASE StartCoordinator(p)
    <3>1. coord' = coord \/ coord' = [coord EXCEPT !.state = "running"]
      BY <2>2 DEF StartCoordinator
    <3>2. coord' \in Container
      BY <3>1
    <3> QED
      BY <2>2, <3>2 DEF StartCoordinator, Started
  <2> QED
    BY <1>3, <2>1, <2>2
<1>4. ASSUME NEW p \in Proc, Cleanup(p) \/ FindToStop(p) \/ ForceRemove(p)
      PROVE  DaemonTypeOK'
  BY <1>4 DEF Cleanup, FindToStop, ForceRemove
<1>5. ASSUME NEW p \in Proc, BreakDaemon(p) PROVE DaemonTypeOK'
  BY <1>5 DEF BreakDaemon, Fault
<1>6. CASE SetupExits \/ CoordinatorExits
  BY <1>6 DEF SetupExits, CoordinatorExits, Fault
<1> QED
  BY <1>1, <1>2, <1>3, <1>4, <1>5, <1>6 DEF DaemonNext, DaemonStep

LEMMA StopsStopKept == DaemonInv /\ DaemonNext => StopsStop'
<1> SUFFICES ASSUME DaemonInv, DaemonNext PROVE StopsStop'
  OBVIOUS
<1> USE DEF DaemonInv, DaemonTypeOK, StopsStop, Go, Started
<1>1. ASSUME NEW p \in Proc, DaemonStep(p) \/ BreakDaemon(p) PROVE StopsStop'
  BY <1>1 DEF DaemonStep, BreakDaemon, CheckRunning, HealthCheck, Find, RemoveStopped, PullImage,
     CreateSetup, StartSetup, FollowLogs, RemoveSetup, CreateCoordinator, StartCoordinator,
     Cleanup, FindToStop, ForceRemove
<1>2. CASE SetupExits \/ CoordinatorExits
  BY <1>2 DEF SetupExits, CoordinatorExits
<1> QED
  BY <1>1, <1>2 DEF DaemonNext

LEMMA RanIsRightKept == DaemonInv /\ DaemonNext => RanIsRight'
<1> SUFFICES ASSUME DaemonInv, DaemonNext PROVE RanIsRight'
  OBVIOUS
<1> USE DEF DaemonInv, DaemonTypeOK, RanIsRight, SuccessMeansItRan, Go, Started, Same, CoordBecomes,
            NoContainer, Container
<1>1. ASSUME NEW p \in Proc, CheckRunning(p) \/ HealthCheck(p) \/ Find(p) PROVE RanIsRight'
  BY <1>1 DEF CheckRunning, HealthCheck, Find
<1>2. ASSUME NEW p \in Proc, RemoveStopped(p) \/ CreateCoordinator(p) PROVE RanIsRight'
  BY <1>2 DEF RemoveStopped, CreateCoordinator
<1>6. ASSUME NEW p \in Proc, StartCoordinator(p) PROVE RanIsRight'
  <2>1. CASE coord = [state |-> "created", by |-> p]
    <3>1. coord' = [coord EXCEPT !.state = "running"] /\ ran' = [q \in Proc |-> TRUE]
      BY <1>6, <2>1 DEF StartCoordinator
    <3> QED
      BY <3>1
  <2>2. CASE coord # [state |-> "created", by |-> p]
    BY <1>6, <2>2 DEF StartCoordinator
  <2> QED
    BY <2>1, <2>2
<1>3. ASSUME NEW p \in Proc, Cleanup(p) \/ FindToStop(p) \/ ForceRemove(p) PROVE RanIsRight'
  BY <1>3 DEF StopsStop, Cleanup, FindToStop, ForceRemove
<1>4. ASSUME NEW p \in Proc,
             \/ PullImage(p) \/ CreateSetup(p) \/ StartSetup(p) \/ FollowLogs(p) \/ RemoveSetup(p)
             \/ BreakDaemon(p)
      PROVE  RanIsRight'
  BY <1>4 DEF PullImage, CreateSetup, StartSetup, FollowLogs, RemoveSetup, BreakDaemon
<1>5. CASE SetupExits \/ CoordinatorExits
  BY <1>5 DEF SetupExits, CoordinatorExits
<1> QED
  BY <1>1, <1>2, <1>3, <1>4, <1>5, <1>6 DEF DaemonNext, DaemonStep

LEMMA DaemonFaults == DaemonNext => NoFault \/ Fault
<1>1. ASSUME NEW p \in Proc, DaemonStep(p) PROVE NoFault
  BY <1>1 DEF DaemonStep, CheckRunning, HealthCheck, Find, RemoveStopped, PullImage, CreateSetup,
     StartSetup, FollowLogs, RemoveSetup, CreateCoordinator, StartCoordinator, Cleanup, FindToStop,
     ForceRemove
<1> QED
  BY <1>1 DEF DaemonNext, BreakDaemon, SetupExits, CoordinatorExits

LEMMA SetupIsOwnedKept == DaemonInv /\ DaemonNext => SetupIsOwned'
<1> SUFFICES ASSUME DaemonInv, DaemonNext, faults' = 0 PROVE SetupIsOwned'
  BY DEF SetupIsOwned
<1>1. faults = 0
  BY DaemonFaults DEF DaemonInv, DaemonTypeOK, Fault, NoFault
<1> USE <1>1 DEF DaemonInv, DaemonTypeOK, SetupIsOwned, SettingUp, Container, Go, Started, NoContainer
<1>2. ASSUME NEW p \in Proc, CreateSetup(p) PROVE SetupIsOwned'
  BY <1>2 DEF CreateSetup
<1>3. ASSUME NEW p \in Proc, StartSetup(p) PROVE SetupIsOwned'
  BY <1>3 DEF StartSetup
<1>4. ASSUME NEW p \in Proc, FollowLogs(p) \/ RemoveSetup(p) PROVE SetupIsOwned'
  BY <1>4 DEF FollowLogs, RemoveSetup
<1>5. CASE SetupExits
  BY <1>5 DEF SetupExits
<1>6. ASSUME NEW p \in Proc, \/ CheckRunning(p) \/ HealthCheck(p) \/ Find(p) \/ RemoveStopped(p)
                             \/ PullImage(p) \/ CreateCoordinator(p) \/ StartCoordinator(p)
      PROVE  SetupIsOwned'
  BY <1>6 DEF CheckRunning, HealthCheck, Find, RemoveStopped, PullImage, CreateCoordinator, StartCoordinator
<1>7. ASSUME NEW p \in Proc, Cleanup(p) \/ FindToStop(p) \/ ForceRemove(p) PROVE SetupIsOwned'
  BY <1>7 DEF Cleanup, FindToStop, ForceRemove
<1>8. CASE CoordinatorExits \/ \E p \in Proc : BreakDaemon(p)
  BY <1>8 DEF CoordinatorExits, BreakDaemon, Fault
<1> QED
  BY <1>2, <1>3, <1>4, <1>5, <1>6, <1>7, <1>8 DEF DaemonNext, DaemonStep

LEMMA WantKept == DaemonNext => want' = want
BY DEF DaemonNext, DaemonStep, BreakDaemon, CheckRunning, HealthCheck, Find, RemoveStopped, PullImage,
   CreateSetup, StartSetup, FollowLogs, RemoveSetup, CreateCoordinator, StartCoordinator,
   Cleanup, FindToStop, ForceRemove, SetupExits, CoordinatorExits

\* The process that fails to create the container of the set-up has failed for
\* another one, which is still setting up and goes on.
LEMMA SomeoneWillStartKept == DaemonInv /\ DaemonNext => SomeoneWillStart'
<1> SUFFICES ASSUME DaemonInv, DaemonNext, faults' = 0,
                    \E p \in Proc : want'[p] = "start", \A p \in Proc : want'[p] # "stop"
             PROVE  SomeoneWillStart'
  BY DEF SomeoneWillStart
<1>1. faults = 0
  BY DaemonFaults DEF DaemonInv, DaemonTypeOK, Fault, NoFault
<1>2. (\E p \in Proc : want[p] = "start") /\ (\A p \in Proc : want[p] # "stop")
  BY WantKept
<1>3. \A p \in Proc : at[p] \notin {"cleanup", "find", "force"}
  BY <1>2 DEF DaemonInv, StopsStop
<1>4. /\ coord.state = "created" => coord.by \in Proc /\ at[coord.by] = "start"
      /\ coord.state = "none" => \E p \in Proc : at[p] \in {"list"} \cup Starting
      /\ coord.state = "exited" =>
            \E p \in Proc : at[p] = "list" \/ (at[p] = "remove" /\ seen[p] = coord.by)
  BY <1>1, <1>2 DEF DaemonInv, SomeoneWillStart
<1>5. DaemonTypeOK
  BY DEF DaemonInv
<1> USE <1>4, <1>5 DEF DaemonTypeOK, SomeoneWillStart, Starting, SettingUp, Container, Go, Same, CoordBecomes
<1>6. ASSUME NEW p \in Proc, CheckRunning(p) \/ HealthCheck(p) PROVE SomeoneWillStart'
  BY <1>6 DEF CheckRunning, HealthCheck
<1>7. ASSUME NEW p \in Proc, Find(p) PROVE SomeoneWillStart'
  BY <1>7 DEF Find, DaemonInv, DaemonTypeOK, States
<1>8. ASSUME NEW p \in Proc, RemoveStopped(p) PROVE SomeoneWillStart'
  BY <1>8 DEF RemoveStopped, NoContainer
<1>9. ASSUME NEW p \in Proc, PullImage(p) PROVE SomeoneWillStart'
  BY <1>9 DEF PullImage
<1>10. ASSUME NEW p \in Proc, CreateSetup(p) PROVE SomeoneWillStart'
  <2>1. CASE setup.state = "none"
    BY <1>10, <2>1 DEF CreateSetup
  <2>2. CASE setup.state # "none"
    <3>1. setup.by \in Proc /\ at[setup.by] \in SettingUp
      BY <1>1, <2>2 DEF DaemonInv, SetupIsOwned
    <3>2. at' = [at EXCEPT ![p] = "error"] /\ coord' = coord /\ at[p] = "createSetup"
      BY <1>10, <2>2 DEF CreateSetup
    <3>3. at'[setup.by] \in SettingUp
      BY <3>1, <3>2
    <3>4. coord.state = "created" => at'[coord.by] = "start"
      BY <3>2
    <3>5. coord.state = "exited" =>
            \E q \in Proc : at'[q] = "list" \/ (at'[q] = "remove" /\ seen[q] = coord.by)
      BY <3>2
    <3> QED
      BY <1>10, <3>1, <3>2, <3>3, <3>4, <3>5 DEF CreateSetup
  <2> QED
    BY <2>1, <2>2
<1>11. ASSUME NEW p \in Proc, StartSetup(p) \/ FollowLogs(p) \/ RemoveSetup(p) PROVE SomeoneWillStart'
  BY <1>11 DEF StartSetup, FollowLogs, RemoveSetup
<1>12. ASSUME NEW p \in Proc, CreateCoordinator(p) PROVE SomeoneWillStart'
  BY <1>12 DEF CreateCoordinator
<1>13. ASSUME NEW p \in Proc, StartCoordinator(p) PROVE SomeoneWillStart'
  <2>1. CASE coord = [state |-> "created", by |-> p]
    BY <1>13, <2>1 DEF StartCoordinator
  <2>2. CASE coord # [state |-> "created", by |-> p]
    <3>1. ~(coord.state = "created" /\ coord.by = p)
      BY <2>2
    <3> QED
      BY <1>13, <2>2, <3>1 DEF StartCoordinator
  <2> QED
    BY <2>1, <2>2
<1>14. ASSUME NEW p \in Proc, Cleanup(p) \/ FindToStop(p) \/ ForceRemove(p) PROVE FALSE
  BY <1>3, <1>14 DEF Cleanup, FindToStop, ForceRemove
<1>15. CASE SetupExits
  BY <1>15 DEF SetupExits
<1>16. CASE CoordinatorExits \/ \E p \in Proc : BreakDaemon(p)
  BY <1>1, <1>16 DEF CoordinatorExits, BreakDaemon, Fault
<1> QED
  BY <1>6, <1>7, <1>8, <1>9, <1>10, <1>11, <1>12, <1>13, <1>14, <1>15, <1>16 DEF DaemonNext, DaemonStep

LEMMA PortFaults == ASSUME NEW p \in Proc, TakePort(p) PROVE NoFault \/ Fault
BY DEF TakePort, PortStep, TryBindPort, NoneFree, Release, StartOnPort, RemoveContainer, StartFails,
   KillHolder

LEMMA PublishFaults == PublishNext => NoFault \/ Fault
BY DEF PublishNext, PublishStep, CheckArguments, Prepare, BuildImage, NotConfigured, ImagesDone,
   ReadForPush, Post, Answered, ImageFails, PublishFails

\* What the other components do to the daemon: they may use up a fault.
LEMMA DaemonUntouched ==
    ASSUME DaemonInv, UNCHANGED daemonVars, NoFault \/ Fault PROVE DaemonInv'
<1>1. faults' \in 0..MaxFaults /\ (faults' = 0 => faults = 0)
  BY DEF DaemonInv, DaemonTypeOK, NoFault, Fault
<1> QED
  BY <1>1 DEF DaemonInv, DaemonTypeOK, StopsStop, RanIsRight, SuccessMeansItRan, SetupIsOwned,
     SomeoneWillStart, daemonVars

LEMMA DaemonInvKept == DaemonInv /\ [Next]_vars => DaemonInv'
<1> SUFFICES ASSUME DaemonInv, [Next]_vars PROVE DaemonInv'
  OBVIOUS
<1>1. CASE DaemonNext
  <2>1. DaemonTypeOK'
    BY <1>1, DaemonTypeKept DEF DaemonInv
  <2> QED
    BY <1>1, <2>1, StopsStopKept, RanIsRightKept, SetupIsOwnedKept, SomeoneWillStartKept
       DEF DaemonInv
<1>2. CASE (\E p \in Proc : TakePort(p)) /\ UNCHANGED daemonVars
  BY <1>2, PortFaults, DaemonUntouched
<1>3. CASE PublishNext /\ UNCHANGED daemonVars
  BY <1>3, PublishFaults, DaemonUntouched
<1>4. CASE UNCHANGED vars
  BY <1>4, DaemonUntouched DEF vars, NoFault
<1> QED
  BY <1>1, <1>2, <1>3, <1>4 DEF Next, AllOver

THEOREM DaemonInvariant == Spec => []DaemonInv
BY DaemonInitially, DaemonInvKept, PTL DEF Spec

(***************************************************************************)
(* When all have ended and nothing has failed, nobody is setting up, so    *)
(* there is no container of the set-up; and nobody is on the way to start  *)
(* the coordinator, so it is none of none, created and exited.             *)
(***************************************************************************)
THEOREM RacesEndWellAlways == Spec => []RacesEndWell
<1>1. DaemonInv => RacesEndWell
  <2> SUFFICES ASSUME DaemonInv, faults = 0, AllEnded
               PROVE  /\ setup.state = "none"
                      /\ (\E p \in Proc : want[p] = "start") /\ (\A p \in Proc : want[p] # "stop")
                            => coord.state = "running"
    BY DEF RacesEndWell
  <2>1. setup.state = "none"
    BY DEF DaemonInv, SetupIsOwned, SettingUp, AllEnded, Ended
  <2>2. ASSUME \E p \in Proc : want[p] = "start", \A p \in Proc : want[p] # "stop"
        PROVE  coord.state = "running"
    BY <2>2 DEF DaemonInv, DaemonTypeOK, Container, States, SomeoneWillStart, Starting, SettingUp,
       AllEnded, Ended
  <2> QED
    BY <2>1, <2>2
<1> QED
  BY DaemonInvariant, <1>1, PTL

\* A command that reports the daemon started has had one that ran.
THEOREM SuccessMeansItRanAlways == Spec => []SuccessMeansItRan
<1>1. DaemonInv => SuccessMeansItRan
  BY DEF DaemonInv, RanIsRight
<1> QED
  BY DaemonInvariant, <1>1, PTL

\* Only RemoveStopped, ForceRemove and CoordinatorExits end a coordinator that
\* runs; the first needs one that does not, and the second is of "daemon stop".
THEOREM StartNeverKillsEver == Spec => StartNeverKills
<1> DEFINE Kept ==
      coord.state = "running" /\ coord'.state # "running" =>
         \/ coord'.state = "exited" /\ faults' # faults
         \/ \E p \in Proc : want[p] = "stop" /\ at[p] = "force"
<1>1. DaemonInv /\ [Next]_vars => [Kept]_<<daemonVars, faults>>
  <2> SUFFICES ASSUME DaemonInv, [Next]_vars, coord' # coord, coord.state = "running" PROVE Kept
    BY DEF daemonVars
  <2> USE DEF Same, CoordBecomes, DaemonInv, DaemonTypeOK
  <2>1. ASSUME NEW p \in Proc, ForceRemove(p) PROVE Kept
    BY <2>1 DEF ForceRemove, StopsStop
  <2>2. CASE CoordinatorExits
    BY <2>2 DEF CoordinatorExits, Fault
  <2>3. ASSUME NEW p \in Proc, RemoveStopped(p) \/ CreateCoordinator(p) \/ StartCoordinator(p)
        PROVE  FALSE
    BY <2>3 DEF RemoveStopped, CreateCoordinator, StartCoordinator
  <2>4. DaemonNext
    BY DEF Next, AllOver, vars, daemonVars
  <2>5. \/ CoordinatorExits
        \/ \E p \in Proc : RemoveStopped(p) \/ CreateCoordinator(p) \/ StartCoordinator(p) \/ ForceRemove(p)
    BY <2>4 DEF DaemonNext, DaemonStep, CheckRunning, HealthCheck, Find, PullImage, CreateSetup,
       StartSetup, FollowLogs, RemoveSetup, Cleanup, FindToStop, SetupExits, BreakDaemon
  <2> QED
    BY <2>1, <2>2, <2>3, <2>5
<1>2. Spec => [][Kept]_<<daemonVars, faults>>
  BY DaemonInvariant, <1>1, PTL DEF Spec
<1> QED
  BY <1>2 DEF StartNeverKills

(***************************************************************************)
(* The ports.                                                              *)
(***************************************************************************)
Served == {"allocated", "released", "serving", "done"}

\* What a process has to do with ports, by where it is.
StagesAreRight ==
    \A p \in Proc :
        /\ held[p] # {} => stage[p] = "allocated"
        /\ bound[p] # {} => stage[p] \in {"serving", "killed"}
        /\ tried[p] # {} => stage[p] \in {"new", "killed"}
        /\ stage[p] \in {"new", "allocated", "released"} => tries[p] < MaxTries
        /\ stage[p] = "killed" => faults # 0

\* Whoever has found a port taken, or given up, has lost it to someone; and he
\* does not lose it in turn but to another one.
SomeoneIsServed ==
    faults = 0 /\ (\E p \in Proc : tried[p] # {} \/ stage[p] = "noPort") =>
        \E q \in Proc : stage[q] \in Served

PortsInv == PortsTypeOK /\ StagesAreRight /\ PortsAreExclusive /\ SomeoneIsServed /\ faults \in Nat

USE PortAssumption

LEMMA PortsInitially == Init => PortsInv
<1> SUFFICES ASSUME Init PROVE PortsInv
  OBVIOUS
<1> USE DEF Init, PortsInit
<1>1. PortsTypeOK
  BY DEF PortsTypeOK
<1>2. StagesAreRight
  <2> SUFFICES ASSUME NEW p \in Proc
               PROVE  /\ held[p] = {} /\ bound[p] = {} /\ tried[p] = {}
                      /\ stage[p] = "new" /\ tries[p] < MaxTries
    BY DEF StagesAreRight
  <2> QED
    OBVIOUS
<1>3. PortsAreExclusive /\ SomeoneIsServed /\ faults \in Nat
  BY DEF PortsAreExclusive, SomeoneIsServed
<1> QED
  BY <1>1, <1>2, <1>3 DEF PortsInv

\* A port that is taken is one of a process that listens or serves.
LEMMA TakenIsServed ==
    ASSUME PortsInv, NEW x \in Taken, faults = 0
    PROVE  \E q \in Proc : x \in held[q] \cup bound[q] /\ stage[q] \in {"allocated", "serving"}
<1>1. PICK q \in Proc : x \in held[q] \cup bound[q]
  BY DEF Taken
<1>2. stage[q] \in {"allocated", "serving"}
  BY <1>1 DEF PortsInv, StagesAreRight
<1> QED
  BY <1>1, <1>2

LEMMA PortsTypeKept == ASSUME PortsInv, NEW p \in Proc, TakePort(p) PROVE PortsTypeOK'
<1> USE DEF PortsInv, PortsTypeOK, StagesAreRight, To, NoFault, Fault
<1>1. CASE TryBindPort(p)
  BY <1>1 DEF TryBindPort
<1>2. CASE NoneFree(p) \/ StartFails(p)
  BY <1>2 DEF NoneFree, StartFails, TryAgain
<1>3. CASE StartOnPort(p)
  BY <1>3 DEF StartOnPort, TryAgain
<1>4. CASE Release(p) \/ RemoveContainer(p) \/ KillHolder(p)
  BY <1>4 DEF Release, RemoveContainer, KillHolder
<1> QED
  BY <1>1, <1>2, <1>3, <1>4 DEF TakePort, PortStep

LEMMA StagesKept == ASSUME PortsInv, NEW p \in Proc, TakePort(p) PROVE StagesAreRight'
<1> USE DEF PortsInv, PortsTypeOK, StagesAreRight, To, NoFault, Fault
<1>1. CASE TryBindPort(p)
  BY <1>1 DEF TryBindPort
<1>2. CASE NoneFree(p) \/ StartFails(p)
  BY <1>2 DEF NoneFree, StartFails, TryAgain
<1>3. CASE StartOnPort(p)
  BY <1>3 DEF StartOnPort, TryAgain
<1>4. CASE Release(p) \/ RemoveContainer(p) \/ KillHolder(p)
  BY <1>4 DEF Release, RemoveContainer, KillHolder
<1> QED
  BY <1>1, <1>2, <1>3, <1>4 DEF TakePort, PortStep

LEMMA ExclusiveKept == ASSUME PortsInv, NEW p \in Proc, TakePort(p) PROVE PortsAreExclusive'
<1> USE DEF PortsInv, PortsTypeOK, PortsAreExclusive, Taken
<1>1. CASE TryBindPort(p)
  <2>1. PICK x \in Port : IF x \in Taken THEN UNCHANGED held ELSE held' = [held EXCEPT ![p] = {x}]
    BY <1>1 DEF TryBindPort
  <2>2. bound' = bound
    BY <1>1 DEF TryBindPort
  <2> QED
    BY <2>1, <2>2
<1>2. CASE NoneFree(p) \/ StartFails(p)
  BY <1>2 DEF NoneFree, StartFails
<1>3. CASE StartOnPort(p)
  BY <1>3 DEF StartOnPort
<1>4. CASE Release(p) \/ RemoveContainer(p) \/ KillHolder(p)
  BY <1>4 DEF Release, RemoveContainer, KillHolder
<1> QED
  BY <1>1, <1>2, <1>3, <1>4 DEF TakePort, PortStep

LEMMA SomeoneServedKept == ASSUME PortsInv, NEW p \in Proc, TakePort(p) PROVE SomeoneIsServed'
<1> SUFFICES ASSUME faults' = 0, \E q \in Proc : tried'[q] # {} \/ stage'[q] = "noPort"
             PROVE  \E q \in Proc : stage'[q] \in Served
  BY DEF SomeoneIsServed
<1>1. faults = 0 /\ ~StartFails(p) /\ ~KillHolder(p)
  BY PortFaults DEF PortsInv, Fault, NoFault, StartFails, KillHolder
<1> USE <1>1 DEF PortsInv, PortsTypeOK, SomeoneIsServed, To, Served
<1>2. CASE TryBindPort(p)
  <2>1. PICK x \in Port : IF x \in Taken THEN UNCHANGED stage ELSE To(p, "allocated")
    BY <1>2 DEF TryBindPort
  <2> QED
    BY <2>1, TakenIsServed
<1>3. CASE NoneFree(p)
  <2>1. PICK q \in Proc : stage[q] \in Served
    BY <1>3 DEF NoneFree
  <2> QED
    BY <1>3, <2>1 DEF NoneFree, TryAgain
<1>4. CASE StartOnPort(p) /\ port[p] \cap Taken # {}
  <2>1. PICK x \in Taken : x \in port[p]
    BY <1>4
  <2>2. PICK q \in Proc : stage[q] \in {"allocated", "serving"}
    BY <2>1, TakenIsServed
  <2> QED
    BY <1>4, <2>2 DEF StartOnPort, TryAgain
<1>5. CASE StartOnPort(p) /\ port[p] \cap Taken = {}
  BY <1>5 DEF StartOnPort
<1>6. CASE Release(p) \/ RemoveContainer(p)
  BY <1>6 DEF Release, RemoveContainer
<1> QED
  BY <1>2, <1>3, <1>4, <1>5, <1>6 DEF TakePort, PortStep

LEMMA PortsUntouched == ASSUME PortsInv, UNCHANGED portVars, NoFault \/ Fault PROVE PortsInv'
BY DEF PortsInv, PortsTypeOK, StagesAreRight, PortsAreExclusive, SomeoneIsServed, portVars, NoFault, Fault

LEMMA PortsInvKept == PortsInv /\ [Next]_vars => PortsInv'
<1> SUFFICES ASSUME PortsInv, [Next]_vars PROVE PortsInv'
  OBVIOUS
<1>1. ASSUME NEW p \in Proc, TakePort(p) PROVE PortsInv'
  <2>1. faults' \in Nat
    BY <1>1, PortFaults DEF PortsInv, Fault, NoFault
  <2> QED
    BY <1>1, <2>1, PortsTypeKept, StagesKept, ExclusiveKept, SomeoneServedKept DEF PortsInv
<1>2. CASE DaemonNext /\ UNCHANGED portVars
  BY <1>2, DaemonFaults, PortsUntouched
<1>3. CASE PublishNext /\ UNCHANGED portVars
  BY <1>3, PublishFaults, PortsUntouched
<1>4. CASE UNCHANGED vars
  BY <1>4, PortsUntouched DEF vars, NoFault
<1> QED
  BY <1>1, <1>2, <1>3, <1>4 DEF Next, AllOver

THEOREM PortsInvariant == Spec => []PortsInv
BY PortsInitially, PortsInvKept, PTL DEF Spec

\* If one process gives up, another one has had a port.
THEOREM NotEveryoneStarvesEver == Spec => []NotEveryoneStarves
<1>1. PortsInv => NotEveryoneStarves
  BY DEF PortsInv, SomeoneIsServed, NotEveryoneStarves, Served
<1> QED
  BY PortsInvariant, <1>1, PTL

\* No two processes hold a port at the same time.
THEOREM PortsAreExclusiveAlways == Spec => []PortsAreExclusive
<1>1. PortsInv => PortsAreExclusive
  BY DEF PortsInv
<1> QED
  BY PortsInvariant, <1>1, PTL

(***************************************************************************)
(* The images and the versions.                                            *)
(***************************************************************************)
\* What the command of p stores under its tag is there, from it or from one
\* that uses the same tag.
Has(p, i) == stored[<<i, cmd[p].tag>>] \in SameTag(p)

Needs(p) == IF cmd[p].what = "build" THEN config ELSE ImagesOf(cmd[p].kind)

Building(p) ==
    /\ failed[p] => cmd[p].what = "build"
    /\ phase[p] = "images" /\ ~cmd[p].dry /\ ~failed[p] => \A i \in Needs(p) \ todo[p] : Has(p, i)
    /\ cmd[p].what = "build" /\ ~cmd[p].dry /\ phase[p] = "ok" => \A i \in config : Has(p, i)

Posting(p) ==
    phase[p] \in {"config", "post"} =>
        /\ cmd[p].what # "build"
        /\ cmd[p].dry => cmd[p].kind = "group"
        /\ cmd[p].build => \A i \in ImagesOf(cmd[p].kind) : Has(p, i)

VersionIsRight(v) ==
    /\ v.images = Named(cmd[v.by])
    /\ cmd[v.by].build => \A i \in ImagesOf(cmd[v.by].kind) : Has(v.by, i)
    /\ cmd[v.by].dry => cmd[v.by].kind = "group"

PublishInv ==
    /\ PublishTypeOK
    /\ \A p \in Proc : Building(p) /\ Posting(p)
    /\ \A v \in versions : VersionIsRight(v)
    /\ \A x \in Image \X Tag : stored[x] # Earlier => ~cmd[stored[x]].dry

LEMMA ImagesOfKinds == \A k \in Image \cup {"group"} : ImagesOf(k) \subseteq Image
BY DEF ImagesOf, Image

LEMMA PublishInitially == Init => PublishInv
<1> SUFFICES ASSUME Init PROVE PublishInv
  OBVIOUS
<1> USE DEF Init, PublishInit
<1>1. cmd \in [Proc -> Command] /\ config \subseteq Image
  BY MixAssumption
<1>2. PublishTypeOK
  BY <1>1 DEF PublishTypeOK
<1>3. \A p \in Proc : Building(p) /\ Posting(p)
  BY <1>1 DEF Building, Posting
<1> QED
  BY <1>2, <1>3 DEF PublishInv

LEMMA PublishTypeKept == PublishInv /\ PublishNext => PublishTypeOK'
<1> SUFFICES ASSUME PublishInv, NEW p \in Proc, PublishStep(p) \/ ImageFails(p) \/ PublishFails(p)
             PROVE  PublishTypeOK'
  BY DEF PublishNext
<1> USE DEF PublishInv, PublishTypeOK, Phase
<1>1. CASE CheckArguments(p)
  BY <1>1 DEF CheckArguments, AfterImages
<1>2. cmd[p].tag \in Tag /\ cmd[p].kind \in Image \cup {"group"}
  BY DEF Command
<1>3. ImagesOf(cmd[p].kind) \subseteq Image
  BY <1>2, ImagesOfKinds
<1>4. CASE Prepare(p)
  BY <1>3, <1>4 DEF Prepare
<1>5. CASE BuildImage(p)
  BY <1>2, <1>5 DEF BuildImage
<1>6. CASE NotConfigured(p) \/ ReadForPush(p) \/ PublishFails(p)
  BY <1>6 DEF NotConfigured, ReadForPush, PublishFails
<1>7. CASE ImagesDone(p)
  BY <1>7 DEF ImagesDone, AfterImages
<1>8. CASE Post(p)
  <2>1. Named(cmd[p]) \subseteq Image \X Tag
    BY <1>2, <1>3 DEF Named
  <2> QED
    BY <1>8, <2>1 DEF Post, Answered
<1>9. CASE ImageFails(p)
  <2>1. todo' = todo \/ \E i \in config : todo' = [todo EXCEPT ![p] = @ \ {i}]
    BY <1>9 DEF ImageFails
  <2>2. todo' \in [Proc -> SUBSET Image]
    BY <2>1
  <2> QED
    BY <1>9, <2>2 DEF ImageFails
<1> QED
  BY <1>1, <1>4, <1>5, <1>6, <1>7, <1>8, <1>9 DEF PublishStep

\* An image that is there stays: it is replaced by commands of the same tag.
LEMMA HasKept ==
    ASSUME PublishInv, PublishNext, NEW p \in Proc, NEW i \in Image, Has(p, i)
    PROVE  Has(p, i)'
<1>1. cmd' = cmd
  BY DEF PublishNext, PublishStep, CheckArguments, Prepare, BuildImage, NotConfigured, ImagesDone,
     ReadForPush, Post, ImageFails, PublishFails
<1>2. CASE stored' = stored
  BY <1>1, <1>2 DEF Has, SameTag
<1>3. ASSUME NEW q \in Proc, NEW j \in Image, stored' = [stored EXCEPT ![<<j, cmd[q].tag>>] = q]
      PROVE  Has(p, i)'
  BY <1>1, <1>3 DEF Has, SameTag, PublishInv, PublishTypeOK, Command
<1> QED
  BY <1>2, <1>3 DEF PublishInv, PublishTypeOK, PublishNext, PublishStep, CheckArguments, Prepare,
     BuildImage, NotConfigured, ImagesDone, ReadForPush, Post, ImageFails, PublishFails

LEMMA CommandKept == PublishNext => UNCHANGED <<cmd, config>>
BY DEF PublishNext, PublishStep, CheckArguments, Prepare, BuildImage, NotConfigured, ImagesDone,
   ReadForPush, Post, ImageFails, PublishFails

\* The images a command has built since it began are all there when it posts.
LEMMA OwnStepKept ==
    ASSUME PublishInv, NEW p \in Proc, PublishStep(p) \/ ImageFails(p) \/ PublishFails(p)
    PROVE  Building(p)' /\ Posting(p)'
<1> USE DEF Phase, PublishTypeOK
<1>1. /\ PublishTypeOK /\ Building(p) /\ Posting(p)
      /\ UNCHANGED <<cmd, config>>
      /\ Needs(p) \subseteq Image /\ ImagesOf(cmd[p].kind) \subseteq Image
  BY CommandKept, ImagesOfKinds DEF PublishInv, PublishNext, Needs, Command
<1>2. /\ Needs(p)' = Needs(p) /\ ImagesOf(cmd[p].kind)' = ImagesOf(cmd[p].kind)
      /\ \A i \in Image : Has(p, i) => Has(p, i)'
  BY <1>1, HasKept DEF PublishNext, Needs, ImagesOf
<1>3. CASE CheckArguments(p)
  BY <1>1, <1>2, <1>3 DEF CheckArguments, AfterImages, Building, Posting, ImagesOf, Command
<1>4. CASE Prepare(p)
  <2>1. phase'[p] = "images" => todo'[p] = Needs(p)
    BY <1>1, <1>4 DEF Prepare, Needs
  <2> QED
    BY <1>1, <1>2, <1>4, <2>1 DEF Prepare, Building, Posting
<1>5. CASE BuildImage(p)
  <2>1. PICK i \in config : /\ todo' = [todo EXCEPT ![p] = @ \ {i}]
                            /\ cmd[p].dry \/ stored' = [stored EXCEPT ![<<i, cmd[p].tag>>] = p]
    BY <1>5 DEF BuildImage
  <2>2. ~cmd[p].dry => Has(p, i)'
    BY <1>1, <2>1 DEF Has, SameTag, Command
  <2> QED
    BY <1>1, <1>2, <1>5, <2>1, <2>2 DEF BuildImage, Building, Posting
<1>6. CASE ImagesDone(p)
  BY <1>1, <1>2, <1>6 DEF ImagesDone, AfterImages, Building, Posting, Needs, Command
<1>7. CASE ImageFails(p)
  BY <1>1, <1>2, <1>7 DEF ImageFails, Building, Posting
<1>8. CASE NotConfigured(p) \/ PublishFails(p)
  BY <1>1, <1>2, <1>8 DEF NotConfigured, PublishFails, Building, Posting
<1>9. CASE ReadForPush(p)
  BY <1>1, <1>2, <1>9 DEF ReadForPush, Building, Posting
<1>10. CASE Post(p)
  BY <1>1, <1>2, <1>10 DEF Post, Answered, Building, Posting
<1> QED
  BY <1>3, <1>4, <1>5, <1>6, <1>7, <1>8, <1>9, <1>10 DEF PublishStep

LEMMA OthersStepKept ==
    ASSUME PublishInv, NEW p \in Proc, PublishStep(p) \/ ImageFails(p) \/ PublishFails(p),
           NEW q \in Proc, q # p
    PROVE  Building(q)' /\ Posting(q)'
<1>1. /\ PublishTypeOK /\ Building(q) /\ Posting(q) /\ UNCHANGED <<cmd, config>>
      /\ Needs(q) \subseteq Image /\ ImagesOf(cmd[q].kind) \subseteq Image
  BY CommandKept, ImagesOfKinds DEF PublishInv, PublishTypeOK, PublishNext, Needs, Command
<1>2. /\ Needs(q)' = Needs(q) /\ ImagesOf(cmd[q].kind)' = ImagesOf(cmd[q].kind)
      /\ \A i \in Image : Has(q, i) => Has(q, i)'
  BY <1>1, HasKept DEF PublishNext, Needs, ImagesOf
<1>3. phase'[q] = phase[q]
  BY <1>1 DEF PublishTypeOK, Phase, PublishStep, CheckArguments, Prepare, BuildImage, NotConfigured,
     ImagesDone, ReadForPush, Post, Answered, ImageFails, PublishFails
<1>4. todo'[q] = todo[q] /\ failed'[q] = failed[q]
  BY <1>1 DEF PublishTypeOK, PublishStep, CheckArguments, Prepare, BuildImage, NotConfigured,
     ImagesDone, ReadForPush, Post, ImageFails, PublishFails
<1>5. Building(q)'
  <2>1. ASSUME NEW i \in Needs(q)' \ todo'[q], Has(q, i) PROVE Has(q, i)'
    BY <1>1, <1>2, <2>1
  <2>2. ASSUME NEW i \in config', Has(q, i) PROVE Has(q, i)'
    BY <1>1, <1>2, <2>2 DEF PublishTypeOK
  <2> QED
    BY <1>1, <1>2, <1>3, <1>4, <2>1, <2>2 DEF Building
<1>6. Posting(q)'
  BY <1>1, <1>2, <1>3 DEF Posting
<1> QED
  BY <1>5, <1>6

LEMMA VersionsKept ==
    ASSUME PublishInv, NEW p \in Proc, PublishStep(p) \/ ImageFails(p) \/ PublishFails(p),
           NEW v \in versions'
    PROVE  VersionIsRight(v)'
<1>1. /\ PublishTypeOK /\ UNCHANGED <<cmd, config>>
      /\ \A q \in Proc : ImagesOf(cmd[q].kind) \subseteq Image
  BY CommandKept, ImagesOfKinds DEF PublishInv, PublishTypeOK, PublishNext, Command
<1>2. \A q \in Proc : \A i \in Image : Has(q, i) => Has(q, i)'
  BY HasKept DEF PublishNext
<1>3. CASE v \in versions
  <2>1. v.by \in Proc /\ VersionIsRight(v)
    BY <1>1, <1>3 DEF PublishInv, PublishTypeOK
  <2> QED
    BY <1>1, <1>2, <2>1 DEF VersionIsRight, Named, ImagesOf
<1>4. CASE v \notin versions
  <2>1. Post(p) /\ v = [by |-> p, images |-> Named(cmd[p])]
    BY <1>4 DEF PublishStep, CheckArguments, Prepare, BuildImage, NotConfigured,
       ImagesDone, ReadForPush, Post, ImageFails, PublishFails
  <2>2. Posting(p) /\ phase[p] = "post"
    BY <2>1 DEF PublishInv, Post
  <2> QED
    BY <1>1, <1>2, <2>1, <2>2 DEF Posting, VersionIsRight, Named, ImagesOf
<1> QED
  BY <1>3, <1>4

LEMMA DryKept ==
    ASSUME PublishInv, NEW p \in Proc, PublishStep(p) \/ ImageFails(p) \/ PublishFails(p)
    PROVE  (\A x \in Image \X Tag : stored[x] # Earlier => ~cmd[stored[x]].dry)'
<1>1. PublishTypeOK /\ UNCHANGED cmd /\ \A x \in Image \X Tag : stored[x] # Earlier => ~cmd[stored[x]].dry
  BY CommandKept DEF PublishInv, PublishNext
<1>2. CASE stored' = stored
  BY <1>1, <1>2
<1>3. ASSUME NEW y, stored' = [stored EXCEPT ![y] = p], ~cmd[p].dry
      PROVE  \A x \in Image \X Tag : stored'[x] # Earlier => ~cmd[stored'[x]].dry
  BY <1>1, <1>3 DEF PublishTypeOK
<1>4. stored' = stored \/ \E y : stored' = [stored EXCEPT ![y] = p] /\ ~cmd[p].dry
  BY DEF PublishStep, CheckArguments, Prepare, BuildImage, NotConfigured, ImagesDone, ReadForPush,
     Post, ImageFails, PublishFails
<1> QED
  BY <1>1, <1>2, <1>3, <1>4

LEMMA PublishInvKept == PublishInv /\ [Next]_vars => PublishInv'
<1> SUFFICES ASSUME PublishInv, [Next]_vars PROVE PublishInv'
  OBVIOUS
<1>1. CASE PublishNext
  <2>1. PICK p \in Proc : PublishStep(p) \/ ImageFails(p) \/ PublishFails(p)
    BY <1>1 DEF PublishNext
  <2>2. \A q \in Proc : Building(q)' /\ Posting(q)'
    BY <2>1, OwnStepKept, OthersStepKept
  <2>3. (\A v \in versions : VersionIsRight(v))'
    BY <2>1, VersionsKept
  <2> QED
    BY <1>1, <2>1, <2>2, <2>3, PublishTypeKept, DryKept DEF PublishInv
<1>2. CASE UNCHANGED publishVars
  <2>1. PublishTypeOK' /\ (\A x \in Image \X Tag : stored[x] # Earlier => ~cmd[stored[x]].dry)'
    BY <1>2 DEF publishVars, PublishInv, PublishTypeOK
  <2>2. \A q \in Proc : Building(q)' /\ Posting(q)'
    BY <1>2 DEF publishVars, PublishInv, Building, Posting, Has, SameTag, Needs
  <2>3. (\A v \in versions : VersionIsRight(v))'
    BY <1>2 DEF publishVars, PublishInv, VersionIsRight, Has, SameTag
  <2> QED
    BY <2>1, <2>2, <2>3 DEF PublishInv
<1> QED
  BY <1>1, <1>2 DEF Next, AllOver, vars

THEOREM PublishInvariant == Spec => []PublishInv
BY PublishInitially, PublishInvKept, PTL DEF Spec

\* A version that "push --build" publishes has every image it names.
THEOREM VersionsAreWholeAlways == Spec => []VersionsAreWhole
<1>1. PublishInv => VersionsAreWhole
  <2> SUFFICES ASSUME PublishInv PROVE VersionsAreWhole
    OBVIOUS
  <2>1. ASSUME NEW v \in versions, cmd[v.by].build, NEW x \in v.images
        PROVE  stored[x] \in SameTag(v.by)
    <3>1. VersionIsRight(v)
      BY DEF PublishInv
    <3>2. PICK i \in ImagesOf(cmd[v.by].kind) : x = <<i, cmd[v.by].tag>>
      BY <3>1 DEF VersionIsRight, Named
    <3> QED
      BY <2>1, <3>1, <3>2 DEF VersionIsRight, Has
  <2>2. ASSUME NEW p \in Proc, cmd[p].what = "build", ~cmd[p].dry, phase[p] = "ok", NEW i \in config
        PROVE  stored[<<i, cmd[p].tag>>] \in SameTag(p)
    BY <2>2 DEF PublishInv, Building, Has
  <2> QED
    BY <2>1, <2>2 DEF VersionsAreWhole
<1> QED
  BY PublishInvariant, <1>1, PTL

\* A dry run stores no image, and publishes nothing but a group.
THEOREM DryRunTouchesNothingEver == Spec => []DryRunTouchesNothing
<1>1. PublishInv => DryRunTouchesNothing
  BY DEF PublishInv, PublishTypeOK, DryRunTouchesNothing, VersionIsRight
<1> QED
  BY PublishInvariant, <1>1, PTL

\* Every variable has its type.
THEOREM TypeCorrect == Spec => []TypeOK
<1>1. DaemonInv /\ PortsInv /\ PublishInv => TypeOK
  BY DEF DaemonInv, PortsInv, PublishInv, TypeOK
<1> QED
  BY DaemonInvariant, PortsInvariant, PublishInvariant, <1>1, PTL
=============================================================================
