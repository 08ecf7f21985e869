------------------------------- MODULE Daemon -------------------------------
(***************************************************************************)
(* The coordinator daemon on a machine: start_coordinator and              *)
(* stop_coordinator (src/cyanprint/src/coord.rs), which are also "daemon   *)
(* start" and "daemon stop", and ensure_daemon_running (try_cmd.rs), with  *)
(* which try and test begin.  Several processes do this at once, through   *)
(* Docker, which has at most one container of a name: the coordinator, and *)
(* the one that sets up its network.                                       *)
(***************************************************************************)
EXTENDS Processes

VARIABLES
    coord, setup,  \* the containers cyanprint-coordinator and -setup
    want,          \* what each process wants: start, stop, ensure, or none
    at,            \* where it is
    seen,          \* the container it has found in the list
    ran            \* the coordinator has run since the process began

daemonVars == <<coord, setup, want, at, seen, ran>>

States == {"none", "created", "running", "exited"}
Container == [state : States, by : Proc \cup {Earlier}]
NoContainer == [state |-> "none", by |-> Earlier]

Begin_(w) ==
    CASE w = "start"  -> "list"
      [] w = "stop"   -> "cleanup"
      [] w = "ensure" -> "check"
      [] w = "none"   -> "ok"

DaemonInit ==
    /\ coord \in {NoContainer} \cup [state : {"running", "exited"}, by : {Earlier}]
    /\ setup = NoContainer
    /\ at = [p \in Proc |-> Begin_(want[p])]
    /\ seen = [p \in Proc |-> Earlier]
    /\ ran = [p \in Proc |-> coord.state = "running"]

-----------------------------------------------------------------------------
Go(p, to) == at' = [at EXCEPT ![p] = to]
Started(p) == IF want[p] = "ensure" THEN "health" ELSE "ok"

\* ran follows what coord becomes; a step changes coord or leaves it alone.
CoordBecomes(c) ==
    /\ coord' = c
    /\ ran' = [p \in Proc |-> ran[p] \/ c.state = "running"]
Same == UNCHANGED <<coord, ran>>

\* ensure_daemon_running lists what runs; --disable-daemon-autostart.
CheckRunning(p) ==
    /\ at[p] = "check"
    /\ IF coord.state = "running" THEN Go(p, "health") ELSE Go(p, "list") \/ Go(p, "error")
    /\ Same /\ NoFault /\ UNCHANGED <<setup, want, seen>>

\* health_check_daemon asks up to sixty times.
HealthCheck(p) ==
    /\ at[p] = "health"
    /\ Go(p, IF coord.state = "running" THEN "ok" ELSE "error")
    /\ Same /\ NoFault /\ UNCHANGED <<setup, want, seen>>

(***************************************************************************)
(* start_coordinator.                                                      *)
(***************************************************************************)
Find(p) ==
    /\ at[p] = "list"
    /\ Go(p, CASE coord.state = "running" -> Started(p)
               [] coord.state = "none"    -> "pull"
               [] OTHER                   -> "remove")
    /\ seen' = [seen EXCEPT ![p] = coord.by]
    /\ Same /\ NoFault /\ UNCHANGED <<setup, want>>

\* Mutant: force is true here as well.
RemoveByForce(p) ==
    /\ at[p] = "remove"
    /\ IF coord.state # "none" /\ coord.by = seen[p]
         THEN CoordBecomes(NoContainer) /\ Go(p, "pull")
         ELSE Same /\ Go(p, "error")
    /\ NoFault /\ UNCHANGED <<setup, want, seen>>

\* Docker refuses to remove what runs by now, and what is gone.
RemoveStopped(p) ==
    /\ at[p] = "remove"
    /\ IF coord.state \in {"created", "exited"} /\ coord.by = seen[p]
         THEN CoordBecomes(NoContainer) /\ Go(p, "pull")
         ELSE Same /\ Go(p, "error")
    /\ NoFault /\ UNCHANGED <<setup, want, seen>>

PullImage(p) ==
    /\ at[p] = "pull"
    /\ Go(p, "createSetup")
    /\ Same /\ NoFault /\ UNCHANGED <<setup, want, seen>>

\* Mutant: it is tried again until the name is free.
CreateSetupAgain(p) ==
    /\ at[p] = "createSetup"
    /\ IF setup.state = "none"
         THEN setup' = [state |-> "created", by |-> p] /\ Go(p, "startSetup")
         ELSE UNCHANGED <<setup, at>>
    /\ Same /\ NoFault /\ UNCHANGED <<want, seen>>

\* The name of the container is taken while another process sets up.
CreateSetup(p) ==
    /\ at[p] = "createSetup"
    /\ IF setup.state = "none"
         THEN setup' = [state |-> "created", by |-> p] /\ Go(p, "startSetup")
         ELSE UNCHANGED setup /\ Go(p, "error")
    /\ Same /\ NoFault /\ UNCHANGED <<want, seen>>

StartSetup(p) ==
    /\ at[p] = "startSetup"
    /\ setup' = [setup EXCEPT !.state = "running"] /\ Go(p, "logs")
    /\ Same /\ NoFault /\ UNCHANGED <<want, seen>>

\* The set-up does its work and exits.
SetupExits ==
    /\ setup.state = "running"
    /\ setup' = [setup EXCEPT !.state = "exited"]
    /\ Same /\ NoFault /\ UNCHANGED <<want, at, seen>>

\* Its log is followed to the end.
FollowLogs(p) ==
    /\ at[p] = "logs" /\ setup.state = "exited"
    /\ Go(p, "removeSetup")
    /\ Same /\ NoFault /\ UNCHANGED <<setup, want, seen>>

\* Mutant: the container that has done its work is left.
LeaveSetup(p) ==
    /\ at[p] = "removeSetup"
    /\ Go(p, "create")
    /\ Same /\ NoFault /\ UNCHANGED <<setup, want, seen>>

RemoveSetup(p) ==
    /\ at[p] = "removeSetup"
    /\ setup' = NoContainer /\ Go(p, "create")
    /\ Same /\ NoFault /\ UNCHANGED <<want, seen>>

CreateCoordinator(p) ==
    /\ at[p] = "create"
    /\ IF coord.state = "none"
         THEN CoordBecomes([state |-> "created", by |-> p]) /\ Go(p, "start")
         ELSE Same /\ Go(p, "error")
    /\ NoFault /\ UNCHANGED <<setup, want, seen>>

\* By its id: another process may have removed it as a stopped one.
StartCoordinator(p) ==
    /\ at[p] = "start"
    /\ IF coord = [state |-> "created", by |-> p]
         THEN CoordBecomes([coord EXCEPT !.state = "running"]) /\ Go(p, Started(p))
         ELSE Same /\ Go(p, "error")
    /\ NoFault /\ UNCHANGED <<setup, want, seen>>

(***************************************************************************)
(* stop_coordinator.                                                       *)
(***************************************************************************)
\* DELETE /cleanup: whatever comes of it.
Cleanup(p) ==
    /\ at[p] = "cleanup"
    /\ Go(p, "find")
    /\ Same /\ NoFault /\ UNCHANGED <<setup, want, seen>>

FindToStop(p) ==
    /\ at[p] = "find"
    /\ Go(p, IF coord.state = "none" THEN "ok" ELSE "force")
    /\ seen' = [seen EXCEPT ![p] = coord.by]
    /\ Same /\ NoFault /\ UNCHANGED <<setup, want>>

ForceRemove(p) ==
    /\ at[p] = "force"
    /\ IF coord.state # "none" /\ coord.by = seen[p]
         THEN CoordBecomes(NoContainer) /\ Go(p, "ok")
         ELSE Same /\ Go(p, "error")
    /\ NoFault /\ UNCHANGED <<setup, want, seen>>

-----------------------------------------------------------------------------
Ended(p) == at[p] \in {"ok", "error"}

\* A call to Docker fails, or the process is killed before it.
BreakDaemon(p) ==
    /\ ~Ended(p)
    /\ Go(p, "error")
    /\ Fault /\ Same /\ UNCHANGED <<setup, want, seen>>

CoordinatorExits ==
    /\ coord.state = "running"
    /\ CoordBecomes([coord EXCEPT !.state = "exited"])
    /\ Fault /\ UNCHANGED <<setup, want, at, seen>>

DaemonStep(p) ==
    \/ CheckRunning(p) \/ HealthCheck(p)
    \/ Find(p) \/ RemoveStopped(p) \/ PullImage(p)
    \/ CreateSetup(p) \/ StartSetup(p) \/ FollowLogs(p) \/ RemoveSetup(p)
    \/ CreateCoordinator(p) \/ StartCoordinator(p)
    \/ Cleanup(p) \/ FindToStop(p) \/ ForceRemove(p)

DaemonNext ==
    \/ \E p \in Proc : DaemonStep(p) \/ BreakDaemon(p)
    \/ SetupExits \/ CoordinatorExits

-----------------------------------------------------------------------------
DaemonTypeOK ==
    /\ coord \in Container /\ setup \in Container
    /\ want \in [Proc -> {"start", "stop", "ensure", "none"}]
    /\ at \in [Proc -> {"check", "health", "list", "remove", "pull", "createSetup", "startSetup",
                        "logs", "removeSetup", "create", "start", "cleanup", "find", "force",
                        "ok", "error"}]
    /\ seen \in [Proc -> Proc \cup {Earlier}] /\ ran \in [Proc -> BOOLEAN]
    /\ faults \in 0..MaxFaults

\* A coordinator that runs is taken away by "daemon stop" only, or exits by
\* itself: a start that has found it stopped does not remove it once another
\* process has started it.
StartNeverKills ==
    [][coord.state = "running" /\ coord'.state # "running" =>
          \/ coord'.state = "exited" /\ faults' # faults
          \/ \E p \in Proc : want[p] = "stop" /\ at[p] = "force"]_<<daemonVars, faults>>

\* A command that reports the daemon started, or goes on because it runs, has
\* had one that ran at some moment.
SuccessMeansItRan ==
    \A p \in Proc : want[p] \in {"start", "ensure"} /\ at[p] = "ok" => ran[p]

AllEnded == \A p \in Proc : Ended(p)

\* Processes that race one another for the daemon, each removing and creating
\* containers of the same two names, leave nothing in the way of a later start;
\* and one of those that start it succeeds, if nobody stops it.
RacesEndWell ==
    faults = 0 /\ AllEnded =>
        /\ setup.state = "none"
        /\ (\E p \in Proc : want[p] = "start") /\ (\A p \in Proc : want[p] # "stop")
              => coord.state = "running"

\* The container of the set-up is gone whenever nobody is setting up.
SetupIsRemoved == AllEnded => setup.state = "none"
=============================================================================
