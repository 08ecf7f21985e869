------------------------------- MODULE Ports -------------------------------
(***************************************************************************)
(* The ports of the containers that try and test start: allocate_port      *)
(* (src/cyanprint/src/port.rs) binds a listener to the first port that is  *)
(* free, in any order; the caller drops the listener and has Docker bind   *)
(* the port; where another process has taken it in between, it begins      *)
(* again, up to three times (try_cmd.rs, test_cmd/container.rs).           *)
(***************************************************************************)
EXTENDS Processes

CONSTANTS Port,      \* a range of ports
          MaxTries   \* attempts to start a container; the code has 3

ASSUME PortAssumption == Port # {} /\ MaxTries \in Nat \ {0}

VARIABLES
    stage,   \* where each process is
    tried,   \* the ports it has tried to listen on in this attempt
    held,    \* those it listens on
    port,    \* the one it has been given
    bound,   \* those its container is bound to
    tries    \* attempts that have failed

portVars == <<stage, tried, held, port, bound, tries>>

PortsInit ==
    /\ stage = [p \in Proc |-> "new"]
    /\ tried = [p \in Proc |-> {}]
    /\ held  = [p \in Proc |-> {}]
    /\ port  = [p \in Proc |-> {}]
    /\ bound = [p \in Proc |-> {}]
    /\ tries = [p \in Proc |-> 0]

Taken == UNION {held[p] \cup bound[p] : p \in Proc}

To(p, s) == stage' = [stage EXCEPT ![p] = s]

\* An attempt ends without a container.
TryAgain(p) ==
    /\ tries' = [tries EXCEPT ![p] = @ + 1]
    /\ To(p, IF tries[p] + 1 = MaxTries THEN "noPort" ELSE "new")
    /\ tried' = [tried EXCEPT ![p] = {}]
    /\ port' = [port EXCEPT ![p] = {}]

\* try_bind_port, for a port not tried before.
TryBindPort(p) ==
    /\ stage[p] = "new"
    /\ \E x \in Port \ tried[p] :
          IF x \in Taken
            THEN tried' = [tried EXCEPT ![p] = @ \cup {x}] /\ UNCHANGED <<stage, held, port>>
            ELSE /\ held' = [held EXCEPT ![p] = {x}]
                 /\ port' = [port EXCEPT ![p] = {x}]
                 /\ tried' = [tried EXCEPT ![p] = {}]
                 /\ To(p, "allocated")
    /\ UNCHANGED <<bound, tries>> /\ NoFault

\* allocate_port returns None.
NoneFree(p) ==
    /\ stage[p] = "new" /\ tried[p] = Port
    /\ TryAgain(p)
    /\ UNCHANGED <<held, bound>> /\ NoFault

\* Mutant: the listener lives as long as the attempt.
ReleaseLate(p) ==
    /\ stage[p] = "allocated"
    /\ To(p, "released")
    /\ UNCHANGED <<tried, held, port, bound, tries>> /\ NoFault

Release(p) ==
    /\ stage[p] = "allocated"
    /\ held' = [held EXCEPT ![p] = {}]
    /\ To(p, "released")
    /\ UNCHANGED <<tried, port, bound, tries>> /\ NoFault

\* Docker binds the port, unless it is taken by now.
StartOnPort(p) ==
    /\ stage[p] = "released"
    /\ IF port[p] \cap Taken = {}
         THEN /\ bound' = [bound EXCEPT ![p] = port[p]]
              /\ To(p, "serving")
              /\ UNCHANGED <<tried, port, tries>>
         ELSE TryAgain(p) /\ UNCHANGED bound
    /\ UNCHANGED held /\ NoFault

\* Docker does not start the container for another reason.
StartFails(p) ==
    /\ stage[p] = "released"
    /\ TryAgain(p)
    /\ Fault /\ UNCHANGED <<held, bound>>

\* The command ends and removes its container.
RemoveContainer(p) ==
    /\ stage[p] = "serving"
    /\ bound' = [bound EXCEPT ![p] = {}]
    /\ port' = [port EXCEPT ![p] = {}]
    /\ To(p, "done")
    /\ UNCHANGED <<tried, held, tries>> /\ NoFault

\* The process is killed: the listener is gone, the container goes on.
KillHolder(p) ==
    /\ stage[p] \in {"new", "allocated", "released", "serving"}
    /\ held' = [held EXCEPT ![p] = {}]
    /\ To(p, "killed")
    /\ Fault /\ UNCHANGED <<tried, port, bound, tries>>

PortStep(p) ==
    TryBindPort(p) \/ NoneFree(p) \/ Release(p) \/ StartOnPort(p) \/ RemoveContainer(p)

PortsNext == \E p \in Proc : PortStep(p) \/ StartFails(p) \/ KillHolder(p)

-----------------------------------------------------------------------------
PortsTypeOK ==
    /\ stage \in [Proc -> {"new", "allocated", "released", "serving", "done", "noPort", "killed"}]
    /\ tried \in [Proc -> SUBSET Port]
    /\ \A v \in {held, port, bound} : v \in [Proc -> {{}} \cup {{x} : x \in Port}]
    /\ tries \in [Proc -> 0..MaxTries]

\* Processes that take the ports away from one another do not all go without:
\* if Docker refuses for no other reason, and one process gives up, then
\* another one has a port, or has had its container.
NotEveryoneStarves ==
    faults = 0 /\ (\E p \in Proc : stage[p] = "noPort") =>
        \E q \in Proc : stage[q] \in {"allocated", "released", "serving", "done"}

\* No two processes hold a port at the same time, as a listener or a container.
PortsAreExclusive ==
    \A p, q \in Proc : p # q => (held[p] \cup bound[p]) \cap (held[q] \cup bound[q]) = {}
=============================================================================
