---------------------------- MODULE PostCommands ----------------------------
(***************************************************************************)
(* The commands a template wants run in the finished project               *)
(* (src/cyanprint/src/command_executor.rs).  A person approves the list    *)
(* and decides after each failure whether to go on; a headless run asks    *)
(* nothing and goes through to the last command.  A command is its         *)
(* position in the list, from which blank lines have been dropped.         *)
(***************************************************************************)
EXTENDS Naturals

VARIABLE commands

TypeOfCommands ==
    [total : Nat, next : Nat, failed : SUBSET Nat,
     phase : {"idle", "approve", "run", "ask", "ok", "error", "aborted"}]

Idle(n) == [total |-> n, next |-> 1, failed |-> {}, phase |-> "idle"]

\* An empty list is a success before anybody is asked.
StartCommands(headless) ==
    /\ commands.phase = "idle"
    /\ commands' = [commands EXCEPT !.phase =
            IF commands.total = 0 THEN "ok" ELSE IF headless THEN "run" ELSE "approve"]

\* A prompt that is left, or has no terminal, is an error and not a "no".
Prompted(yes) == {yes, "aborted", "error"}

ApproveCommands ==
    /\ commands.phase = "approve"
    /\ \E p \in Prompted("run") : commands' = [commands EXCEPT !.phase = p]

\* The list has come to its end, whatever became of its members.
CommandsAreThrough ==
    /\ commands.phase = "run" /\ commands.next > commands.total
    /\ commands' = [commands EXCEPT !.phase = "ok"]

RunCommand(headless) ==
    /\ commands.phase = "run" /\ commands.next <= commands.total
    /\ \/ commands' = [commands EXCEPT !.next = @ + 1]
       \/ commands' = [commands EXCEPT !.next = @ + 1,
                           !.failed = @ \cup {commands.next},
                           !.phase = IF headless THEN "run" ELSE "ask"]
       \/ commands' = [commands EXCEPT !.phase = "error"]   \* not spawned

AskWhetherToGoOn ==
    /\ commands.phase = "ask"
    /\ \E p \in Prompted("run") : commands' = [commands EXCEPT !.phase = p]

CommandsEnded == commands.phase \in {"ok", "error", "aborted"}

\* Mutant: only an abort counts, as if a headless run could be aborted.
CommandsFailedIfAborted(headless) == commands.phase \in {"error", "aborted"}

\* What the callers take for a failure: nobody was there to accept a failed
\* command of a headless run.
CommandsFailed(headless) ==
    \/ commands.phase \in {"error", "aborted"}
    \/ headless /\ commands.failed # {}
=============================================================================
