----------------------------- MODULE TryCommand -----------------------------
(***************************************************************************)
(* "cyanprint try template" and "cyanprint try group"                      *)
(* (src/cyanprint/src/try_cmd.rs) against Docker and the coordinator.      *)
(* A run builds two images, sets up a coordinator session and starts a     *)
(* container before it asks its questions; the two images, the session and *)
(* the container belong to a guard until then and to two closures later.   *)
(* Each call to Docker and the coordinator may fail.                       *)
(*                                                                         *)
(* A resource is a pair of its kind and a number: containers are numbered  *)
(* by the attempt to start them, sessions of a group by their template.    *)
(***************************************************************************)
EXTENDS PostCommands

CONSTANTS
    MaxAttempts,    \* attempts to start the container; the code has 3
    GroupSessions,  \* sessions a composition may have made
    Lengths         \* numbers of post-template commands to try

ASSUME AttemptsAssumption == MaxAttempts \in Nat \ {0}
ASSUME SessionsAssumption == GroupSessions \subseteq Nat
ASSUME LengthsAssumption  == Lengths \subseteq Nat

Blob         == <<"blob", 0>>
Image        == <<"image", 0>>
Container(n) == <<"container", n>>
Session(n)   == <<"session", n>>

Resource ==
    {Blob, Image, Session(0)} \cup {Container(n) : n \in 1..MaxAttempts}
        \cup {Session(n) : n \in GroupSessions}

VARIABLES
    opts,       \* the command line and the configuration
    pc,
    daemon,     \* the coordinator's container runs
    live,       \* what exists in Docker and in the coordinator
    stuck,      \* what Docker or the coordinator refused to remove, or made
                \* without the program's being told
    noted,      \* what the guard knows of
    armed,      \* the guard acts when it is dropped
    attempt,    \* the container being started, or the one that runs
    sessions,   \* what a composition returned
    todo,       \* what the teardown in progress has still to remove
    output,     \* the output directory: "none", "part" or "all"
    declared,   \* commands of the template and of all it depends on
    warned,     \* what was left out with no more than a warning
    ended       \* how the command ends, and after which step

vars == <<opts, pc, daemon, live, stuck, noted, armed, attempt, sessions,
          todo, output, declared, warned, ended, commands>>
host == <<live, stuck>>
tree == <<declared, warned>>
guard == <<noted, armed>>

Options ==
    [kind : {"template", "group"}, headless : BOOLEAN, keep : BOOLEAN,
     dev : BOOLEAN, autostart : BOOLEAN, image : BOOLEAN]

\* A group has nothing to build or to keep and is set up like a dev template.
IsCommandLine(o) == o.kind = "group" => o.dev /\ ~o.keep /\ ~o.image

Running == [as |-> "running", at |-> "none"]

Outcome == {"running", "done", "need_input", "error", "left", "killed"}

TypeOK ==
    /\ opts \in Options /\ IsCommandLine(opts)
    /\ pc \in {"prepare", "daemon", "resolve", "blob", "image", "deps", "setup", "start",
               "health", "questions", "compose", "warm", "bootstrap", "execute",
               "write", "commands", "teardown", "end"}
    /\ daemon \in BOOLEAN
    /\ live \subseteq Resource /\ stuck \subseteq Resource
    /\ noted \subseteq Resource /\ armed \in BOOLEAN
    /\ attempt \in 1..(MaxAttempts + 1)
    /\ sessions \subseteq GroupSessions
    /\ todo \subseteq Resource
    /\ output \in {"none", "part", "all"}
    /\ declared \in Nat /\ warned \subseteq {"reference", "commands"}
    /\ ended.as \in Outcome
    /\ commands \in TypeOfCommands

Init ==
    /\ opts \in {o \in Options : IsCommandLine(o)}
    /\ pc = "prepare"
    /\ daemon \in BOOLEAN
    /\ live = {} /\ stuck = {}
    /\ noted = {} /\ armed = TRUE
    /\ attempt = 1
    /\ sessions = {}
    /\ todo = {}
    /\ output = "none"
    /\ declared \in Lengths /\ warned = {}
    /\ ended = Running
    /\ commands = Idle(0)

-----------------------------------------------------------------------------
(***************************************************************************)
(* Teardown.  Dropping the guard and both closures go through the same     *)
(* list: the session, the container, the template image, the blob image.   *)
(* A refusal of one entry is reported and the next one is tried.           *)
(***************************************************************************)
Rank(r) == CASE r[1] = "session"   -> 1
             [] r[1] = "container" -> 2
             [] r[1] = "image"     -> 3
             [] r[1] = "blob"      -> 4

IsNext(r, S) == r \in S /\ \A q \in S : Rank(r) <= Rank(q)

GuardTargets == IF armed /\ ~opts.keep THEN noted ELSE {}

\* Mutant: the blob image is left out, one leak in every headless round.
ClosureTargetsNoBlob ==
    IF opts.keep THEN {}
    ELSE {Session(0)} \cup IF opts.dev THEN {} ELSE {Container(attempt), Image}

\* The arguments of both closures: nothing but the session in dev mode.
ClosureTargets ==
    IF opts.kind = "group" THEN {Session(n) : n \in sessions}
    ELSE IF opts.keep THEN {}
    ELSE {Session(0)} \cup IF opts.dev THEN {} ELSE {Container(attempt), Image, Blob}

TearDown(targets, as) ==
    /\ pc' = "teardown"
    /\ todo' = targets
    /\ ended' = [as |-> as, at |-> pc]

\* "?" while the guard is armed.
GuardedError == TearDown(GuardTargets, "error")

CloseWith(as) == TearDown(ClosureTargets, as)

\* Docker refuses an image as long as a container of it exists.
InUse(r) == r = Image /\ \E n \in 1..MaxAttempts : Container(n) \in live

Remove ==
    /\ pc = "teardown"
    /\ \E r \in todo :
        /\ IsNext(r, todo)
        /\ todo' = todo \ {r}
        /\ \/ ~InUse(r) /\ live' = live \ {r} /\ UNCHANGED stuck
           \/ r \in live /\ stuck' = stuck \cup {r} /\ UNCHANGED live
           \/ InUse(r) /\ UNCHANGED host
    /\ UNCHANGED <<opts, pc, daemon, guard, attempt, sessions, output, tree, ended, commands>>

End ==
    /\ pc = "teardown" /\ todo = {}
    /\ pc' = "end"
    /\ UNCHANGED <<opts, daemon, host, guard, attempt, sessions, todo, output, tree, ended, commands>>

-----------------------------------------------------------------------------
(***************************************************************************)
(* Before anything of the run's own exists.                                *)
(***************************************************************************)
\* Docker answers, cyan.yaml is there and has the sections the mode needs.
Prepare ==
    /\ pc = "prepare"
    /\ \/ pc' = "daemon" /\ UNCHANGED <<todo, ended>>
       \/ GuardedError
    /\ UNCHANGED <<opts, daemon, host, guard, attempt, sessions, output, tree, commands>>

\* The daemon is started if it may be, and asked for its health either way.
EnsureDaemon ==
    /\ pc = "daemon"
    /\ \/ /\ daemon' \in {daemon, daemon \/ opts.autostart}
          /\ GuardedError
       \/ /\ daemon \/ opts.autostart
          /\ daemon' = TRUE
          /\ pc' = "resolve" /\ UNCHANGED <<todo, ended>>
    /\ UNCHANGED <<opts, host, guard, attempt, sessions, output, tree, commands>>

\* The references of the template are looked up in the registry; those that
\* cannot be parsed are left out.
ResolveAndPin ==
    /\ pc = "resolve"
    /\ \/ /\ pc' = IF opts.kind = "group" THEN "compose"
                   ELSE IF opts.dev THEN "deps" ELSE "blob"
          /\ warned' \in SUBSET {"reference"}
          /\ UNCHANGED <<todo, ended>>
       \/ GuardedError /\ UNCHANGED warned
    /\ UNCHANGED <<opts, daemon, host, guard, attempt, sessions, output, declared, commands>>

\* Mutant: a failure is taken for a template without dependencies.
CollectCommandsUnwarned ==
    /\ \E n \in 0..declared : commands' = Idle(n)
    /\ UNCHANGED warned

\* The commands of the dependencies: of all of them, unless a reference was
\* left out; or they cannot be resolved, and the template's own have to do.
CollectCommands ==
    \/ /\ \E n \in 0..declared :
             /\ warned = {} => n = declared
             /\ commands' = Idle(n)
       /\ UNCHANGED warned
    \/ /\ \E n \in 0..declared : commands' = Idle(n)
       /\ warned' = warned \cup {"commands"}

-----------------------------------------------------------------------------
(***************************************************************************)
(* Setup of a template: everything made is noted with the guard.           *)
(***************************************************************************)
Make(r) == live' = live \cup {r} /\ noted' = noted \cup {r} /\ UNCHANGED <<stuck, armed>>

BuildBlob ==
    /\ pc = "blob"
    /\ \/ Make(Blob) /\ pc' = "image" /\ UNCHANGED <<todo, ended>>
       \/ GuardedError /\ UNCHANGED <<host, guard>>
    /\ UNCHANGED <<opts, daemon, attempt, sessions, output, tree, commands>>

\* Without an image for the template there is nothing to set up from.
BuildImage ==
    /\ pc = "image"
    /\ \/ opts.image /\ Make(Image) /\ pc' = "deps" /\ UNCHANGED <<todo, ended>>
       \/ GuardedError /\ UNCHANGED <<host, guard>>
    /\ UNCHANGED <<opts, daemon, attempt, sessions, output, tree, commands>>

ResolveCommands ==
    /\ pc = "deps"
    /\ CollectCommands
    /\ pc' = "setup"
    /\ UNCHANGED <<opts, daemon, host, guard, attempt, sessions, todo, output, declared, ended>>

\* POST /executor/try.  If its answer is lost, the session is there and
\* nobody holds on to it.
TrySetup ==
    /\ pc = "setup"
    /\ \/ Make(Session(0)) /\ pc' = (IF opts.dev THEN "questions" ELSE "start")
          /\ UNCHANGED <<todo, ended>>
       \/ GuardedError /\ UNCHANGED <<host, guard>>
       \/ /\ GuardedError /\ UNCHANGED guard
          /\ live' = live \cup {Session(0)} /\ stuck' = stuck \cup {Session(0)}
    /\ UNCHANGED <<opts, daemon, attempt, sessions, output, tree, commands>>

NextAttempt(n) == n + 1

\* One turn of the loop over ports and names: no port is free, the container
\* does not start and is removed again, which may fail as well, or it runs.
StartContainer ==
    /\ pc = "start" /\ attempt <= MaxAttempts
    /\ \/ /\ attempt' = NextAttempt(attempt)
          /\ UNCHANGED <<pc, host, guard>>
       \/ /\ attempt' = NextAttempt(attempt)
          /\ noted' = noted \ {Container(attempt)}
          /\ live' = live \cup {Container(attempt)}
          /\ stuck' = stuck \cup {Container(attempt)}
          /\ UNCHANGED <<pc, armed>>
       \/ Make(Container(attempt)) /\ pc' = "health" /\ UNCHANGED attempt
    /\ UNCHANGED <<opts, daemon, sessions, todo, output, tree, ended, commands>>

OutOfAttempts ==
    /\ pc = "start" /\ attempt > MaxAttempts
    /\ GuardedError
    /\ UNCHANGED <<opts, daemon, host, guard, attempt, sessions, output, tree, commands>>

\* The container runs and answers, or never does.
CheckHealth ==
    /\ pc = "health"
    /\ \/ pc' = "questions" /\ UNCHANGED <<todo, ended>>
       \/ GuardedError
    /\ UNCHANGED <<opts, daemon, host, guard, attempt, sessions, output, tree, commands>>

-----------------------------------------------------------------------------
(***************************************************************************)
(* Questions.  The guard is disarmed first, and the closures take over.    *)
(***************************************************************************)
AskHeadless ==
    /\ pc = "questions" /\ opts.headless
    /\ armed' = FALSE
    /\ \/ pc' = "warm" /\ UNCHANGED <<todo, ended>>
       \/ CloseWith("need_input")
       \/ CloseWith("error")
    /\ UNCHANGED <<opts, daemon, host, noted, attempt, sessions, output, tree, commands>>

\* The "?" behind the interactive loop returns with the guard disarmed and
\* no closure called.
InteractiveError == TearDown({}, "error")

AskInteractive ==
    /\ pc = "questions" /\ ~opts.headless
    /\ armed' = FALSE
    /\ \/ pc' = "warm" /\ UNCHANGED <<todo, ended>>
       \/ InteractiveError
       \/ pc' = "end" /\ ended' = [as |-> "left", at |-> pc] /\ UNCHANGED todo
    /\ UNCHANGED <<opts, daemon, host, noted, attempt, sessions, output, tree, commands>>

-----------------------------------------------------------------------------
(***************************************************************************)
(* Building, unpacking and the commands.                                   *)
(***************************************************************************)
StepOrClose(from, to) ==
    /\ pc = from
    /\ \/ pc' = to /\ UNCHANGED <<todo, ended>>
       \/ CloseWith("error")
    /\ UNCHANGED <<opts, daemon, host, guard, attempt, sessions, tree, commands>>

WarmExecutor == StepOrClose("warm", "bootstrap") /\ UNCHANGED output

Bootstrap == StepOrClose("bootstrap", "execute") /\ UNCHANGED output

\* The archive is unpacked as it arrives: it may end too early.
ExecuteAndUnpack ==
    /\ StepOrClose("execute", "commands")
    /\ output' \in IF pc' = "commands" THEN {"all"} ELSE {"none", "part"}

\* A group is composed without a guard of its own: if the composition fails,
\* it has released its sessions itself.
Compose ==
    /\ pc = "compose"
    /\ \/ GuardedError /\ UNCHANGED <<live, sessions, commands>>
       \/ /\ sessions' \in SUBSET GroupSessions
          /\ \E n \in 0..declared : (warned = {} => n = declared) /\ commands' = Idle(n)
          /\ live' = live \cup {Session(n) : n \in sessions'}
          /\ \/ pc' = "write" /\ UNCHANGED <<todo, ended>>
             \/ opts.headless /\ TearDown({Session(n) : n \in sessions'}, "need_input")
    /\ UNCHANGED <<opts, daemon, stuck, guard, attempt, output, tree>>

WriteGroup ==
    /\ StepOrClose("write", "commands")
    /\ output' \in IF pc' = "commands" THEN {"all"} ELSE {"none", "part"}

Command ==
    /\ pc = "commands"
    /\ \/ StartCommands(opts.headless)
       \/ RunCommand(opts.headless)
       \/ CommandsAreThrough
    /\ UNCHANGED <<opts, pc, daemon, host, guard, attempt, sessions, todo, output, tree, ended>>

\* A person is asked about the commands.
Consent ==
    /\ pc = "commands"
    /\ ApproveCommands \/ AskWhetherToGoOn
    /\ UNCHANGED <<opts, pc, daemon, host, guard, attempt, sessions, todo, output, tree, ended>>

Finish ==
    /\ pc = "commands" /\ CommandsEnded
    /\ CloseWith(IF CommandsFailed(opts.headless) THEN "error" ELSE "done")
    /\ UNCHANGED <<opts, daemon, host, guard, attempt, sessions, output, tree, commands>>

\* A signal ends the process; no destructor runs.
Kill ==
    /\ pc # "end"
    /\ pc' = "end" /\ ended' = [as |-> "killed", at |-> pc]
    /\ UNCHANGED <<opts, daemon, host, guard, attempt, sessions, todo, output, tree, commands>>

\* What goes on without a person: every call has a timeout or ends by itself.
Automatic ==
    \/ Prepare \/ EnsureDaemon \/ ResolveAndPin
    \/ BuildBlob \/ BuildImage \/ ResolveCommands \/ TrySetup
    \/ StartContainer \/ OutOfAttempts \/ CheckHealth
    \/ AskHeadless \/ WarmExecutor \/ Bootstrap \/ ExecuteAndUnpack
    \/ Compose \/ WriteGroup
    \/ Command \/ Finish
    \/ Remove \/ End

Terminated == pc = "end" /\ UNCHANGED vars

Next == Automatic \/ AskInteractive \/ Consent \/ Kill \/ Terminated

Spec == Init /\ [][Next]_vars

-----------------------------------------------------------------------------
\* Who is to remove what exists: the teardown in progress, the guard, the
\* closures, or nobody any more.
Owned ==
    CASE pc = "end"                         -> {}
      [] pc = "teardown"                    -> todo
      [] pc \notin {"teardown", "end"}      -> IF armed /\ opts.kind = "template"
                                               THEN noted ELSE ClosureTargets

\* What exists and nothing prevents from being removed: an image is in use as
\* long as a container is stuck.
Removable ==
    live \ (stuck \cup {r \in {Image} : \E n \in 1..MaxAttempts : Container(n) \in live \cap stuck})

\* The runs that end without a teardown on purpose.
Unattended == opts.keep \/ ended.as \in {"left", "killed"}

QuestionFailed == ended = [as |-> "error", at |-> "questions"] /\ ~opts.headless

\* At every moment each resource has an owner who is going to remove it, and
\* at the end nothing is left that could have been removed: no step between
\* making a resource, handing it from the guard to the closures and the end
\* drops it.  Excepted are --keep-containers, a kill, a person who leaves in
\* the questions, and the failure of an interactive question (see below).
EverythingIsOwned == Unattended \/ QuestionFailed \/ Removable \subseteq Owned

\* The same with the interactive questions, as the comment of
\* SetupArtifactsTracker has it ("no window is left unguarded"): TLC finds it
\* violated, because the "?" behind run_qa_loop returns with the guard
\* disarmed and no closure called.
NoWindowIsUnguarded == Unattended \/ Removable \subseteq Owned

\* A run that reports done has written all of its output and has come to the
\* end of its commands, which are those of the template and of all that it
\* depends on, unless it has warned of what is missing; a failed one is only
\* passed over by a person.
DoneIsDelivered ==
    ended.as = "done" =>
        /\ output = "all"
        /\ commands.next > commands.total
        /\ warned = {} => commands.total = declared
        /\ opts.headless => commands.failed = {}

\* The same as the comment of step 13.5 has it ("resolved from all dependency
\* templates", try_cmd.rs:723): TLC finds it violated, because to fail in
\* resolving the dependencies is a warning and the run is still done.
DoneRunsAllCommands == ended.as = "done" => commands.total = declared
=============================================================================
