------------------------------ MODULE TestPool ------------------------------
(***************************************************************************)
(* "cyanprint test" (src/cyanprint/src/test_cmd): one run over test cases, *)
(* in parallel or one after the other.  The images are built and one       *)
(* container is started for all of them (none for a composed template);    *)
(* each test is a thread that waits for a permit, uses the container,      *)
(* compares its output with a snapshot or replaces the snapshot by it, and *)
(* stores its result; the main thread joins the threads in their order,    *)
(* removes what it has started, and drops the guard of the run at the end. *)
(***************************************************************************)
EXTENDS Naturals, FiniteSets

CONSTANTS
    NumTests,       \* test cases that pass the filter
    Permits,        \* --parallel, if it is greater than 1
    MaxAttempts,    \* attempts to start the container; the code has 3
    SnapshotOf,     \* the snapshot directory of each test
    MayHang,        \* sets of tests in which something does not end
    MaxPanics       \* threads that panic in one run

ASSUME TestsAssumption == NumTests \in Nat \ {0}
ASSUME PermitsAssumption == Permits \in Nat \ {0}
ASSUME AttemptsAssumption == MaxAttempts \in Nat \ {0}

Test == 1..NumTests
ASSUME HangAssumption == MayHang \subseteq SUBSET Test

Container == 1..MaxAttempts

VARIABLES
    run,        \* kind of artefact, parallel or not, --update-snapshots, and the
                \* tests in which something does not end
    pc,         \* the main thread
    attempt,    \* the container being started, or the one that runs
    containers, \* containers with the label of the run: "created" or "running"
    images,     \* images that exist
    st,         \* where each test is
    verdict,    \* what running it returned
    stored,     \* the tests in the results
    permits,    \* permits available
    sessions,   \* of each test at the coordinator: "none", "open", or "asked", when it
                \* was asked to remove it, whether or not it has
    turn,       \* the test that is run, or joined, next
    outcome     \* of the command

vars == <<run, pc, attempt, containers, images, st, verdict, stored,
          permits, sessions, turn, outcome>>
docker == <<attempt, containers, images>>
tests == <<st, verdict, stored, permits, sessions>>

\* Processors and plugins are tested alike: each is a "service" here.
Kinds == {"template", "composed", "service", "resolver"}
OfTemplate == run.kind \in {"template", "composed"}

Places == {"new", "wanting", "asleep", "setup", "warm", "call", "compare",
           "update", "validate", "returned", "stored", "panicked", "finished", "dead"}

TypeOK ==
    /\ run \in [kind : Kinds, parallel : BOOLEAN, update : BOOLEAN, endless : MayHang]
    /\ pc \in {"blob", "image", "start", "health", "spawn", "threads", "sequence",
               "cleanup", "report", "guard", "end"}
    /\ attempt \in 1..(MaxAttempts + 1)
    /\ DOMAIN containers \subseteq Container
    /\ \A c \in DOMAIN containers : containers[c] \in {"created", "running"}
    /\ images \subseteq {"blob", "main"}
    /\ st \in [Test -> Places]
    /\ verdict \in [Test -> {"none", "passed", "failed", "error"}]
    /\ stored \subseteq Test
    /\ sessions \in [Test -> {"none", "open", "asked"}]
    /\ permits \in 0..Permits
    /\ turn \in 1..(NumTests + 1)
    /\ outcome \in {"running", "ok", "error", "left"}

Init ==
    /\ run \in [kind : Kinds, parallel : BOOLEAN, update : BOOLEAN, endless : MayHang]
    /\ pc = IF OfTemplate THEN "blob" ELSE "image"
    /\ attempt = 1
    /\ containers = [c \in {} |-> "created"]
    /\ images = {}
    /\ st = [t \in Test |-> "new"]
    /\ verdict = [t \in Test |-> "none"]
    /\ stored = {}
    /\ sessions = [t \in Test |-> "none"]
    /\ permits = Permits
    /\ turn = 1
    /\ outcome = "running"

-----------------------------------------------------------------------------
(***************************************************************************)
(* Warm-up: the images, the container, its health.                         *)
(***************************************************************************)
GiveUp == outcome' = "error" /\ pc' = "guard"

Put(c, s) == [d \in DOMAIN containers \cup {c} |-> IF d = c THEN s ELSE containers[d]]
Without(c) == [d \in DOMAIN containers \ {c} |-> containers[d]]

BuildBlob ==
    /\ pc = "blob"
    /\ \/ images' = images \cup {"blob"} /\ pc' = "image" /\ UNCHANGED outcome
       \/ GiveUp /\ UNCHANGED images
    /\ UNCHANGED <<run, attempt, containers, tests, turn>>

\* A composition starts its containers itself, for every test.
BuildImage ==
    /\ pc = "image"
    /\ \/ /\ images' = images \cup {"main"} /\ UNCHANGED outcome
          /\ pc' = IF run.kind = "composed" THEN "spawn" ELSE "start"
       \/ GiveUp /\ UNCHANGED images
    /\ UNCHANGED <<run, attempt, containers, tests, turn>>

\* Docker refuses an image that a container uses.
ImageRemoved(used) == images' = IF used THEN images ELSE images \ {"main"}

\* No free port, or a container that does not start, which is then removed
\* if Docker lets it; or one that runs.
StartContainer ==
    /\ pc = "start" /\ attempt <= MaxAttempts
    /\ \/ /\ containers' \in {containers, Put(attempt, "created")}
          /\ attempt' = attempt + 1
          /\ UNCHANGED pc
       \/ /\ containers' = Put(attempt, "running")
          /\ pc' = "health"
          /\ UNCHANGED attempt
    /\ UNCHANGED <<run, images, tests, turn, outcome>>

\* The runner for templates leaves its images to the next run, which builds
\* them under the same names; the others remove theirs.
OutOfAttempts ==
    /\ pc = "start" /\ attempt > MaxAttempts
    /\ GiveUp
    /\ IF OfTemplate THEN UNCHANGED images ELSE ImageRemoved(DOMAIN containers # {})
    /\ UNCHANGED <<run, attempt, containers, tests, turn>>

CheckHealth ==
    /\ pc = "health"
    /\ \/ pc' = "spawn" /\ UNCHANGED <<outcome, containers, images>>
       \/ /\ GiveUp
          /\ IF OfTemplate
               THEN UNCHANGED <<containers, images>>
               ELSE /\ containers' \in {containers, Without(attempt)}
                    /\ ImageRemoved(DOMAIN containers' # {})
    /\ UNCHANGED <<run, attempt, tests, turn>>

-----------------------------------------------------------------------------
(***************************************************************************)
(* The threads and the semaphore: a mutex around the count of permits, and *)
(* a condition variable that wakes one sleeper for each permit returned.   *)
(***************************************************************************)
\* Tests of resolvers that update their snapshots are run one by one.
Parallel == run.parallel /\ ~(run.kind = "resolver" /\ run.update)

Spawn ==
    /\ pc = "spawn"
    /\ pc' = IF Parallel THEN "threads" ELSE "sequence"
    /\ st' = IF Parallel THEN [t \in Test |-> "wanting"] ELSE st
    /\ UNCHANGED <<run, docker, verdict, stored, permits, sessions, turn, outcome>>

FirstStep == IF run.kind = "template" THEN "setup" ELSE "call"

Acquire(t) ==
    /\ pc # "end"
    /\ st[t] = "wanting"
    /\ IF permits = 0
         THEN st' = [st EXCEPT ![t] = "asleep"] /\ UNCHANGED permits
         ELSE st' = [st EXCEPT ![t] = FirstStep] /\ permits' = permits - 1
    /\ UNCHANGED <<run, pc, docker, verdict, stored, sessions, turn, outcome>>

Asleep == {t \in Test : st[t] = "asleep"}

\* Mutant: the permit is returned and nobody is told.
ReturnPermitSilently(t, to) ==
    /\ permits' = permits + 1
    /\ st' = [st EXCEPT ![t] = to]

\* SemaphorePermit::drop: the count goes up, and one sleeper wakes, which
\* looks at the count again.
ReturnPermit(t, to) ==
    /\ permits' = permits + 1
    /\ IF Asleep = {}
         THEN st' = [st EXCEPT ![t] = to]
         ELSE \E w \in Asleep : st' = [st EXCEPT ![t] = to, ![w] = "wanting"]

\* The main thread's own turn, without threads and permits.
TakeTurn ==
    /\ pc = "sequence" /\ turn <= NumTests /\ st[turn] = "new"
    /\ st' = [st EXCEPT ![turn] = FirstStep]
    /\ UNCHANGED <<run, pc, docker, verdict, stored, permits, sessions, turn, outcome>>

-----------------------------------------------------------------------------
(***************************************************************************)
(* A test case.  Where it is under way, the process still runs.            *)
(***************************************************************************)
At(t, s) == pc # "end" /\ st[t] = s

\* Here a test may stay for good: its template asks a question again that has
\* its answer, its composition prompts the terminal for one that is missing, or
\* a command that checks it, or that a template declares, does not end.
Hangs(t) ==
    /\ pc # "end" /\ t \in run.endless
    /\ \/ st[t] = "call" /\ OfTemplate
       \/ st[t] = "validate" /\ run.kind # "resolver"

Goto(t, s) == st' = [st EXCEPT ![t] = s] /\ UNCHANGED verdict
Return(t, v) ==
    /\ st' = [st EXCEPT ![t] = "returned"]
    /\ verdict' = [verdict EXCEPT ![t] = v]

Opened(t) == [sessions EXCEPT ![t] = "open"]

\* A lost answer leaves a session behind as well.
TrySetup(t) ==
    /\ At(t, "setup")
    /\ \/ Goto(t, "warm") /\ sessions' = Opened(t)
       \/ Return(t, "error") /\ sessions' \in {sessions, Opened(t)}
    /\ UNCHANGED <<run, pc, docker, stored, permits, turn, outcome>>

\* The guard of the session is made after the session has been warmed.
WarmExecutor(t) ==
    /\ At(t, "warm")
    /\ Goto(t, "call") \/ Return(t, "error")
    /\ UNCHANGED <<run, pc, docker, stored, permits, sessions, turn, outcome>>

Serves == attempt \in DOMAIN containers /\ containers[attempt] = "running"

Answered(t, to) == Goto(t, to) /\ UNCHANGED sessions

\* The guard of a session asks the coordinator to remove it, and passes over a
\* failure.
GuardDropped(t) ==
    sessions' = [sessions EXCEPT ![t] = IF @ = "open" THEN "asked" ELSE @]

Ended(t, v) == Return(t, v) /\ GuardDropped(t)

\* Questions, bootstrap, execution, unpacking; a command that fails fails the
\* test, everything else is an error.  The questions have no limit.
RunTemplate(t) ==
    /\ At(t, "call") /\ run.kind = "template"
    /\ \/ Serves /\ Answered(t, "compare")
       \/ Ended(t, "failed")
       \/ Ended(t, "error")
    /\ UNCHANGED <<run, pc, docker, stored, permits, turn, outcome>>

\* The dependency tree, with sessions and containers of its own.  The questions
\* are those of an interactive walk: a missing answer is asked for.
RunComposition(t) ==
    /\ At(t, "call") /\ run.kind = "composed"
    /\ \/ Answered(t, "compare")
       \/ Ended(t, "failed")
       \/ Ended(t, "error")
    /\ UNCHANGED <<run, pc, docker, stored, permits, turn, outcome>>

\* Who leaves such a prompt before there is any answer leaves the process, with
\* the code of a success: nothing is cleaned up.
LeavePrompt(t) ==
    /\ At(t, "call") /\ run.kind = "composed" /\ Hangs(t)
    /\ pc' = "end" /\ outcome' = "left"
    /\ UNCHANGED <<run, docker, tests, turn>>

\* The request to a processor, a plugin or a resolver: no answer fails the
\* test, one that cannot be used is an error.  A resolver's snapshot is
\* replaced without a look at it.
CallService(t) ==
    /\ At(t, "call") /\ ~OfTemplate
    /\ \/ Serves /\ Answered(t, IF run.kind = "resolver" /\ run.update THEN "update" ELSE "compare")
       \/ Ended(t, "failed")
       \/ Ended(t, "error")
    /\ UNCHANGED <<run, pc, docker, stored, permits, turn, outcome>>

\* Both directories are read.  A difference is a failure, or the start of an
\* update; the validation follows in either case.  Processors and plugins may
\* have made no directory to compare, which no update repairs.
Compare(t) ==
    /\ At(t, "compare")
    /\ \/ Answered(t, "validate")
       \/ run.update /\ Answered(t, "update")
       \/ /\ run.update => run.kind = "service"
          /\ st' = [st EXCEPT ![t] = "validate"]
          /\ verdict' = [verdict EXCEPT ![t] = "failed"]
          /\ UNCHANGED sessions
       \/ Ended(t, "error")
    /\ UNCHANGED <<run, pc, docker, stored, permits, turn, outcome>>

\* The end of remove_dir_all and copying.
UpdateSnapshot(t) ==
    /\ At(t, "update")
    /\ Answered(t, "validate") \/ Ended(t, "error")
    /\ UNCHANGED <<run, pc, docker, stored, permits, turn, outcome>>

\* Commands of the test check its output; a resolver's test has none.
Validate(t) ==
    /\ At(t, "validate")
    /\ \E v \in {IF verdict[t] = "failed" THEN "failed" ELSE "passed"}
                    \cup IF run.kind = "resolver" THEN {} ELSE {"failed", "error"} :
            Ended(t, v)
    /\ UNCHANGED <<run, pc, docker, stored, permits, turn, outcome>>

\* Unwinding drops the guard of the session, if it has been made, and the
\* permit; in the main thread it drops the guard of the run.
Panic(t) ==
    /\ pc # "end"
    /\ st[t] \in {"setup", "call", "compare", "update", "validate"}
    /\ Cardinality({u \in Test : st[u] \in {"panicked", "dead"}}) < MaxPanics
    /\ Goto(t, IF Parallel THEN "panicked" ELSE "dead")
    /\ GuardDropped(t)
    /\ IF Parallel THEN UNCHANGED <<pc, outcome>> ELSE GiveUp
    /\ UNCHANGED <<run, docker, stored, permits, turn>>

\* An error of a thread becomes a failed result.
Store(t) ==
    /\ pc # "end" /\ Parallel /\ st[t] = "returned"
    /\ Goto(t, "stored")
    /\ stored' = stored \cup {t}
    /\ UNCHANGED <<run, pc, docker, permits, sessions, turn, outcome>>

EndThread(t) ==
    /\ pc # "end"
    /\ \/ st[t] = "stored"   /\ ReturnPermit(t, "finished")
       \/ st[t] = "panicked" /\ ReturnPermit(t, "dead")
    /\ UNCHANGED <<run, pc, docker, verdict, stored, sessions, turn, outcome>>

-----------------------------------------------------------------------------
(***************************************************************************)
(* The main thread: the tests are joined, or run, in their order.          *)
(***************************************************************************)
\* Mutant: the main thread waits until no permit is in use.
HasEndedIfIdle(t) == permits = Permits

\* Mutant: what joining a thread returns is dropped.
HasEndedOrDied(t) == st[t] \in {"finished", "dead"}

HasEnded(t) == st[t] = "finished"

\* A panic ends the joining; the threads behind it go on.
Join ==
    /\ pc = "threads"
    /\ \/ turn > NumTests /\ pc' = "cleanup" /\ UNCHANGED <<turn, outcome>>
       \/ /\ turn <= NumTests /\ st[turn] = "dead"
          /\ pc' = "cleanup" /\ outcome' = "error" /\ UNCHANGED turn
       \/ /\ turn <= NumTests /\ HasEnded(turn)
          /\ turn' = turn + 1 /\ UNCHANGED <<pc, outcome>>
    /\ UNCHANGED <<run, docker, tests>>

\* An error of a test is the error of the run here: its "?" is in a function
\* of its own, except for a composition, where it passes over the cleanup.
EndTurn ==
    /\ pc = "sequence" /\ turn <= NumTests /\ st[turn] = "returned"
    /\ st' = [st EXCEPT ![turn] = "finished"]
    /\ IF verdict[turn] = "error"
         THEN /\ outcome' = "error"
              /\ pc' = IF run.kind = "composed" THEN "guard" ELSE "cleanup"
              /\ UNCHANGED <<stored, turn>>
         ELSE /\ stored' = stored \cup {turn}
              /\ turn' = turn + 1
              /\ UNCHANGED <<pc, outcome>>
    /\ UNCHANGED <<run, docker, verdict, permits, sessions>>

EndSequence ==
    /\ pc = "sequence" /\ turn > NumTests
    /\ pc' = "cleanup"
    /\ UNCHANGED <<run, docker, tests, turn, outcome>>

\* What is left of the images S after removing them in this order, where the
\* first refusal ends it (template) or does not (the others).
RemovedInOrder == {images, images \ {"main"}, {}}
RemovedEach == {images \ S : S \in SUBSET images}

\* The container goes first.  Its refusal keeps a template's images; for the
\* others the image is tried as well, which Docker refuses.
Cleanup ==
    /\ pc = "cleanup"
    /\ containers' \in {containers, Without(attempt)}
    /\ images' \in CASE DOMAIN containers' # {}  -> {images}
                     [] run.kind = "template"    -> RemovedInOrder
                     [] OTHER                    -> RemovedEach
    /\ pc' = IF outcome = "error" THEN "guard" ELSE "report"
    /\ UNCHANGED <<run, attempt, tests, turn, outcome>>

Failures == {t \in stored : verdict[t] # "passed"}

\* The JUnit file is written if one is wanted; a result that has not passed is
\* an error of the command.
Report ==
    /\ pc = "report"
    /\ outcome' \in IF Failures = {} THEN {"ok", "error"} ELSE {"error"}
    /\ pc' = "guard"
    /\ UNCHANGED <<run, docker, tests, turn>>

Listed == DOMAIN containers

\* RunGuard::drop: every container with the label of the run, stopped ones too,
\* is removed if Docker does so; R stays, which is all of them when Docker cannot
\* be reached or does not list them.  A composition's containers have no label.
DropRunGuard ==
    /\ pc = "guard"
    /\ \E R \in SUBSET Listed : containers' = [c \in R |-> containers[c]]
    /\ pc' = "end"
    /\ UNCHANGED <<run, attempt, images, tests, turn, outcome>>

-----------------------------------------------------------------------------
ThreadStep(t) ==
    \/ Acquire(t)
    \/ TrySetup(t) \/ WarmExecutor(t)
    \/ RunTemplate(t) \/ RunComposition(t) \/ CallService(t)
    \/ Compare(t) \/ UpdateSnapshot(t) \/ Validate(t)
    \/ Store(t) \/ EndThread(t)

MainStep ==
    \/ BuildBlob \/ BuildImage \/ StartContainer \/ OutOfAttempts \/ CheckHealth
    \/ Spawn \/ Join
    \/ TakeTurn \/ EndTurn \/ EndSequence
    \/ Cleanup \/ Report \/ DropRunGuard

Terminated == pc = "end" /\ UNCHANGED vars

Next ==
    \/ MainStep
    \/ \E t \in Test : ThreadStep(t) \/ Panic(t) \/ LeavePrompt(t)
    \/ Terminated

Spec == Init /\ [][Next]_vars

\* The system schedules each thread.  Requests have timeouts, builds end, and the
\* commands of the tests that are not endless end; no more is assumed of the
\* others than that they may.
FairSpec ==
    /\ Spec
    /\ WF_vars(MainStep)
    /\ \A t \in Test : WF_vars(ThreadStep(t) /\ ~Hangs(t))

-----------------------------------------------------------------------------
\* No container is removed under a test that is about to use it, unless a
\* test has panicked: the main thread removes it after the last test only.
ContainerServesTests ==
    \A t \in Test :
        pc # "end" /\ st[t] = "call" /\ run.kind # "composed"
            => Serves \/ \E u \in Test : st[u] = "dead"

\* A run that succeeds has run every test, and each has passed: no result is
\* lost between the threads, the joining and the report, whoever panics.
OkMeansAllPassed ==
    pc = "end" /\ outcome = "ok" => \A t \in Test : t \in stored /\ verdict[t] = "passed"

\* While some permit is not held by an endless test, whoever wants one gets it.
Waits(t) == st[t] \in {"wanting", "asleep"}
PermitsReachAll ==
    Cardinality(run.endless) < Permits =>
        \A t \in Test : Waits(t) ~> (~Waits(t) \/ pc = "end")

\* The run ends, or a test hangs by itself: none sleeps forever for a permit that
\* is free, and the main thread does not wait for one that has ended.
RunEnds == (<>(pc = "end") \/ <>[](\E t \in Test : Hangs(t))) /\ PermitsReachAll

\* Four more that the comments promise, and TLC refutes (see README.md).
\* The composition's questions are "non-interactive Q&A" (template.rs:735), for
\* which somebody waits as little as for those of a template's tests.
EveryRunEnds == <>(pc = "end")

\* "Create cleanup guard to ensure session is always cleaned up, even on
\* error" (template.rs:1198): the guard is made only after the warming.
SessionsAreClosed == pc = "end" /\ outcome # "left" => \A t \in Test : sessions[t] # "open"

\* Who leaves one that nobody has asked the coordinator to remove: a test that has
\* ended in an error.
OnlyErrorsLeaveSessions ==
    \A t \in Test :
        sessions[t] = "open" =>
            st[t] \in {"warm", "call", "compare", "update", "validate"} \/ verdict[t] = "error"

\* "Cleanup built images (always, even on failure)" (template.rs:572): the
\* tests lead to the cleanup, whatever they return.
LeavesTests == pc \in {"threads", "sequence"} /\ pc' # pc
Unwinds == \E u \in Test : st'[u] = "dead"

CleanupAlways == [][LeavesTests /\ ~Unwinds => pc' = "cleanup"]_vars

\* What the resolver's comment wants to avoid, for all kinds of run.
EverySnapshotHasOneWriter ==
    \A t, u \in Test :
        t # u /\ st[t] = "update" /\ SnapshotOf[t] = SnapshotOf[u]
            => st[u] \notin {"compare", "update"}

\* It does avoid that where the tests are run one after the other, as a resolver's
\* are when they update their snapshots.
SequencesHaveOneWriter == ~Parallel => EverySnapshotHasOneWriter
=============================================================================
