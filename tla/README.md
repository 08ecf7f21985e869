# CyanPrint in TLA+

CyanPrint (`cyanprint`, Rust) generates projects from templates.  A template is
a container that asks questions; its answers decide the files.  Templates
depend on other templates; several can be installed in one project and upgraded
later, by a three-way merge with what the user has changed since.  This
directory has TLA+ specifications of the program's core, configurations to
check them with TLC, and proofs checked by TLAPS.

    tlc -config MCCompositionRun.cfg MCCompositionRun
    tlapm CompositionRunProofs.tla

The modules named `...Proofs` have the theorems, those named `MC...` the
instances for TLC (TryCommand needs none).

## 1. The system

| Part | Where | State it keeps | Operations |
|---|---|---|---|
| Coordinator sessions | `cyancoordinator/src/template/executor.rs`, `client.rs`, guards in `operator.rs` and `run.rs`, `headless.rs` | ids of warmed sessions, on the stack and in guards; the sessions themselves are at the coordinator, a service outside | warm on two threads, build, clean |
| Composition | `cyancoordinator/src/operations/composition/operator.rs`, `state.rs` | shared answers, outputs so far, recorded conflicts | execute the flattened dependencies one after the other |
| Dependency resolution | `composition/resolver.rs` | visited set, flattened list | depth-first walk, merging of preset answers |
| Output cache | `cyancoordinator/src/cache/` | one file per key, an ownership marker | get, put, evict, clear |
| Layering | `composition/layerer.rs`, `conflict_file_resolver/` | - | merge many outputs, by resolver or last writer |
| Project | `cyanprint/src/run.rs`, `update/`, `template/history.rs`, `state/` | project files, `.cyan_state.yaml` (history per template, conflicts, managed files) | create (new, upgrade, rerun), update |
| Files | `cyancoordinator/src/fs/` | temporary git repository | load, merge, delete, write |
| Template questions | `cyanprompt/src/domain/services/template/` | answers, deterministic states | interactive walk, headless walk, validation |
| Headless envelope | `cyanprint/src/headless.rs`, `main.rs` | - | `done`, `need_input` or error, and the release of sessions |
| Commands after generation | `cyanprint/src/command_executor.rs` | - | run each, ask or go on at a failure |
| `try`, `test` | `cyanprint/src/try_cmd.rs`, `test_cmd/` | Docker artefacts, permits | start, question, run, clean up |
| `test init` | `cyanprint/src/test_cmd/init.rs` | test configuration, snapshots and their backups, a container and two images | back up, walk all answers twice, write, run the tests |
| Daemon and ports | `cyanprint/src/coord.rs`, `port.rs` | two containers with fixed names; the ports of the machine | start, stop, ensure; allocate, release |
| Publishing, registry | `cyanprint/src/main.rs`, `docker/`, `cyanregistry/` | images under names and tags, published versions | build, push |

How they interact: a command (`main.rs`) computes the lists of templates before
and after it (`run.rs`, `update/`), and runs `batch_process`.  That resolves and
executes every template of both lists through the composition operator, which
walks the flattened dependencies; each is served from the cache, or warmed at
the coordinator, asked its questions and built.  The outputs are layered, within
the composition and then across the project; base, local files and new output
are merged, written and recorded.  Session ids travel up through all of this as
return values, to be cleaned by whoever ends the command.  Answers travel down
from the command line and the state file, and back up into the state file.  The
next command starts from what is on disk.

What is hard in it, and to test: a failure at every one of some twenty points has
to release exactly the sessions made so far; two threads warm a session and
either may fail; headless callers replay a command with one more answer each
time, so that answers must come back under the key they were asked for; several
processes share the cache directory without a lock; the base of a merge is
regenerated from a record that earlier commands, some of which crashed, have
written; the graph of dependencies is the work of strangers; the names of
containers and the ports of a machine are the only locks between processes that
start the daemon or a test; `test init` deletes what the user wrote by hand.
`PROJECT.json` lists these as hazards, each at its line.

What makes each part correct:

* sessions: none leaked, none cleaned in use, none cleaned twice, commands end;
* composition: every reachable template is executed once, presets reach it, and
  its output wins over those of earlier templates and, unless it is on a cycle, of
  those it depends on;
* questions: a result is one path through the template, the walk takes one answer
  at a time, to the first open question, secrets stay out of messages, it ends;
* answers: what was answered for a template reaches it, a replay is faithful, a
  cache hit cannot be told from an execution;
* cache: what is served was stored whole under that key, a clear clears;
* layering: a resolver only with everyone's consent, else the last version;
* project: the base is what was generated, done means recorded, edits survive all but
  a write that is cut off, a stopped command changes nothing;
* `try`: whatever exists has an owner that will remove it, done means that output
  and commands are through, or a warning says what is missing;
* `test`: no container is removed in use, a success has a passed result of every
  test, no thread waits for a permit that is free;
* `test init`: what the user had is in place or in a backup, the tests are all the
  combinations, each under its own name, the container goes;
* daemon: a race for it ends with it running and nothing in the way of the next;
  starting never stops it;
* ports: processes that take ports from one another do not all go without;
* publishing: a version has the images it names.

## 2. The modules

Every definition that models code has its lines in `PROJECT.json` under `map`.

**SessionLease** is the abstract promise about sessions: a session is acquired,
held and returned; a command that finishes holds none; one that is killed leaves
them.  **CompositionRun** is a command in detail: `batch_process` over the
specifications of two lists, `execute_composition` over the nodes of each,
`execute_template` with its two pairs of threads (`exec` and `boot`, `tmpl` and
`qna`), the build, `clean_warmed_session`, and the three guards as the sets
`comp` (CompositionSessionGuard), `batch` (SessionBatch) and `run`
(SessionCleanupGuard).  `acquired` are the ids the command got to know,
`released[s]` counts the clean requests for s, `live` are the sessions at the
coordinator, `lost` and `missed` those whose id never arrived and those whose
clean request failed.  `LeaseSpec` states that it implements SessionLease under
`LeaseOf` and `StatusOf`.  **CompositionRunProofs** has the proofs.

**ProjectHistory** is the project over a sequence of commands: `CreateNew`,
`CreateUpgrade`, `CreateRerun`, `Update` build the lists `prev` and `curr` as the
code does; `Execute`, `Write`, `SaveTemplateMetadata`, `SaveStateFile` are the
steps of `batch_process` and of the code around it; `Crash`, `CrashInWrite` and
`CrashInSave` stop it anywhere.  Files are truncated and then written: a write that fails
or is killed leaves some files as they were, some as merged, and at most one cut off (`Torn`,
`WrittenInPart`), and the state file torn or without a part of its entries
(`StateCutOff`).  Between commands the user edits files and
deactivates templates by hand and authors publish versions.  A file's content is
what it was generated from, so that "the base is what was generated" can be said.

**PromptSession** is the abstract promise of a question session: answers are taken
one at a time, each to the question the template asks next.  **QuestionWalk** is
`TemplateEngine` with `start_with`, `start_headless` and the validation of the
supplied answers, against templates whose questions depend on answers, that
refuse combinations, fail, or never advance.  `SessionSpec` is its refinement.

**AnswerRouting** is `execute_composition` as seen by answers: presets, namespaces,
scoped and shared answers, the cache key, `namespace_template_state`, and the
state file that the next command starts from.  **AnswerProofs** has the proofs about
this module, QuestionWalk and OutputCache, each about its own specification.

**CacheContract** is what the users of the output cache may rely on, whatever it is
made of: a lookup gives what is stored under its key, or nothing; what is stored under a
key was made by a client that asked for it and was given nothing; who is told that
the cache is cleared does not meet again what was there when he began.  Entries may be dropped at
any time.  **OutputCache** is `CacheStore` with one action per file operation, several
processes, removals and writes that fail, and entries damaged from outside.  `CacheSpec`
states that it keeps the contract, under `Whole` (what a file is worth as an entry),
`StateOf`, `AskedBy` and `DueFor`.  Its specification is named
`StoreSpec`, that of QuestionWalk `WalkSpec`, so that one module can be about both.

**DependencyTree** is `flatten_impl` as a stack machine over any graph, with the
merging of presets.  **Layering** is both stages of layering for one path, with
resolvers.  **Composition** conjoins the two: for one template of the batch after
another, the walk decides an order (`Resolve`), the templates are executed in it
and their outputs layered, and at last all are layered (`Compose`).  Neither
component chooses its input any more: what is layered is what was walked.
`Overrides` says which of two templates must win: one of a later tree, and one that
depends on the other and is on no cycle.

**PostCommands** is `command_executor.rs`: the list of commands, who approves
it, and what a failure does in each mode.  It has one variable and no `Next`;
**TryCommand** conjoins its actions with its own and adds what happens before:
`execute_try_command` and `execute_try_group_command` against Docker and the
coordinator.  `live` is what exists there, `noted` and `armed` are
`SetupArtifactsTracker` and its guard, `ClosureTargets` what
`cleanup_setup_session` and `cleanup_executor_session` remove, `todo` the
teardown in progress (one removal per step, in the order of the code), `stuck`
what could not be removed, or was made by a call that reported a failure.
`CollectCommands` takes the commands of the dependencies, `declared` in number; references
that cannot be parsed, and dependencies that cannot be resolved, cost a warning
(`warned`) and the commands behind them, and the command goes on.
ProjectHistory and CompositionRun have the commands of `create` and `update` as
one step that may fail.

**TestPool** is one `test` run of any kind (processors and plugins, whose runs are alike, are
one, "service"): the warm-up (blob, image,
container attempts, health), `Spawn` or the sequence, one thread per test with
`Acquire`, `Asleep` and `ReturnPermit` of `semaphore.rs`, the main thread's
joining in order, the cleanup of each kind, and `RunGuard`.  A panic of a thread
returns its permit and ends the joining.  The kinds share most steps; where
they differ (`Parallel`, `Places`, `Cleanup`) the action says for which kind.  In the tests of
`run.endless` something need not end (`Hangs`): the questions of a template that repeats an
answered one, the terminal prompt of a composition that lacks an answer, a command.
A session is "asked" once the coordinator was asked to remove it: what became of that
request nobody looks at, as nobody looks at what `RunGuard` did not get Docker to remove.

**TestInit** is `test init`: the backup (`MakeBackupDir` to `RemoveFixtures`, one
action per call, each of which may fail or be cut off), the images and the
container, `discovery_dfs` and `full_dfs` as stack machines (`Discover`,
`Generate` enter a call, `DiscoverNext`, `GenerateNext` follow its next branch),
the user's choices in between, the names of tests, the file, the cleanup, the
tests (one step, see TestPool) and the question about the backup.  Both artefacts
are what the user had, what a run made, or part of either.

**Machine** is what several `cyanprint` processes do to one machine.  It conjoins
**Daemon** (`coord.rs` and `ensure_daemon_running`: one action per call of Docker,
where a container is looked up in a list, and acted upon by then-known id, later),
**Ports** (`port.rs` and the loop around it: listen, release, let Docker bind) and
**Publishing** (`build` and `push`: checks, images in order, the post).
**Processes** has what they share: the processes and the count of faults.  They
meet where `try` and `test` take a port once the daemon is there (`TakePort`).

CompositionRun, AnswerRouting and Composition are three views of one function,
`execute_composition`.  Each takes from the others what its own properties need
and leaves the rest nondeterministic: CompositionRun lets any node be served or
fail; AnswerRouting has no failures, as a failed run changes no answers;
Composition has no questions.

## 3. The runs

| Run | Instance and bounds | What it shows |
|---|---|---|
| `composition_run` | a lone template, then one with a template and a group as dependencies; every outcome of every call, both modes, kill | `NoReleaseWhileOwned`, `NoLeak`, `ExactlyOnceOnSuccess`, `SecondReleaseOnlyAtFailure`, `LeaseSpec`, `HeadlessRunEnds` |
| `project_history` | 2 templates, 2 versions, 3 commands: new and upgrade with 2 answers; all four kinds with failing calls, crashes, torn files | `BaseIsWhatWasGenerated`, `DoneIsRecorded` (of the first), `EditsSurvive`, `StoppedRunLeavesProject` |
| `question_walk` | 4 questions on two branches, 2 values, any supplied answers, 5 turns | `DoneIsOnePath`, `MessagesHideAnswers`, `SessionSpec`, `CallerGetsOutcome` |
| `answer_routing` | root and two dependencies, 2 ids, 2 values, 2 complete runs, one upgrade | `ReplayIsFaithful`, `CallerWins`, `CacheHitEqualsFreshRun`, `CallerReachesDone` |
| `output_cache` | 3 processes, 2 keys, 1 foreign file, 1 crash | `CacheSpec`, `ClearRemovesAll` |
| `composition` | all graphs of 3 templates, all of 4 with nothing depending on the root; two trees of two, one of three, 2 resolvers, groups as roots; all but the root have the path | `ExecutedOnce`, `PresetsArrive`, `ConsensusIsUnanimous`, `DependentsWin`, `BatchEnds` |
| `try_command` | 3 attempts at the container, up to 2 sessions of a group, none or 2 commands | `EverythingIsOwned`, `DoneIsDelivered` |
| `test_pool` | 3 tests, 2 permits, 2 attempts, 2 tests of one snapshot, 1 panic, none or one test without end | `ContainerServesTests`, `OkMeansAllPassed`, `RunEnds` |
| `test_init` | 4 questions, one on a branch of its own, 5 tests at most, 2 runs, one of them healthy | `NothingIsLost`, `EveryCombinationIsTested`, `OneSnapshotPerTest`, `WarmupIsCleaned`, `InitEnds` |
| `machine` | 3 processes, 1 fault, 2 ports, 3 attempts; or 2 that publish with 2 tags | `RacesEndWell`, `StartNeverKills`, `NotEveryoneStarves`, `VersionsAreWhole`, `CommandsEnd` |
| `update_history` | an upgrade by update, no faults | violates `DoneIsRecorded`, section 6 |
| `layering_group` | three dependencies, one of them a group | violates `ConsensusIsUnanimous`, section 6 |

`project_history` has 4,813,720 distinct states, `test_pool` 569,744, `machine` 339,893, `composition`
311,190, `answer_routing` 308,013, `test_init` 259,790; the others have fewer.

Why these bounds are enough for what is asked.  Sessions interact only through
the guard that holds them: with a first specification of one node and a second
of three, a failure can come with none, one or two sessions in each guard.  In a
project, two templates are the least with an order of layering and a template
that is not the target; three commands allow an install, a second install and an
upgrade of either, or a fault between two good commands.  The questions have a
branch, a join, a secret and a refusal that depends on another answer; five turns
are one more than any path has, and the template that never advances reaches
them.  Two runs make a replay; the second can be after an upgrade.  Three
processes make a reader, a writer and a clear.  Four templates make a diamond
with a cycle in it, and two templates with their dependencies both stages of
layering.  `try` makes one resource of each kind per attempt, so that three
attempts are the code's own number; of a list of commands the first can fail and
the second follow, or be missing.  Three tests and two permits leave one thread asleep while two
run; one panic is enough to end the joining early, one
test without end to hold one of the two permits for good.  The template of `test_init`
has a question that the first walk misses and two values that read the same in a
name.  It has four paths, fewer than the limit of five, or up to eight where the user
adds an answer to the last question, so that the limit bites; a name has room for the
labels of three of them, and that of the fourth is shortened.  The second run finds what
the first has left, or has the first one's stamp.  Three processes and one fault are a
race for the daemon of which the winner fails, or two starts with a stop; two ports
and two processes make both lose a port to the other.

Every run checks deadlock.  Systems that may stop do so in an action that changes
nothing and whose guard says that all is over.

### Fairness

`composition_run`: the steps of the program and the answers of its services are
weakly fair; each HTTP call has a timeout of 600 s (`client.rs:24`,
`executor.rs:297`), after which the model's call has failed.  The user's answers
are not fair: an interactive run may stay at a prompt, which `HeadlessRunEnds`
leaves out by its condition.
`question_walk`: the walk is fair, and so is a headless caller, who repeats the
command with an answer to the question it was asked; a liveness property is about
such a caller.  `answer_routing`: likewise, a command that was started is fair,
and its caller answers.  `composition`: the walk, and the rest of the batch, each
of which one thread does.  `test_pool`: each thread and the main thread are
weakly fair, as the operating system schedules them; a thread asleep in
`Condvar::wait` is not, until it is notified.  Requests have timeouts and
builds are taken to end, so that a step of a test ends, unless it is one of those
`Hangs` names, of which no fairness is assumed.  `RunEnds` says that the run
ends or some test hangs by itself, and that whoever wants a permit gets one while not all are with such tests;
that every run ends is refuted (section 6).  `test_init`: the command as a
whole, since one thread does it; kills are not.  `InitEnds` takes it that the
user answers and that Docker's builds end.  `machine`: each process, and the
set-up container, whose log is followed until it ends (`coord.rs:254`); faults are
not.  The other specifications have no liveness properties.

## 4. What is proved

All theorems are for every value of the constants that satisfies the assumptions
the modules state.  None of the properties is inductive by itself; each module
therefore has an invariant that says what holds at each point of the program.

| Module | Theorems about properties of the runs | Inductive invariant |
|---|---|---|
| CompositionRunProofs | `OwnershipIsExclusive`, `NoLeakAtExit`, `ReleasedExactlyOnce`, `SecondReleaseIsTheBuildError`, `ImplementsLease` | `IInv` |
| MachineProofs | `RacesEndWellAlways`, `StartNeverKillsEver`, `NotEveryoneStarvesEver`, `VersionsAreWholeAlways` | `DaemonInv`, `PortsInv`, `PublishInv` |
| ProjectHistoryProofs | `StoppedRunLeavesProjectAlways`, `EditsSurviveAlways`, `DoneIsRecordedAlways`, `BaseIsWhatWasGeneratedAlways` | `DiskInv`, `CalmInv` |
| AnswerProofs | `DoneIsOnePathAlways`, `MessagesHideAnswersAlways`, `ImplementsSession` (QuestionWalk) | `WalkInv` |
| | `ReplayIsFaithfulAlways`, `CallerWinsAlways`, `CacheHitEqualsFreshRunAlways` (AnswerRouting) | `RouteInv` |
| | `ImplementsCacheContract`, `ClearRemovesAllAlways` (OutputCache) | `CacheInv` |
| TryCommandProofs | `EverythingIsOwnedAlways`, `DoneIsDeliveredAlways` | `OwnInv`, `CommandsInv` |
| TestInitProofs | `NothingIsLostAlways`, `WarmupIsCleanedAlways`, `OneSnapshotPerTestAlways`, `EveryCombinationIsTestedAlways` | `DiskInv`, `Warm`, `WalkInv`, `NamesInv`, `CombinationsInv` |
| CompositionProofs | `ExecutedOnceAlways`, `PresetsArriveAlways`, `ConsensusIsUnanimousAlways`, `DependentsWinAlways` | `IInv`, `LayerInv`, `WinInv` |
| TestPoolProofs | `ContainerServesTestsAlways`, `OkMeansAllPassedAlways` | `IInv`, `Results` |

Type correctness is proved for every component; for QuestionWalk, AnswerRouting and
OutputCache it is a part of the invariant; in TestPool it includes that the semaphore neither
makes nor loses a permit.  Besides, that a command that
stops on a question has written nothing (`PendingQuestionLeavesFiles`), that a
start reports success only if the coordinator ran (`SuccessMeansItRanAlways`),
that no two processes have one port (`PortsAreExclusiveAlways`), and what a dry run
leaves alone (`DryRunTouchesNothingEver`).

Of what TLC refutes in section 6 a part often holds.  Five theorems say which:

| Theorem | What holds of the refuted claim |
|---|---|
| `OnlyRerunsAskInVainEver` (ProjectHistory) | `PendingQuestionIsAnswerable`, for all commands but reruns, with any faults: what is recorded has its answers, so that only the target of a command asks (`AsksTarget`) |
| `TaggedFilesSurviveAlways` (OutputCache) | `ForeignFilesSurvive`, in a directory with a tag of somebody else: `ensure_marker` leaves it alone, so that no clear begins (`TaggedInv`) |
| `SingleRecordsConflictsAlways` (Composition) | `ConflictsAreRecorded`, for a project of one template |
| `SequencesHaveOneWriterAlways` (TestPool) | `EverySnapshotHasOneWriter`, without threads: who does anything has its turn (`OneAtATime`) |
| `OnlyErrorsLeaveSessionsEver` (TestPool) | `SessionsAreClosed`, for tests that did not end in an error: the coordinator was asked to remove their session; whether it has, no property says, since a failure of the request is passed over (`template.rs:81`) |

No run checks these five; their definitions are next to those of the refuted claims.

*CompositionRun.*  Whether a release is the last one depends on which part of the
program runs.  `IInv` adds, for each place in the program, which owners can have
sessions there (`OwnersByPlace`), that a session without an owner has been
released and one with an owner has not (`CountsByOwner`), that the current
node's session is new and which sessions exist at the coordinator
(`SessionsSoFar`), and what the outcome can be (`OutcomeByPlace`).  There is one
lemma per group of actions.  The refinement follows from `IInv` and one lemma
that says which of the abstract steps each action is.

*Machine.*  The three components share the number of faults only, so that a step of
one leaves the invariants of the others alone.  For the daemon: the set-up
container is that of the one process that is setting up (`SetupIsOwned`), and
unless the coordinator runs, somebody who wants it is at a point from which he can
only be kept from starting it by another such process (`SomeoneWillStart`).  For the
ports: whoever has found one taken has lost it to somebody who is served
(`SomeoneIsServed`).  For publishing: what a command has stored and what it has yet
to build make up what it names (`Building`, `Posting`), which others disturb only
under the same tag.

*ProjectHistory.*  Until its first write a command has done no more than create the
directory (`UntouchedInv`), and in a directory it has created nobody has edited
anything (`FreshInv`): a stopped command leaves what it found, and the directory it
may remove holds no edits.  Edits survive whatever is killed or
fails, with the two exceptions that `EditsSurvive` names: the file that was being written
then, of which there is one at most (`CutOff`), and files that a `.gitignore` names.  Section 6 has what
is lost in either.  The two others are, as in the runs, about
commands in which nothing fails (`Calm`): a file that nobody has edited is what its template's last
entry says (`FilesAreKnown`), and of the templates of a command all but its target are
recorded as they are executed (`CalmLists`).  They have the hypothesis `CalmKinds`,
that these commands are new or upgrade: for update and rerun both are false
(`update_history` and section 6).  With more than one template, several versions, any
answers and any number of commands it is an invariant because the lists that
`prev` and `curr` are made of hold a template once (`OncePerTemplate`).

*QuestionWalk.*  The path through a template is a function of the number of steps.
Facts about it are not shown by induction, which the provers lack, but for
the least step at which they would fail.  While it walks, the program has revealed
answers that are on the path and were supplied (`Revealed`), and before it can fail its
tracker has all renderings of what it sends (`DiscoverInv`, `OutcomeInv`).
`ImplementsSession` has the hypothesis `LeadsForward`: no question leads back to
an earlier one.  It is needed, as TLC shows with a template that has a circle: the
interactive loop puts to the user whatever the template asks, also a second time, which
the abstract session never does.  The two invariants need no such hypothesis.

*AnswerRouting.*  A run never changes an answer it began with (`StartIsKept`), and what a
template used is shared under the key it has from then on (`UsedIsShared`); so the state file of a
completed run determines what each template used (`LastInv`), and a run that starts
from it meets the same.  An entry of the cache extends the answers it is keyed by, and
one of a headless run has exactly those its template asks for (`EntriesExtend`), so that a
hit with the same key is what the execution would give.  `CallerWins` says nothing of
a command that has not begun: as first stated it compared the last run's answers with
the keys of a version published since, which takes three commands to see and no run had.

*OutputCache.*  An entry that a process has stored is of a process that is done
(`EntriesAreStored`): it is stored once, so that a clear that has removed it
cannot meet it again (`ClearGoesOn`).  For `ImplementsCacheContract`: only a run that
was given nothing gets to store (`GivenNothing`), every action moves the state of one client
at most (`OneMoves`), and removing an entry late, twice, or in place of the one that
was meant is never more than a drop (`DropIsDrop`).  `ServedWasStoredAlways` says without the
abstract cache that a run is served only what some run stored whole under the same key.

*TryCommand.*  The guard, the closures or the teardown hold what exists, depending
on the point of the program (`WhileGuarded`, `WhileClosed`, `InTeardown`); what
they do not hold is a container of an attempt that failed and that Docker would
not remove.  The commands that are gone through are those collected when the tree was resolved, which
are all that are declared as long as nothing is `warned` of (`CommandsInv`).

*TestInit.*  What is still to be copied is in its place, what is to be removed is in
the backup, and a run within the same second finds there what the one before has
moved, or the original (`MovedAside`).  The walk keeps to questions and values of the
template (`WalkTyped`), as the question a path leads to is shown to be one for the
least step at which it would not be; a path without labels is at its first question
(`Unlabelled`), so that every test is named after its answers.  A name that is
not shortened is that of a path with a number below the count of its uses, and both
can be read off it (`NumberRead`, `NamesInv`), provided that no label has a number of its own:
the hypothesis `PlainLabels` of `OneSnapshotPerTestAlways`, without which TLC refutes it
(section 6).

What the second walk has still to do is written as a set of answers, those that extend
the path it prompts with next or a branch of a call under way (`Ahead`).  While fewer
tests are made than allowed, all answers to one path are tested or ahead, and none
is both (`Generated`): following a branch and returning from a call change nothing
(`BranchAhead`, `ReturnAhead`), entering one does not either, since whoever gets to the
end has an answer to the question (`CallAhead`), and the end of a path moves one from
ahead to tested (`EndAhead`).  The calls are told apart by the question each has
answered and the value it is through with (`Above`).  Of the tests and the paths only their
numbers are compared, hence that there are finitely many paths (`AnswersFinite`) and as
many different answers as tests (`TestsCounted`).
`EveryCombinationIsTestedAlways` has three hypotheses about the template: `LeadsForward`,
as for QuestionWalk; `OffersFixed`, that a question offers the same whatever the
first answer was; and `NothingOfferedTwice`.  TLC refutes the property without the second
(section 6), and without the first, with a circle through the first question, where the walk
answers it again and tests a combination twice; without the third it tests what is
offered twice, twice.  The template of `test_init` satisfies all three.

*Composition.*  What the dependencies lead to is defined as the least set that is
closed under them, so that no induction over paths is needed.  `WalkInv` is about
the stack of calls: visited is what is on it or listed, and nothing is twice
(`NoneTwice`); what a call has gone through is visited (`ChildrenFollow`), and what
is visited is reached (`Rooted`), so that in the end the list is closed.  A call
leads to those above it (`OnPath`); hence what is skipped lies on a cycle, and all
else that a declaring parent has gone through has a preset (`FollowedHavePreset`).
`ConsensusIsUnanimousAlways` has a hypothesis, `GroupsAreRoots`: no group is a
dependency of another template.  Then only the last of a list can be a group and
positions of versions and of templates agree (`Aligned`); without it the property is
false (`layering_group`, section 6).  `DependentsWinAlways` has none: what a template on
no cycle leads to is listed before it (`DependenciesFirst`), and what is layered so far
is of the last template that had a version, at the first stage (`TreeInv`) and at
the second (`LayeredInv`).  The first attempt at it failed on templates that are on a
cycle: the walk must list one of them before what it depends on.

*TestPool.*  The main thread knows where the tests are (`PlacesByPc`): before it goes on
to the cleanup each is through, or one has died.  A permit is available or has a
holder (`PermitsCounted`, about the cardinality of the set of holders).  A result has been stored of every
test that has been joined, or had its turn, and a main thread that gets to the report without an
error has been through all of them (`Results`); a panic anywhere makes the outcome an error before.

Only model-checked: the liveness properties (`HeadlessRunEnds`, `CallerGetsOutcome`,
`CallerReachesDone`, `BatchEnds`, `RunEnds`, `InitEnds`, `CommandsEnd`), since TLAPS
does not prove liveness under fairness.  All other properties of the runs are proved, under
the hypotheses named above.

## 5. What is not modelled

* The expiry of sessions at the coordinator, and everything inside it.
* Merging within a file, and renames, which are git's.  A file both sides have
  changed is a conflict.
* `deterministic_states`: the code never writes them to the state file
  (`services.rs:64`), though `docs/developer/concepts/04-deterministic-states.md`
  says that they are kept.
* Hashing and archives in the cache: keys are equal when their inputs are.
* `create` and `update` run the post-template commands in one step, in which they
  may fail; PostCommands has the loop.
* In `try` and `test`: the inside of a composition (CompositionRun has it) and a
  person who leaves there; the comparison and unpacking of files; pulling images;
  reports and configuration files; in `test init` the layout of what it writes.
* What the network set-up does inside the coordinator's image.
* In Publishing: arguments, platforms, and that a push of the same images by another
  machine may come between; the client's and the mappers' conversions.
* The choice of versions (an input of ProjectHistory), git, terminal input and
  serialisation: no state of their own.

## 6. Where the program and its documents disagree

The two violation runs each have a finding in `PROJECT.json`: an update loses the
history it has appended; groups shift the descriptions of the outputs behind
them.  TLC refutes these formulas too, in configurations kept beside the modules.
TLC stops at the first formula it refutes: where a configuration has several, take
the others out to see one.

| Configuration, module | Formula | The program | The document |
|---|---|---|---|
| `MCProjectRefuted.cfg`, MCProjectHistory | `BaseIsWhatWasGenerated` | a rerun asks all templates again and records the target only (`run.rs:763`) | "**Base**: What the template originally generated", `docs/developer/features/02-three-way-merge.md:16` |
| | `LayeredInInstallOrder` | upgrade and rerun use the order of a HashMap (`run.rs:655`) | "Installation time for LWW ordering", `update/spec.rs:21` |
| | `PendingQuestionIsAnswerable` | a rerun gives supplied answers to its target only (`run.rs:785`) | "expecting the next invocation to supply the answer (stateless replay)", `states.rs:14` |
| | `IgnoredEditsSurvive` | ignored files are not loaded, so that edits in them are overwritten (`loader.rs:36`, `merger.rs:98`) | "Preserves user modifications when updating template-generated code.", `02-three-way-merge.md:5` |
| | `EditsAreNeverTorn` | every merged file is truncated and written again, the edited ones too; a kill or a full disk in between loses the edits in one (`writer.rs:32`) | the same |
| | `HeadlessStopRestores` | a template is fetched again after the files are written; if that fails they stay, unrecorded (`run.rs:288`, `299`) | "A headless run must leave the filesystem exactly as it found it until it reaches `done`", `run.rs:384` |
| `MCAnswersRefuted.cfg`, MCAnswerRouting | `PresetStaysHome` | an answer that was a preset is shared afterwards (`operator.rs:335`, `782`) | "Scoped to the specific dependency template; not leaked to siblings or subsequent templates", `spec/CU-86ex0ycve/v1/task-spec.md:64` |
| | `UpgradeKeepsAnswers` | scoped answers are filed under the version id (`operator.rs:233`) | "When re-running or updating a template, previous answers are provided to skip questions", `docs/developer/concepts/05-stateful-prompting.md:59` |
| | `EveryHitEqualsFreshRun` | results of interactive sessions are stored too, with all answers they were started with (`operator.rs:496`) | "Store ONLY a non-interactive Complete result", `operator.rs:496`; "A cache hit is byte-identical to a non-cached run.", `README.MD:15` |
| `MCCacheRefuted.cfg`, MCOutputCache | `SuccessMeansCleared` | a marker torn by a crash is never repaired, and clear then skips the directory (`store.rs:94`, `241`) | "Cleared cache at", `main.rs:576` |
| | `ForeignFilesSurvive` | using the cache in a directory marks it as owned (`store.rs:92`) | "a `--cache-dir` pointed at an existing, unrelated directory is never cleared", `store.rs:229` |
| `MCConflictsLost.cfg`, MCComposition | `ConflictsAreRecorded` | every layering replaces the conflicts of the one before (`operator.rs:211`, `651`) | "File conflicts resolved during layering", `state/models.rs:37` |
| `TryUnguarded.cfg`, TryCommand | `NoWindowIsUnguarded` | an error of the interactive questions returns with the guard disarmed and no closure called (`try_cmd.rs:662`) | "So no window is left unguarded", `try_cmd.rs:105` |
| | `DoneRunsAllCommands` | where the dependencies cannot be resolved, the template's own commands have to do, with a warning, and the run is done (`try_cmd.rs:449`) | "resolved from all dependency templates", `try_cmd.rs:723` |
| `MCTestPoolRefuted.cfg`, MCTestPool | `SessionsAreClosed` | the guard of a session is made after the warming, which may fail with the session made (`template.rs:1192`) | "Create cleanup guard to ensure session is always cleaned up, even on error", `test_cmd/template.rs:1198` |
| | `EveryRunEnds` | a template that repeats an answered question is answered again without limit (`template.rs:1467`), and a composition prompts the terminal for a missing answer (`template.rs:737`): the run waits | "runs non-interactive Q&A", `test_cmd/template.rs:735` |
| | `CleanupAlways` | a sequential run of composition tests returns at the first error, before the cleanup (`template.rs:558`) | "Cleanup built images (always, even on failure)", `test_cmd/template.rs:572` |
| | `EverySnapshotHasOneWriter` | only the resolver's tests are serialised when they update snapshots | "Force sequential when updating snapshots to avoid read-modify-write races", `test_cmd/resolver.rs:132` |
| `MCTestInitRefuted.cfg`, MCTestInit | `EveryQuestionIsShown` | the first walk follows a question it has seen along one branch only, and misses what depends on two answers (`init.rs:499`) | "Discover all unique questions and their branches", `test_cmd/init.rs:366` |
| | `OneSnapshotPerTest` | the number that tells two tests of one name apart may give the name of a third (`init.rs:1025`) | - |
| `MCTestOffers.cfg`, MCTestInit | `EveryCombinationIsTested` | a question's offers are those it had when first met, whatever the answers before it (`init.rs:897`) | "One per option in q.options", `test_cmd/init.rs:130` |
| | `ShortenedNamesDiffer` | a number shortens a long name further, so that two that differed no longer do (`init.rs:1030`) | - |
| `MCMachineRefuted.cfg`, MCMachine | `NoVersionInDryRun` | a push of a group does not look at `--dry-run` (`main.rs:236`) | "Show commands without executing", `commands.rs:67` |
| | `SetupIsRemoved` | a set-up that fails leaves its container, whose name every later start needs (`coord.rs:222`) | - |
| | `ImagesOfOneBuild` | two pushes with one tag may each have stored one of the images a version names | - |

Met while modelling, and in no formula: when a test thread panics the main thread
stops joining, and removes the container while other threads use it
(`ContainerServesTests` excepts it); an error in one test ends a sequential run,
and is a failed result of a parallel one; a template run removes the output
directory at its end, the one given by the user as well (`template.rs:283`); an
error of the health check of `test init` returns before the container it has
started is in any hands (`init.rs:1252`; `WarmupIsCleaned` excepts it); on a cycle
of dependencies a template may be executed, and layered, before what it depends on, which
`docs/developer/features/01-dependency-resolution.md:88` names as a limitation; a
template whose questions lead back to an answered one has the user asked again
(`engine.rs:48`); who leaves the prompt of a composition's test before the first answer ends the
process with exit code 0, as if the tests had passed (`engine.rs:69`; `LeavePrompt`).

## 7. History and what is left

Built in this order: CompositionRun with SessionLease, ProjectHistory, QuestionWalk
with PromptSession, AnswerRouting, OutputCache, DependencyTree, Layering, TryCommand
with PostCommands, TestPool; then Composition, Machine with its parts, TestInit, and
the proofs about OutputCache, TryCommand, Machine, TestInit, Composition and
TestPool; then those about ProjectHistory, QuestionWalk and AnswerRouting, and
`DependentsWin`; at last CacheContract with its refinement, and what holds of the claims
that are refuted.  Properties that only restated a guard were replaced on the way, and
OutputCache was corrected: a removal may fail.  So were ProjectHistory (files, too, are torn by a write
that is cut off), TryCommand (commands left out with a warning) and TestPool (tests that do not end,
clean-up that nobody checks).  Left to do: the validation of the
kinds of question, as functions with reference definitions.
