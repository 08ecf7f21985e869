-------------------------- MODULE TryCommandProofs --------------------------
(***************************************************************************)
(* Proofs about TryCommand, for any number of attempts to start the        *)
(* container, of sessions and of commands.                                 *)
(***************************************************************************)
EXTENDS TryCommand, TLAPS

USE AttemptsAssumption, SessionsAssumption, LengthsAssumption

Guarded == {"prepare", "daemon", "resolve", "blob", "image", "deps", "setup", "start",
            "health", "questions"}
Closed  == {"warm", "bootstrap", "execute", "write", "commands"}

\* What a run of a template makes, and Docker or the coordinator may remove.
OfTemplate == {Session(0)} \cup IF opts.dev THEN {} ELSE {Container(attempt), Image, Blob}

\* Containers of attempts that have failed.
OfAttempts == {Container(n) : n \in 1..(attempt - 1)}

\* Until the questions, the guard knows all that exists but the containers that
\* could not be removed; each of them was started, and failed, before.
WhileGuarded ==
    pc \in Guarded =>
        /\ armed /\ stuck \subseteq OfAttempts /\ live \subseteq noted \cup stuck
        /\ noted \subseteq OfTemplate
        /\ opts.kind = "group" => pc \in {"prepare", "daemon", "resolve"}
        /\ pc \in {"blob", "image", "start", "health"} => ~opts.dev
        /\ pc \in {"deps", "setup", "blob", "image"} => noted \subseteq {Image, Blob} /\ stuck = {}
        /\ pc = "start" => noted \subseteq {Session(0), Image, Blob}
        /\ pc \in {"prepare", "daemon", "resolve"} => noted = {} /\ stuck = {}

\* From then on the closures remove it all.
WhileClosed ==
    pc \in Closed =>
        /\ opts.kind = "template" => ~armed
        /\ opts.kind = "group" \/ ~opts.keep => live \subseteq ClosureTargets \cup stuck
        /\ stuck \subseteq OfAttempts
        /\ opts.kind = "group" => stuck = {}

\* The container that runs, if there is one, is one of the attempts.
HasStarted ==
    pc \in {"health", "questions"} \cup Closed =>
        attempt <= MaxAttempts \/ opts.kind = "group" \/ opts.dev

WhileComposing ==
    pc = "compose" => opts.kind = "group" /\ live = {} /\ stuck = {} /\ noted = {}

Left == Unattended \/ QuestionFailed

\* What a teardown is not going to remove is stuck, or an image that is in use by
\* a container that is stuck.
InTeardown ==
    pc \in {"teardown", "end"} /\ ~Left =>
        /\ todo \cap stuck = {} /\ Removable \subseteq todo
        /\ pc = "end" => todo = {}

NotEnded == pc \notin {"teardown", "end"} => ended = Running

OwnInv ==
    TypeOK /\ WhileGuarded /\ WhileClosed /\ HasStarted /\ WhileComposing
    /\ InTeardown /\ NotEnded

\* Where the commands have been collected.
Collected == {"setup", "start", "health", "questions"} \cup Closed

\* What the commands have come to.
CommandsInv ==
    /\ pc \in Collected /\ warned = {} => commands.total = declared
    /\ commands.phase = "idle" => commands.next = 1
    /\ commands.phase = "ok" => commands.next > commands.total
    /\ pc = "commands" => output = "all"
    /\ DoneIsDelivered

LEMMA FirstAttempt == 1 \in 1..(MaxAttempts + 1)
OBVIOUS

LEMMA TryInitially == Init => OwnInv /\ CommandsInv
<1> SUFFICES ASSUME Init PROVE OwnInv /\ CommandsInv
  OBVIOUS
<1> USE DEF Init, Running
<1>0. commands = [total |-> 0, next |-> 1, failed |-> {}, phase |-> "idle"] /\ declared \in Nat
  BY DEF Idle
<1>1. TypeOK
  <2>1. commands \in TypeOfCommands
    BY <1>0 DEF TypeOfCommands
  <2>2. opts \in Options /\ IsCommandLine(opts)
    OBVIOUS
  <2>3. attempt \in 1..(MaxAttempts + 1)
    <3>1. attempt = 1 /\ 1 \in 1..(MaxAttempts + 1)
      BY FirstAttempt
    <3> QED
      BY <3>1
  <2> QED
    BY <1>0, <2>1, <2>2, <2>3 DEF TypeOK, Outcome
<1>2. OwnInv
  BY <1>1 DEF OwnInv, WhileGuarded, WhileClosed, HasStarted, WhileComposing, InTeardown, NotEnded, Guarded,
     Closed
<1>3. CommandsInv
  <2>1. commands.next = 1 /\ commands.phase = "idle"
    BY <1>0
  <2> QED
    BY <2>1 DEF CommandsInv, DoneIsDelivered, Collected, Closed
<1> QED
  BY <1>2, <1>3

-----------------------------------------------------------------------------
(***************************************************************************)
(* Names of resources.                                                     *)
(***************************************************************************)
LEMMA Names ==
    /\ Image # Blob
    /\ \A n : Container(n) # Image /\ Container(n) # Blob /\ Session(n) # Image /\ Session(n) # Blob
    /\ \A m, n : Container(m) # Session(n)
    /\ \A m, n : Container(m) = Container(n) => m = n
BY DEF Image, Blob, Container, Session

LEMMA Ranks == Rank(Image) = 3 /\ \A n : Rank(Container(n)) = 2
BY DEF Rank, Image, Container

LEMMA OursAreNotStuck ==
    ASSUME TypeOK, stuck \subseteq OfAttempts
    PROVE  /\ OfTemplate \cap stuck = {}
           /\ {Session(0), Image, Blob} \cap stuck = {}
           /\ \A n : Session(n) \notin stuck
<1>1. Container(attempt) \notin OfAttempts
  BY Names DEF OfAttempts, TypeOK
<1> QED
  BY <1>1, Names DEF OfTemplate, OfAttempts

-----------------------------------------------------------------------------
(***************************************************************************)
(* Types.                                                                  *)
(***************************************************************************)
LEMMA TargetsAreResources ==
    ASSUME TypeOK, attempt <= MaxAttempts \/ opts.kind = "group" \/ opts.dev
    PROVE  ClosureTargets \subseteq Resource
BY DEF TypeOK, ClosureTargets, Resource, Options

LEMMA CollectionTyped ==
    ASSUME commands \in TypeOfCommands, declared \in Nat, NEW n \in 0..declared, commands' = Idle(n)
    PROVE  commands' \in TypeOfCommands /\ commands'.next = 1 /\ commands'.phase = "idle"
           /\ commands'.total = n
BY DEF Idle, TypeOfCommands

LEMMA CommandsTyped ==
    ASSUME commands \in TypeOfCommands,
           \/ StartCommands(opts.headless) \/ RunCommand(opts.headless) \/ CommandsAreThrough
           \/ ApproveCommands \/ AskWhetherToGoOn
    PROVE  /\ commands' \in TypeOfCommands /\ commands'.total = commands.total
           /\ (commands.phase = "idle" => commands.next = 1) =>
                 (commands'.phase = "idle" => commands'.next = 1)
           /\ commands'.phase = "ok" => commands'.next > commands'.total
                 \/ commands.phase = "ok" \/ (commands.phase = "idle" /\ commands.next # 1)
<1> USE DEF TypeOfCommands
<1>1. CASE StartCommands(opts.headless)
  BY <1>1 DEF StartCommands
<1>2. CASE RunCommand(opts.headless)
  <2>1. CASE commands' = [commands EXCEPT !.next = @ + 1]
    BY <1>2, <2>1 DEF RunCommand
  <2>2. CASE commands' = [commands EXCEPT !.next = @ + 1,
                              !.failed = @ \cup {commands.next},
                              !.phase = IF opts.headless THEN "run" ELSE "ask"]
    <3>1. commands.failed \cup {commands.next} \in SUBSET Nat /\ commands.next + 1 \in Nat
      OBVIOUS
    <3>2. commands' = [total |-> commands.total, next |-> commands.next + 1,
                       failed |-> commands.failed \cup {commands.next},
                       phase |-> IF opts.headless THEN "run" ELSE "ask"]
      BY <2>2
    <3> QED
      BY <3>1, <3>2
  <2>3. CASE commands' = [commands EXCEPT !.phase = "error"]
    BY <1>2, <2>3 DEF RunCommand
  <2> QED
    BY <1>2, <2>1, <2>2, <2>3 DEF RunCommand
<1>3. CASE CommandsAreThrough
  BY <1>3 DEF CommandsAreThrough
<1>4. CASE ApproveCommands \/ AskWhetherToGoOn
  BY <1>4 DEF ApproveCommands, AskWhetherToGoOn, Prompted
<1> QED
  BY <1>1, <1>2, <1>3, <1>4

\* TypeOK without what a teardown changes.
OthersTyped ==
    /\ opts \in Options /\ IsCommandLine(opts) /\ daemon \in BOOLEAN
    /\ live \subseteq Resource /\ stuck \subseteq Resource
    /\ noted \subseteq Resource /\ armed \in BOOLEAN
    /\ attempt \in 1..(MaxAttempts + 1) /\ sessions \subseteq GroupSessions
    /\ output \in {"none", "part", "all"} /\ commands \in TypeOfCommands
    /\ declared \in Nat /\ warned \subseteq {"reference", "commands"}

\* A teardown of everything that is not stuck keeps its promise.
LEMMA TearDownKept ==
    ASSUME OwnInv, OthersTyped', opts' = opts,
           NEW T, T \subseteq Resource, NEW as \in {"done", "error", "need_input"}, TearDown(T, as),
           opts.keep \/ QuestionFailed' \/ (T \cap stuck' = {} /\ live' \subseteq T \cup stuck')
    PROVE  OwnInv'
<1>1. pc' = "teardown" /\ todo' = T /\ ended'.as \in Outcome
  BY DEF TearDown, Outcome
<1>2. TypeOK'
  BY <1>1 DEF OthersTyped, TypeOK
<1>3. InTeardown'
  BY <1>1 DEF InTeardown, Left, Unattended, Removable
<1> QED
  BY <1>1, <1>2, <1>3 DEF OwnInv, WhileGuarded, WhileClosed, HasStarted, WhileComposing, NotEnded,
     Guarded, Closed

\* "?" while the guard is armed; more may be stuck by then, but nothing of ours.
LEMMA GuardedErrorKept ==
    ASSUME OwnInv, pc \in Guarded \cup {"compose"}, GuardedError,
           OthersTyped', UNCHANGED <<opts, noted>>,
           noted \cap stuck' = {}, live' \subseteq live \cup stuck', stuck \subseteq stuck'
    PROVE  OwnInv'
<1>1. opts.keep \/ GuardTargets = noted
  BY DEF GuardTargets, OwnInv, WhileGuarded, WhileComposing
<1>2. live' \subseteq noted \cup stuck'
  BY DEF OwnInv, WhileGuarded, WhileComposing
<1>3. GuardTargets \subseteq Resource
  BY DEF GuardTargets, OwnInv, TypeOK
<1>4. \E as \in {"error"} : TearDown(GuardTargets, as)
  BY DEF GuardedError
<1> QED
  BY <1>1, <1>2, <1>3, <1>4, TearDownKept

\* The closures find what the guard has left to them.
LEMMA CloseKept ==
    ASSUME OwnInv, pc \in Closed \cup {"questions"},
           NEW as \in {"done", "error", "need_input"}, CloseWith(as),
           OthersTyped', UNCHANGED <<opts, live, stuck>>
    PROVE  OwnInv'
<1>1. TypeOK /\ stuck \subseteq OfAttempts
  BY DEF OwnInv, WhileGuarded, WhileClosed, Guarded
<1>2. opts.keep \/ opts.kind = "group" \/ ClosureTargets = OfTemplate
  BY DEF ClosureTargets, OfTemplate
<1>3. opts.keep \/ ClosureTargets \cap stuck = {}
  <2>1. CASE opts.kind = "group"
    BY <1>1, <2>1, OursAreNotStuck DEF ClosureTargets
  <2> QED
    BY <1>1, <1>2, <2>1, OursAreNotStuck
<1>4. opts.keep \/ live \subseteq ClosureTargets \cup stuck
  <2>1. CASE pc = "questions"
    BY <1>2, <2>1 DEF OwnInv, WhileGuarded, Guarded
  <2> QED
    BY <2>1 DEF OwnInv, WhileClosed
<1>5. ClosureTargets \subseteq Resource
  BY <1>1, TargetsAreResources DEF OwnInv, HasStarted
<1> QED
  BY <1>3, <1>4, <1>5, TearDownKept DEF CloseWith

-----------------------------------------------------------------------------
(***************************************************************************)
(* The steps.                                                              *)
(***************************************************************************)
LEMMA OthersAreTyped == OwnInv => OthersTyped
BY DEF OwnInv, TypeOK, OthersTyped

\* A step after which the run goes on.
LEMMA GoOnKept ==
    ASSUME OwnInv, OthersTyped', opts' = opts, UNCHANGED <<todo, ended>>,
           pc \notin {"teardown", "end"}, pc' \in Guarded \cup Closed \cup {"compose"},
           WhileGuarded', WhileClosed', HasStarted', WhileComposing'
    PROVE  OwnInv'
BY DEF OwnInv, TypeOK, OthersTyped, NotEnded, InTeardown, Guarded, Closed

LEMMA FirstStepsKept ==
    ASSUME OwnInv, Prepare \/ EnsureDaemon \/ ResolveAndPin PROVE OwnInv'
<1>1. /\ pc \in {"prepare", "daemon", "resolve"}
      /\ UNCHANGED <<opts, host, guard, attempt, sessions, output, declared, commands>>
      /\ daemon' \in BOOLEAN /\ warned' \subseteq {"reference", "commands"}
  BY DEF Prepare, EnsureDaemon, ResolveAndPin, OwnInv, TypeOK, Options, tree
<1>2. OthersTyped'
  BY <1>1, OthersAreTyped DEF OthersTyped, host, guard
<1>3. armed /\ noted = {} /\ stuck = {} /\ live = {}
  BY <1>1 DEF OwnInv, WhileGuarded, Guarded
<1>4. CASE GuardedError
  BY <1>1, <1>2, <1>3, <1>4, GuardedErrorKept DEF Guarded, host, guard
<1>5. CASE UNCHANGED <<todo, ended>> /\ \/ pc' \in {"daemon", "resolve"}
                                        \/ pc' = "compose" /\ opts.kind = "group"
                                        \/ pc' = "deps" /\ opts.kind # "group"
                                        \/ pc' = "blob" /\ opts.kind # "group" /\ ~opts.dev
  <2>1. pc' \in Guarded \cup {"compose"} /\ pc' \notin Closed \cup {"health", "questions", "start", "image"}
    BY <1>5 DEF Guarded, Closed
  <2>2. WhileGuarded'
    <3>1. armed' /\ noted' = {} /\ stuck' = {} /\ live' = {} /\ opts' = opts
      BY <1>1, <1>3 DEF host, guard
    <3> QED
      BY <1>5, <2>1, <3>1 DEF WhileGuarded, Guarded
  <2>3. WhileClosed' /\ HasStarted' /\ WhileComposing'
    BY <1>1, <1>3, <1>5, <2>1 DEF WhileClosed, HasStarted, WhileComposing, host, guard,
       OwnInv, TypeOK
  <2> QED
    BY <1>1, <1>2, <1>5, <2>1, <2>2, <2>3, GoOnKept
<1> QED
  BY <1>1, <1>3, <1>4, <1>5 DEF Prepare, EnsureDaemon, ResolveAndPin

LEMMA BuildStepsKept ==
    ASSUME OwnInv, BuildBlob \/ BuildImage \/ TrySetup PROVE OwnInv'
<1> USE DEF host, guard, tree
<1>1. /\ pc \in {"blob", "image", "setup"}
      /\ UNCHANGED <<opts, daemon, attempt, sessions, output, tree, commands>>
  BY DEF BuildBlob, BuildImage, TrySetup
<1>2. /\ armed /\ noted \subseteq {Image, Blob} /\ stuck = {} /\ live \subseteq noted
      /\ noted \subseteq OfTemplate /\ opts.kind # "group" /\ OthersTyped
      /\ pc # "setup" => ~opts.dev
  BY <1>1, OthersAreTyped DEF OwnInv, WhileGuarded, Guarded
<1>3. {Image, Blob, Session(0)} \subseteq Resource
  BY DEF Resource
<1>4. CASE GuardedError /\ UNCHANGED <<live, stuck, noted, armed>>
  <2>1. OthersTyped'
    BY <1>1, <1>2, <1>4 DEF OthersTyped
  <2> QED
    BY <1>1, <1>2, <1>4, <2>1, GuardedErrorKept DEF Guarded
<1>5. CASE /\ GuardedError /\ UNCHANGED <<noted, armed>>
           /\ live' = live \cup {Session(0)} /\ stuck' = stuck \cup {Session(0)}
  <2>1. OthersTyped'
    BY <1>1, <1>2, <1>3, <1>5 DEF OthersTyped
  <2>2. noted \cap stuck' = {}
    BY <1>2, <1>5, Names
  <2> QED
    BY <1>1, <1>2, <1>5, <2>1, <2>2, GuardedErrorKept DEF Guarded
<1>6. ASSUME NEW r \in {Blob, Image, Session(0)}, Make(r), UNCHANGED <<todo, ended>>,
             \/ r = Blob /\ pc = "blob" /\ pc' = "image"
             \/ r = Image /\ pc = "image" /\ pc' = "deps"
             \/ r = Session(0) /\ pc' = IF opts.dev THEN "questions" ELSE "start"
      PROVE  OwnInv'
  <2>1. live' = live \cup {r} /\ noted' = noted \cup {r} /\ UNCHANGED <<stuck, armed>>
    BY <1>6 DEF Make
  <2>2. OthersTyped'
    BY <1>1, <1>2, <1>3, <2>1 DEF OthersTyped
  <2>3. noted' \subseteq OfTemplate /\ OfTemplate' = OfTemplate
    BY <1>1, <1>2, <1>6, <2>1 DEF OfTemplate
  <2>4. pc' \in {"image", "deps", "questions", "start"}
    BY <1>6
  <2>5. WhileGuarded'
    BY <1>1, <1>2, <1>6, <2>1, <2>3, <2>4 DEF WhileGuarded
  <2>6. WhileClosed' /\ HasStarted' /\ WhileComposing'
    BY <1>1, <1>6, <2>4 DEF WhileClosed, HasStarted, WhileComposing, Closed
  <2> QED
    BY <1>1, <2>2, <2>4, <2>5, <2>6, <1>6, GoOnKept DEF Guarded
<1>7. CASE BuildBlob
  BY <1>4, <1>6, <1>7 DEF BuildBlob
<1>8. CASE BuildImage
  BY <1>4, <1>6, <1>8 DEF BuildImage
<1>9. CASE TrySetup
  BY <1>4, <1>5, <1>6, <1>9 DEF TrySetup
<1> QED
  BY <1>7, <1>8, <1>9

\* The dependencies' commands, or the template's own.
LEMMA ResolveCommandsKept == ASSUME OwnInv, ResolveCommands PROVE OwnInv'
<1>1. /\ pc = "deps" /\ pc' = "setup"
      /\ UNCHANGED <<opts, daemon, live, stuck, noted, armed, attempt, sessions, todo, output, declared, ended>>
      /\ warned' \subseteq warned \cup {"commands"} /\ \E n \in 0..declared : commands' = Idle(n)
  BY DEF ResolveCommands, CollectCommands, host, guard
<1>2. /\ armed /\ noted \subseteq {Image, Blob} /\ stuck = {} /\ live \subseteq noted
      /\ noted \subseteq OfTemplate /\ opts.kind # "group" /\ OthersTyped
  BY <1>1, OthersAreTyped DEF OwnInv, WhileGuarded, Guarded
<1>3. OthersTyped'
  BY <1>1, <1>2, CollectionTyped DEF OthersTyped
<1>4. OfTemplate' = OfTemplate /\ OfAttempts' = OfAttempts
  BY <1>1 DEF OfTemplate, OfAttempts
<1>5. WhileGuarded' /\ WhileClosed' /\ HasStarted' /\ WhileComposing'
  BY <1>1, <1>2, <1>4 DEF WhileGuarded, WhileClosed, HasStarted, WhileComposing, Closed
<1> QED
  BY <1>1, <1>3, <1>5, GoOnKept DEF Guarded

LEMMA ContainerStepsKept ==
    ASSUME OwnInv, StartContainer \/ OutOfAttempts \/ CheckHealth PROVE OwnInv'
<1> USE DEF host, guard, tree
<1>1. /\ pc \in {"start", "health"}
      /\ UNCHANGED <<opts, daemon, sessions, output, tree, commands>>
  BY DEF StartContainer, OutOfAttempts, CheckHealth
<1>2. /\ armed /\ stuck \subseteq OfAttempts /\ live \subseteq noted \cup stuck
      /\ noted \subseteq OfTemplate /\ opts.kind # "group" /\ ~opts.dev /\ OthersTyped
      /\ pc = "start" => noted \subseteq {Session(0), Image, Blob}
      /\ attempt \in 1..(MaxAttempts + 1)
  BY <1>1, OthersAreTyped DEF OwnInv, WhileGuarded, Guarded, TypeOK
<1>3. CASE GuardedError /\ UNCHANGED <<live, stuck, noted, armed, attempt>>
  <2>1. OthersTyped'
    BY <1>1, <1>2, <1>3 DEF OthersTyped
  <2>2. noted \cap stuck' = {}
    BY <1>2, <1>3, OursAreNotStuck DEF OwnInv
  <2> QED
    BY <1>1, <1>2, <1>3, <2>1, <2>2, GuardedErrorKept DEF Guarded
<1>4. CASE /\ pc = "start" /\ attempt <= MaxAttempts /\ attempt' = attempt + 1
           /\ UNCHANGED <<pc, armed, todo, ended>>
           /\ \/ UNCHANGED <<live, stuck, noted>>
              \/ /\ noted' = noted \ {Container(attempt)}
                 /\ live' = live \cup {Container(attempt)} /\ stuck' = stuck \cup {Container(attempt)}
  <2>1. Container(attempt) \in Resource /\ attempt' \in 1..(MaxAttempts + 1)
    BY <1>2, <1>4 DEF Resource
  <2>2. OthersTyped'
    BY <1>1, <1>2, <1>4, <2>1 DEF OthersTyped
  <2>3. stuck' \subseteq OfAttempts'
    BY <1>2, <1>4 DEF OfAttempts
  <2>4. noted' \subseteq {Session(0), Image, Blob} /\ live' \subseteq noted' \cup stuck'
        /\ noted' \subseteq OfTemplate'
    BY <1>1, <1>2, <1>4 DEF OfTemplate
  <2>5. WhileGuarded' /\ WhileClosed' /\ HasStarted' /\ WhileComposing'
    BY <1>1, <1>2, <1>4, <2>3, <2>4 DEF WhileGuarded, WhileClosed, HasStarted, WhileComposing, Closed
  <2> QED
    BY <1>1, <1>4, <2>2, <2>5, GoOnKept DEF Guarded
<1>5. CASE /\ pc = "start" /\ attempt <= MaxAttempts /\ pc' = "health" /\ Make(Container(attempt))
           /\ UNCHANGED <<attempt, todo, ended>>
  <2>1. Container(attempt) \in Resource /\ Container(attempt) \in OfTemplate
    BY <1>2, <1>5 DEF Resource, OfTemplate
  <2>2. live' = live \cup {Container(attempt)} /\ noted' = noted \cup {Container(attempt)}
        /\ UNCHANGED <<stuck, armed>>
    BY <1>5 DEF Make
  <2>3. OthersTyped'
    BY <1>1, <1>2, <1>5, <2>1, <2>2 DEF OthersTyped
  <2>4. OfTemplate' = OfTemplate /\ OfAttempts' = OfAttempts
    BY <1>1, <1>5 DEF OfTemplate, OfAttempts
  <2>5. WhileGuarded' /\ WhileClosed' /\ HasStarted' /\ WhileComposing'
    BY <1>1, <1>2, <1>5, <2>1, <2>2, <2>4
       DEF WhileGuarded, WhileClosed, HasStarted, WhileComposing, Closed
  <2> QED
    BY <1>1, <1>5, <2>3, <2>5, GoOnKept DEF Guarded
<1>6. CASE /\ pc = "health" /\ pc' = "questions"
           /\ UNCHANGED <<live, stuck, noted, armed, attempt, todo, ended>>
  <2>1. OthersTyped'
    BY <1>1, <1>2, <1>6 DEF OthersTyped
  <2>2. WhileGuarded' /\ WhileClosed' /\ HasStarted' /\ WhileComposing'
    BY <1>1, <1>2, <1>6 DEF OwnInv, WhileGuarded, WhileClosed, HasStarted, WhileComposing, Closed,
       OfTemplate, OfAttempts
  <2> QED
    BY <1>1, <1>6, <2>1, <2>2, GoOnKept DEF Guarded
<1>7. CASE StartContainer
  BY <1>4, <1>5, <1>7 DEF StartContainer, NextAttempt
<1>8. CASE OutOfAttempts \/ CheckHealth
  BY <1>3, <1>6, <1>8 DEF OutOfAttempts, CheckHealth
<1> QED
  BY <1>7, <1>8

LEMMA QuestionsKept == ASSUME OwnInv, AskHeadless \/ AskInteractive PROVE OwnInv'
<1> USE DEF host, guard, tree
<1>1. /\ pc = "questions" /\ armed' = FALSE
      /\ UNCHANGED <<opts, daemon, live, stuck, noted, attempt, sessions, output, tree, commands>>
  BY DEF AskHeadless, AskInteractive
<1>2. /\ stuck \subseteq OfAttempts /\ live \subseteq noted \cup stuck
      /\ noted \subseteq OfTemplate /\ opts.kind # "group" /\ OthersTyped
      /\ attempt <= MaxAttempts \/ opts.dev
  BY <1>1, OthersAreTyped DEF OwnInv, WhileGuarded, HasStarted, Guarded
<1>3. OthersTyped'
  BY <1>1, <1>2 DEF OthersTyped
<1>4. CASE pc' = "warm" /\ UNCHANGED <<todo, ended>>
  <2>1. opts.keep \/ ClosureTargets' = OfTemplate
    BY <1>1, <1>2 DEF ClosureTargets, OfTemplate
  <2>2. WhileGuarded' /\ WhileClosed' /\ HasStarted' /\ WhileComposing'
    BY <1>1, <1>2, <1>4, <2>1 DEF WhileGuarded, WhileClosed, HasStarted, WhileComposing, Guarded, OfAttempts
  <2> QED
    BY <1>1, <1>3, <1>4, <2>2, GoOnKept DEF Closed
<1>5. ASSUME NEW as \in {"need_input", "error"}, CloseWith(as) PROVE OwnInv'
  BY <1>1, <1>3, <1>5, CloseKept
<1>6. CASE InteractiveError /\ ~opts.headless
  <2>1. TearDown({}, "error") /\ QuestionFailed'
    BY <1>1, <1>6 DEF InteractiveError, TearDown, QuestionFailed
  <2> QED
    BY <1>1, <1>3, <2>1, TearDownKept
<1>7. CASE pc' = "end" /\ ended' = [as |-> "left", at |-> pc] /\ UNCHANGED todo
  <2>1. TypeOK'
    BY <1>3, <1>7 DEF OthersTyped, OwnInv, TypeOK, Outcome
  <2> QED
    BY <1>3, <1>7, <2>1 DEF OthersTyped, OwnInv, InTeardown, Left, Unattended, WhileGuarded,
       WhileClosed, HasStarted, WhileComposing, NotEnded, Guarded, Closed
<1> QED
  BY <1>4, <1>5, <1>6, <1>7 DEF AskHeadless, AskInteractive

LEMMA ComposeKept == ASSUME OwnInv, Compose PROVE OwnInv'
<1> USE DEF host, guard, tree
<1>1. /\ pc = "compose" /\ UNCHANGED <<opts, daemon, stuck, noted, armed, attempt, output, tree>>
      /\ opts.kind = "group" /\ live = {} /\ stuck = {} /\ noted = {} /\ OthersTyped
  BY OthersAreTyped DEF Compose, OwnInv, WhileComposing
<1>2. CASE GuardedError /\ UNCHANGED <<live, sessions, commands>>
  <2>1. OthersTyped'
    BY <1>1, <1>2 DEF OthersTyped
  <2> QED
    BY <1>1, <1>2, <2>1, GuardedErrorKept
<1>3. ASSUME sessions' \in SUBSET GroupSessions, NEW n \in 0..declared, commands' = Idle(n),
             live' = live \cup {Session(m) : m \in sessions'},
             \/ pc' = "write" /\ UNCHANGED <<todo, ended>>
             \/ TearDown({Session(m) : m \in sessions'}, "need_input")
      PROVE  OwnInv'
  <2> DEFINE T == {Session(m) : m \in sessions'}
  <2>1. T \subseteq Resource /\ live' = T
    BY <1>1, <1>3 DEF Resource
  <2>2. OthersTyped'
    BY <1>1, <1>3, <2>1, CollectionTyped DEF OthersTyped
  <2>3. CASE pc' = "write" /\ UNCHANGED <<todo, ended>>
    <3>1. ClosureTargets' = T
      BY <1>1 DEF ClosureTargets
    <3>2. WhileGuarded' /\ WhileClosed' /\ HasStarted' /\ WhileComposing'
      BY <1>1, <2>1, <2>3, <3>1 DEF WhileGuarded, WhileClosed, HasStarted, WhileComposing, Guarded
    <3> QED
      BY <1>1, <2>2, <2>3, <3>2, GoOnKept DEF Closed
  <2>4. CASE TearDown(T, "need_input")
    <3>1. T \cap stuck' = {} /\ live' \subseteq T \cup stuck'
      BY <1>1, <2>1
    <3> HIDE DEF T
    <3> QED
      BY <1>1, <2>1, <2>2, <2>4, <3>1, TearDownKept
  <2> QED
    BY <1>3, <2>3, <2>4
<1> QED
  BY <1>2, <1>3 DEF Compose

\* From one step behind the questions to the next, or to the closures.
LEMMA StepOrCloseKept ==
    ASSUME OwnInv, NEW from \in Closed, NEW to \in Closed, StepOrClose(from, to),
           output' \in {"none", "part", "all"}
    PROVE  OwnInv'
<1> USE DEF host, guard, tree
<1>1. /\ pc \in Closed /\ OthersTyped'
      /\ UNCHANGED <<opts, daemon, live, stuck, noted, armed, attempt, sessions, commands>>
  BY OthersAreTyped DEF StepOrClose, OthersTyped
<1>2. CASE pc' = to /\ UNCHANGED <<todo, ended>>
  <2>1. WhileGuarded' /\ WhileClosed' /\ HasStarted' /\ WhileComposing'
    BY <1>1, <1>2 DEF OwnInv, WhileGuarded, WhileClosed, HasStarted, WhileComposing, Guarded, Closed,
       OfAttempts, ClosureTargets
  <2> QED
    BY <1>1, <1>2, <2>1, GoOnKept DEF Closed
<1>3. CASE CloseWith("error")
  BY <1>1, <1>3, CloseKept
<1> QED
  BY <1>2, <1>3 DEF StepOrClose

LEMMA ClosedStepsKept ==
    ASSUME OwnInv, WarmExecutor \/ Bootstrap \/ ExecuteAndUnpack \/ WriteGroup PROVE OwnInv'
<1>1. output' \in {"none", "part", "all"}
  BY DEF OwnInv, TypeOK, WarmExecutor, Bootstrap, ExecuteAndUnpack, WriteGroup
<1> QED
  BY <1>1, StepOrCloseKept DEF WarmExecutor, Bootstrap, ExecuteAndUnpack, WriteGroup, Closed

LEMMA CommandStepsKept == ASSUME OwnInv, Command \/ Consent PROVE OwnInv'
<1>1. /\ UNCHANGED <<opts, pc, daemon, host, guard, attempt, sessions, todo, output, tree, ended>>
      /\ commands' \in TypeOfCommands
  BY CommandsTyped DEF Command, Consent, OwnInv, TypeOK
<1> QED
  BY <1>1 DEF OwnInv, TypeOK, WhileGuarded, WhileClosed, HasStarted, WhileComposing, InTeardown,
     NotEnded, Left, Unattended, QuestionFailed, Removable, OfTemplate, OfAttempts, ClosureTargets,
     host, guard, tree

LEMMA FinishKept == ASSUME OwnInv, Finish PROVE OwnInv'
<1>1. pc \in Closed /\ UNCHANGED <<opts, live, stuck>> /\ OthersTyped'
      /\ \E as \in {"done", "error"} : CloseWith(as)
  BY OthersAreTyped DEF Finish, Closed, OthersTyped, host, guard, tree
<1> QED
  BY <1>1, CloseKept

LEMMA KillKept == ASSUME OwnInv, Kill PROVE OwnInv'
<1>1. TypeOK'
  BY DEF Kill, OwnInv, TypeOK, Outcome, host, guard, tree
<1> QED
  BY <1>1 DEF Kill, OwnInv, InTeardown, Left, Unattended, WhileGuarded, WhileClosed, HasStarted,
     WhileComposing, NotEnded, Guarded, Closed

\* An image that is in use by the time it is its turn is in use by a container
\* that is stuck: the others were removed before.
LEMMA RemoveKept == ASSUME OwnInv, Remove PROVE OwnInv'
<1> USE DEF host
<1>1. pc = "teardown" /\ UNCHANGED <<opts, pc, daemon, guard, attempt, sessions, output, tree, ended, commands>>
  BY DEF Remove
<1>2. PICK r \in todo :
        /\ IsNext(r, todo) /\ todo' = todo \ {r}
        /\ \/ ~InUse(r) /\ live' = live \ {r} /\ UNCHANGED stuck
           \/ r \in live /\ stuck' = stuck \cup {r} /\ UNCHANGED live
           \/ InUse(r) /\ UNCHANGED <<live, stuck>>
  BY DEF Remove
<1>3. TypeOK'
  BY <1>1, <1>2 DEF OwnInv, TypeOK, guard, tree
<1>4. InTeardown'
  <2> SUFFICES ASSUME ~Left' PROVE todo' \cap stuck' = {} /\ Removable' \subseteq todo'
    BY <1>1 DEF InTeardown
  <2>1. todo \cap stuck = {} /\ Removable \subseteq todo
    BY <1>1 DEF OwnInv, InTeardown, Left, Unattended, QuestionFailed
  <2>2. CASE ~InUse(r) /\ live' = live \ {r} /\ UNCHANGED stuck
    BY <1>2, <2>1, <2>2 DEF Removable
  <2>3. CASE r \in live /\ stuck' = stuck \cup {r} /\ UNCHANGED live
    BY <1>2, <2>1, <2>3 DEF Removable
  <2>4. CASE InUse(r) /\ UNCHANGED <<live, stuck>>
    <3>1. PICK n \in 1..MaxAttempts : Container(n) \in live
      BY <2>4 DEF InUse
    <3>2. r = Image /\ Container(n) \notin todo
      BY <1>2, <2>4, Ranks DEF InUse, IsNext
    <3>3. Container(n) \in live \cap stuck
      BY <2>1, <3>1, <3>2, Names DEF Removable
    <3>4. Image \notin Removable'
      BY <2>4, <3>3 DEF Removable
    <3> QED
      BY <1>2, <2>1, <2>4, <3>2, <3>4 DEF Removable
  <2> QED
    BY <1>2, <2>2, <2>3, <2>4
<1> QED
  BY <1>1, <1>3, <1>4 DEF OwnInv, WhileGuarded, WhileClosed, HasStarted, WhileComposing, NotEnded,
     Guarded, Closed

LEMMA EndKept == ASSUME OwnInv, End PROVE OwnInv'
<1>1. TypeOK'
  BY DEF End, OwnInv, TypeOK, host, guard, tree
<1> QED
  BY <1>1 DEF End, OwnInv, InTeardown, Left, Unattended, QuestionFailed, Removable, WhileGuarded,
     WhileClosed, HasStarted, WhileComposing, NotEnded, Guarded, Closed, host, guard, tree

LEMMA OwnInvKept == OwnInv /\ [Next]_vars => OwnInv'
<1> SUFFICES ASSUME OwnInv, [Next]_vars PROVE OwnInv'
  OBVIOUS
<1>1. CASE UNCHANGED vars
  BY <1>1 DEF vars, OwnInv, TypeOK, WhileGuarded, WhileClosed, HasStarted, WhileComposing, InTeardown,
     NotEnded, Left, Unattended, QuestionFailed, Removable, OfTemplate, OfAttempts, ClosureTargets,
     host, guard, tree
<1>2. CASE Automatic
  BY <1>2, FirstStepsKept, BuildStepsKept, ResolveCommandsKept, ContainerStepsKept, QuestionsKept, ComposeKept,
     ClosedStepsKept, CommandStepsKept, FinishKept, RemoveKept, EndKept DEF Automatic
<1>3. CASE AskInteractive \/ Consent \/ Kill
  BY <1>3, QuestionsKept, CommandStepsKept, KillKept
<1> QED
  BY <1>1, <1>2, <1>3 DEF Next, Terminated

\* What the commands have come to, and where the output is.
LEMMA CommandsInvKept == OwnInv /\ CommandsInv /\ [Next]_vars => CommandsInv'
<1> SUFFICES ASSUME OwnInv, CommandsInv, [Next]_vars PROVE CommandsInv'
  OBVIOUS
<1>1. commands \in TypeOfCommands /\ NotEnded
  BY DEF OwnInv, TypeOK
<1>2. CASE Command \/ Consent
  <2>1. (commands.phase = "idle" => commands.next = 1) /\ commands.phase # "ok"
    BY <1>2 DEF CommandsInv, Command, Consent, StartCommands, RunCommand, CommandsAreThrough,
       ApproveCommands, AskWhetherToGoOn
  <2>2. /\ commands'.phase = "idle" => commands'.next = 1
        /\ commands'.phase = "ok" => commands'.next > commands'.total
        /\ commands'.total = commands.total
    BY <1>1, <1>2, <2>1, CommandsTyped DEF Command, Consent
  <2>3. UNCHANGED <<pc, output, declared, warned, ended>> /\ pc = "commands"
    BY <1>2 DEF Command, Consent, tree
  <2> QED
    BY <1>1, <2>2, <2>3 DEF CommandsInv, DoneIsDelivered, NotEnded, Running
<1>3. CASE Finish
  <2>1. /\ pc = "commands" /\ pc' = "teardown" /\ UNCHANGED <<opts, output, declared, warned, commands>>
        /\ ended'.as = "done" => CommandsEnded /\ ~CommandsFailed(opts.headless)
    BY <1>3 DEF Finish, CloseWith, TearDown, tree
  <2> QED
    BY <2>1 DEF CommandsInv, DoneIsDelivered, CommandsEnded, CommandsFailed, Collected, Closed
<1>4. ASSUME ~Command, ~Consent, ~Finish PROVE CommandsInv'
  <2>1. /\ UNCHANGED opts
        /\ UNCHANGED ended \/ ended'.as # "done"
        /\ pc' = "commands" => output' = "all"
        /\ output' = output \/ pc \in Closed
    BY <1>4 DEF Next, vars, Automatic, Terminated, Prepare, EnsureDaemon, ResolveAndPin, BuildBlob,
       BuildImage, ResolveCommands, TrySetup, StartContainer, OutOfAttempts, CheckHealth, AskHeadless,
       AskInteractive, WarmExecutor, Bootstrap, ExecuteAndUnpack, StepOrClose, Compose, WriteGroup,
       Remove, End, Kill, GuardedError, CloseWith, InteractiveError, TearDown, Closed, CommandsInv
  <2>2. CASE ResolveAndPin \/ ResolveCommands \/ Compose
    <3>1. pc \in {"resolve", "deps", "compose"} /\ declared' = declared
      BY <2>2 DEF ResolveAndPin, ResolveCommands, Compose, tree
    <3>2. \/ UNCHANGED commands /\ pc' \notin Collected
          \/ \E n \in 0..declared : (warned' = {} => n = declared) /\ commands' = Idle(n)
      BY <2>2 DEF ResolveAndPin, ResolveCommands, CollectCommands, Compose, GuardedError, TearDown,
         Collected, Closed, tree
    <3>3. /\ pc' \in Collected /\ warned' = {} => commands'.total = declared'
          /\ commands'.phase = "idle" => commands'.next = 1
          /\ commands'.phase = "ok" => commands'.next > commands'.total
      <4>1. CASE UNCHANGED commands /\ pc' \notin Collected
        BY <4>1 DEF CommandsInv
      <4> QED
        BY <3>1, <3>2, <4>1 DEF Idle
    <3>4. ended.as # "done"
      BY <1>1, <3>1 DEF NotEnded, Running
    <3> QED
      BY <2>1, <3>3, <3>4 DEF CommandsInv, DoneIsDelivered
  <2>3. ASSUME ~ResolveAndPin, ~ResolveCommands, ~Compose PROVE CommandsInv'
    <3>1. UNCHANGED <<declared, warned, commands>> /\ (pc' \in Collected => pc \in Collected)
      BY <1>4, <2>3 DEF Next, vars, Automatic, Terminated, Prepare, EnsureDaemon, BuildBlob, BuildImage,
         TrySetup, StartContainer, OutOfAttempts, CheckHealth, AskHeadless, AskInteractive, WarmExecutor,
         Bootstrap, ExecuteAndUnpack, StepOrClose, WriteGroup, Remove, End, Kill, GuardedError,
         CloseWith, InteractiveError, TearDown, Collected, Closed, tree
    <3> QED
      BY <1>1, <2>1, <3>1 DEF CommandsInv, DoneIsDelivered, NotEnded, Running, Closed
  <2> QED
    BY <2>2, <2>3
<1> QED
  BY <1>2, <1>3, <1>4

-----------------------------------------------------------------------------
(***************************************************************************)
(* The theorems.                                                           *)
(***************************************************************************)
THEOREM OwnInvariant == Spec => [](OwnInv /\ CommandsInv)
<1>1. OwnInv /\ CommandsInv /\ [Next]_vars => (OwnInv /\ CommandsInv)'
  BY OwnInvKept, CommandsInvKept
<1> QED
  BY TryInitially, <1>1, PTL DEF Spec

\* Every variable has its type.
THEOREM TryTypeCorrect == Spec => []TypeOK
<1>1. OwnInv => TypeOK
  BY DEF OwnInv
<1> QED
  BY OwnInvariant, <1>1, PTL

\* Each resource has an owner who removes it: the guard until the questions, the
\* closures from then on, the teardown in the end.
THEOREM EverythingIsOwnedAlways == Spec => []EverythingIsOwned
<1>1. OwnInv => EverythingIsOwned
  <2> SUFFICES ASSUME OwnInv, ~Unattended, ~QuestionFailed PROVE Removable \subseteq Owned
    BY DEF EverythingIsOwned
  <2>1. CASE pc \in Guarded
    <3>1. armed /\ live \subseteq noted \cup stuck /\ (opts.kind = "group" => live = {})
      BY <2>1 DEF OwnInv, WhileGuarded, Guarded
    <3>2. opts.kind = "template" => Owned = noted
      BY <2>1, <3>1 DEF Owned, Guarded
    <3> QED
      BY <3>1, <3>2 DEF Removable, OwnInv, TypeOK, Options
  <2>2. CASE pc \in Closed
    BY <2>2 DEF OwnInv, TypeOK, Options, WhileClosed, Closed, Removable, Owned, Unattended
  <2>3. CASE pc = "compose"
    BY <2>3 DEF OwnInv, WhileComposing, Removable
  <2>4. CASE pc \in {"teardown", "end"}
    BY <2>4 DEF OwnInv, InTeardown, Left, Removable, Owned
  <2> QED
    BY <2>1, <2>2, <2>3, <2>4 DEF OwnInv, TypeOK, Guarded, Closed
<1> QED
  BY OwnInvariant, <1>1, PTL

\* A run that reports done has written all of its output and has come to the end
\* of its commands; those of its dependencies are among them, or it has warned.
THEOREM DoneIsDeliveredAlways == Spec => []DoneIsDelivered
<1>1. CommandsInv => DoneIsDelivered
  BY DEF CommandsInv
<1> QED
  BY OwnInvariant, <1>1, PTL
=============================================================================
