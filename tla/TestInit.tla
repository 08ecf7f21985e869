------------------------------ MODULE TestInit ------------------------------
(***************************************************************************)
(* "cyanprint test init" (src/cyanprint/src/test_cmd/init.rs): it moves    *)
(* the test configuration and the snapshots of a template aside, starts    *)
(* the template in a container, walks its tree of questions depth first,   *)
(* once to discover the questions and once to generate a test for every    *)
(* combination of answers, writes the new configuration, removes the       *)
(* container and its images, and runs the tests to make their snapshots.   *)
(*                                                                         *)
(* The template is seen as in QuestionWalk, but what it offers and what it *)
(* asks next may depend on the answer to its first question as well.  Both *)
(* artefacts are what the user had (mine), what a run has generated (made) *)
(* or some of either (part).                                               *)
(***************************************************************************)
EXTENDS Naturals, Sequences, FiniteSets, SequencesExt

CONSTANTS
    Question, Value, None, End,
    First,      \* the template's first question
    Follow,     \* Follow[<<q, v, w>>]: what follows q = v, once First = w
    Offer,      \* Offer[<<q, w>>]: the values q has when First = w, in their order
    Kind,       \* the kind of each question
    Typed,      \* Typed[q]: values or combinations a user may enter for it
    PieceOf,    \* PieceOf[v]: what is left of v's label in the name of a test
    MaxPieces,  \* pieces that fit into a name
    Caps,       \* values of --max-combinations
    Models,     \* "first", "sequence" (see QuestionWalk), or "stuck"
    MaxDepth,   \* depth of the recursion at which the stack overflows
    MaxRuns,    \* times the command is run
    MaxWalks    \* how many of them find the template healthy

Context == Value \cup {None}
Answers == [Question -> Context]
Branches == Seq(Value)
Kinds == {"text", "password", "date", "checkbox", "select", "confirm"}

ASSUME FiniteAssumption == IsFiniteSet(Question) /\ IsFiniteSet(Value)
ASSUME TemplateAssumption ==
    /\ First \in Question /\ None \notin Value /\ End \notin Question
    /\ Follow \in [Question \X Value \X Context -> Question \cup {End}]
    /\ Offer \in [Question \X Context -> Branches]
    /\ Kind \in [Question -> Kinds]
    /\ Typed \in [Question -> SUBSET Value]
    /\ Models \subseteq {"first", "sequence", "stuck"}
\* A sanitized label has no dots; "A 1" reads a-1, the stem a with the tail 1.
ASSUME PieceAssumption == PieceOf \in [Value -> [stem : STRING \ {"..."}, tail : Seq(Nat)]]
ASSUME LimitAssumption ==
    /\ MaxPieces \in Nat \ {0, 1} /\ MaxDepth \in Nat \ {0} /\ MaxRuns \in Nat /\ MaxWalks \in Nat
    /\ Caps \subseteq Nat

VARIABLES
    \* the directory of the template
    config, fixtures,  \* test.cyan.yaml and fixtures/expected
    backups,           \* the backup directories, by their time stamp
    \* Docker
    container, images,
    \* the command
    pc, attempt, failed, outcome,
    saved,             \* whether there is a backup to ask about
    model, interactive, cap,
    path,       \* the exploration state to prompt with next
    stack,      \* the calls of the recursion that are under way
    discovered, \* the questions in the order of their discovery
    kept,       \* branch_config
    tests, usedNames,
    \* history variables
    had,        \* what existed before the first run
    consent,    \* the user has had a backup deleted
    leak,       \* why the container was left
    quick,      \* the second of the last backup directory may not be over
    runs, walks

disk   == <<config, fixtures, backups>>
docker == <<container, images>>
walk   == <<path, stack, discovered, kept, tests, usedNames>>
setup  == <<model, interactive, cap>>
past   == <<had, consent, leak, quick, runs, walks>>
vars   == <<disk, docker, pc, attempt, failed, outcome, saved, setup, walk, past>>

Artefact == {"none", "mine", "part", "made"}

-----------------------------------------------------------------------------
(***************************************************************************)
(* The template behind repo.prompt_template.                               *)
(***************************************************************************)
Nothing == [q \in Question |-> None]

\* What is asked after q, if q is in S and answered.
Onward(a, S, q) ==
    IF q # End /\ a[q] # None /\ q \in S THEN Follow[<<q, a[q], a[First]>>] ELSE q

\* The question reached after n steps.
Position(a, S) ==
    LET at[n \in 0..Cardinality(Question)] == IF n = 0 THEN First ELSE Onward(a, S, at[n - 1])
    IN  at

\* What it replies to the answers a and the deterministic state d: `first`
\* looks at the answers only, `sequence` asks each question once, `stuck`
\* never gets any further.
PromptTemplate(a, d) ==
    CASE model = "first"    -> Position(a, Question)[Cardinality(Question)]
      [] model = "sequence" -> Position(a, d)[Cardinality(Question)]
      [] model = "stuck"    -> First

-----------------------------------------------------------------------------
(***************************************************************************)
(* Names of tests: the labels of the path, sanitized and in lower case.    *)
(***************************************************************************)
Ellipsis == [stem |-> "...", tail |-> <<>>]

\* truncated_with_ellipsis.
Truncated(name, room) ==
    IF Len(name) <= room THEN name ELSE Append(SubSeq(name, 1, room - 1), Ellipsis)

FullName(labels) ==
    IF labels = <<>> THEN <<[stem |-> "test", tail |-> <<Len(tests)>>]>>
    ELSE [i \in DOMAIN labels |-> PieceOf[labels[i]]]

BaseName(labels) == Truncated(FullName(labels), MaxPieces)

\* "c" with the suffix 1 reads as the piece of "C-1" does.
WithSuffix(name, n) == [name EXCEPT ![Len(name)].tail = Append(@, n)]

TimesUsed(base) == IF base \in DOMAIN usedNames THEN usedNames[base] ELSE 0

\* Mutant: a name that is taken is used again.
NameAgain(labels) == BaseName(labels)

\* Names are counted as they are without a number, for which a long one makes room.
GenerateTestName(labels) ==
    LET count == TimesUsed(BaseName(labels))
    IN IF count = 0 THEN BaseName(labels)
       ELSE WithSuffix(Truncated(FullName(labels), MaxPieces - 1), count)

-----------------------------------------------------------------------------
NoPath == [answers |-> Nothing, labels |-> <<>>, det |-> {}, live |-> FALSE]
Root == [NoPath EXCEPT !.live = TRUE]

ResetWalk ==
    /\ path' = NoPath /\ stack' = <<>> /\ discovered' = <<>>
    /\ kept' = [q \in {} |-> <<>>]
    /\ tests' = <<>> /\ usedNames' = [n \in {} |-> 0]

Init ==
    /\ had \in [config : BOOLEAN, fixtures : BOOLEAN]
    /\ config = IF had.config THEN "mine" ELSE "none"
    /\ fixtures = IF had.fixtures THEN "mine" ELSE "none"
    /\ backups = <<>>
    /\ container = "none" /\ images = {}
    /\ pc = "idle" /\ attempt = 0 /\ failed = FALSE /\ outcome = "none" /\ saved = FALSE
    /\ model \in Models /\ interactive = FALSE /\ cap = 0
    /\ path = NoPath /\ stack = <<>> /\ discovered = <<>>
    /\ kept = [q \in {} |-> <<>>]
    /\ tests = <<>> /\ usedNames = [n \in {} |-> 0]
    /\ consent = FALSE /\ leak = "no" /\ quick = FALSE /\ runs = 0 /\ walks = 0

\* run_init begins.  The stamp of its backup has the precision of a second,
\* which a run that has started a container outlasts.
RunInit ==
    /\ pc = "idle" /\ runs < MaxRuns
    /\ runs' = runs + 1
    /\ pc' = IF config = "none" /\ fixtures = "none" THEN "images" ELSE "stamp"
    /\ attempt' = 0 /\ failed' = FALSE /\ outcome' = "running"
    /\ saved' = ~(config = "none" /\ fixtures = "none")
    /\ interactive' \in BOOLEAN /\ cap' \in Caps
    /\ container' = "none" /\ images' = {} /\ leak' = "no"
    /\ ResetWalk
    /\ UNCHANGED <<disk, model, had, consent, quick, walks>>

Return(result) == pc' = "end" /\ outcome' = result

-----------------------------------------------------------------------------
(***************************************************************************)
(* backup_existing_artifacts.                                              *)
(***************************************************************************)
command == <<attempt, failed, saved, setup, walk>>

Current == Len(backups)
Empty == [config |-> "none", fixtures |-> "none"]

\* create_dir_all also takes a directory that exists.
MakeBackupDir ==
    /\ pc = "stamp"
    /\ \/ /\ backups' = Append(backups, Empty) /\ quick' = TRUE
          /\ pc' = "copyConfig" /\ UNCHANGED outcome
       \/ /\ quick /\ UNCHANGED <<backups, quick>>
          /\ pc' = "copyConfig" /\ UNCHANGED outcome
       \/ Return("error") /\ UNCHANGED <<backups, quick>>
    /\ UNCHANGED <<config, fixtures, docker, command, had, consent, leak, runs, walks>>

\* Mutant: an error of the copy is ignored.
CopyConfigLoosely ==
    /\ pc = "copyConfig"
    /\ pc' = "copyFixtures"
    /\ \E copy \in {config, "part"} : backups' = [backups EXCEPT ![Current].config = copy]
    /\ UNCHANGED <<config, fixtures, docker, command, past, outcome>>

CopyConfig ==
    /\ pc = "copyConfig"
    /\ \/ /\ config = "none"
          /\ pc' = "copyFixtures" /\ UNCHANGED <<outcome, backups>>
       \/ /\ config # "none"
          /\ backups' = [backups EXCEPT ![Current].config = config]
          /\ pc' = "copyFixtures" /\ UNCHANGED outcome
       \/ /\ config # "none"
          /\ Return("error")
          /\ backups' = [backups EXCEPT ![Current].config = "part"]
    /\ UNCHANGED <<config, fixtures, docker, command, past>>

\* What a directory holds after another has been copied into it: copies of
\* some of its own files change nothing.
Copied(onto, from) == IF from = "part" /\ onto # "none" THEN onto ELSE from

CopyFixtures ==
    /\ pc = "copyFixtures"
    /\ \/ /\ fixtures = "none"
          /\ pc' = "rmConfig" /\ UNCHANGED <<outcome, backups>>
       \/ /\ fixtures # "none"
          /\ backups' = [backups EXCEPT ![Current].fixtures = Copied(@, fixtures)]
          /\ pc' = "rmConfig" /\ UNCHANGED outcome
       \/ /\ fixtures # "none"
          /\ Return("error")
          /\ backups' = [backups EXCEPT ![Current].fixtures = Copied(@, "part")]
    /\ UNCHANGED <<config, fixtures, docker, command, past>>

RemoveConfig ==
    /\ pc = "rmConfig"
    /\ \/ config' = "none" /\ pc' = "rmFixtures" /\ UNCHANGED outcome
       \/ config # "none" /\ Return("error") /\ UNCHANGED config
    /\ UNCHANGED <<fixtures, backups, docker, command, past>>

\* remove_dir_all may fail half-way.
RemoveFixtures ==
    /\ pc = "rmFixtures"
    /\ \/ fixtures' = "none" /\ pc' = "images" /\ UNCHANGED outcome
       \/ fixtures # "none" /\ Return("error") /\ fixtures' \in {fixtures, "part"}
    /\ UNCHANGED <<config, backups, docker, command, past>>

-----------------------------------------------------------------------------
(***************************************************************************)
(* qa_warmup: its errors return without cleaning.                          *)
(***************************************************************************)
\* Reading the configuration, the checks, the daemon, and both images.
BuildImages ==
    /\ pc = "images"
    /\ \/ images' = {"blob", "template"} /\ pc' = "start" /\ UNCHANGED outcome
       \/ images' \in {{}, {"blob"}} /\ Return("error")
    /\ UNCHANGED <<disk, container, command, past>>

Attempts == 3

\* Mutant: the attempts are counted from the beginning after the last.
StartContainerForever ==
    /\ pc = "start" /\ attempt < Attempts
    /\ \/ attempt' = (attempt + 1) % Attempts /\ UNCHANGED <<container, pc, quick>>
       \/ attempt' = 0 /\ container' = "running" /\ pc' = "health" /\ quick' = FALSE
    /\ UNCHANGED <<disk, images, failed, outcome, saved, setup, walk, had, consent, leak, runs, walks>>

\* No free port, or a container that does not start and is removed; or one
\* that runs.
StartContainer ==
    /\ pc = "start" /\ attempt < Attempts
    /\ \/ attempt' = attempt + 1 /\ UNCHANGED <<container, pc, quick>>
       \/ attempt' = 0 /\ container' = "running" /\ pc' = "health" /\ quick' = FALSE
    /\ UNCHANGED <<disk, images, failed, outcome, saved, setup, walk, had, consent, leak, runs, walks>>

OutOfAttempts ==
    /\ pc = "start" /\ attempt = Attempts
    /\ Return("error")
    /\ UNCHANGED <<disk, docker, command, past>>

CheckHealth ==
    /\ pc = "health"
    /\ \/ /\ walks < MaxWalks /\ walks' = walks + 1
          /\ pc' = "mkdir"
          /\ UNCHANGED <<outcome, leak>>
       \/ Return("error") /\ leak' = "health" /\ UNCHANGED walks
    /\ UNCHANGED <<disk, docker, command, had, consent, quick, runs>>

-----------------------------------------------------------------------------
(***************************************************************************)
(* walk_and_write_config.  Its errors end the walk and are returned after  *)
(* the cleanup.                                                            *)
(***************************************************************************)
static == <<docker, attempt, saved, setup, past, outcome>>

Fail == failed' = TRUE /\ pc' = "clean"

CreateFixtures ==
    /\ pc = "mkdir"
    /\ \/ /\ fixtures' = IF fixtures = "none" THEN "part" ELSE fixtures
          /\ pc' = "discover" /\ path' = Root
          /\ UNCHANGED failed
       \/ Fail /\ UNCHANGED <<fixtures, path>>
    /\ UNCHANGED <<config, backups, static, stack, discovered, kept, tests, usedNames>>

Recursing == Len(stack) < MaxDepth
Reply == PromptTemplate(path.answers, path.det)
GetAnswerBranches(q) == Offer[<<q, path.answers[First]>>]

\* A call is entered: the answers behind it, its question and the branches
\* it has still to follow.
Call(q, branches) ==
    /\ stack' = Append(stack, [from |-> [path EXCEPT !.det = @ \cup {q}], q |-> q, todo |-> branches])
    /\ path' = NoPath

AddAnswer(from, q, v) ==
    [from EXCEPT !.answers[q] = v, !.labels = Append(@, v)]

\* The next branch of the innermost call, or its end.
FollowBranch(more) ==
    LET top == Last(stack)
    IN IF top.todo = <<>> \/ ~more
         THEN stack' = Front(stack) /\ UNCHANGED path
         ELSE /\ path' = AddAnswer(top.from, top.q, Head(top.todo))
              /\ stack' = [stack EXCEPT ![Len(stack)].todo = Tail(@)]

Seen == {discovered[i].q : i \in DOMAIN discovered}

\* discovery_dfs: a question that has been seen is followed along its first
\* branch only.
Discover ==
    /\ pc = "discover" /\ path.live /\ Recursing
    /\ \/ /\ Reply = End
          /\ path' = NoPath
          /\ UNCHANGED <<stack, discovered, pc, failed>>
       \/ /\ Reply # End
          /\ LET branches == GetAnswerBranches(Reply)
             IN IF Reply \in Seen
                  THEN /\ Call(Reply, IF branches = <<>> THEN <<>> ELSE <<Head(branches)>>)
                       /\ UNCHANGED discovered
                  ELSE /\ Call(Reply, branches)
                       /\ discovered' = Append(discovered, [q |-> Reply, branches |-> branches])
          /\ UNCHANGED <<pc, failed>>
       \/ Fail /\ UNCHANGED <<path, stack, discovered>>
    /\ UNCHANGED <<disk, static, kept, tests, usedNames>>

DiscoverNext ==
    /\ pc = "discover" /\ ~path.live /\ stack # <<>>
    /\ FollowBranch(TRUE)
    /\ UNCHANGED <<disk, static, pc, failed, discovered, kept, tests, usedNames>>

Discovered(q) == (CHOOSE i \in DOMAIN discovered : discovered[i].q = q)
AsDiscovered == [q \in Seen |-> discovered[Discovered(q)].branches]

EndDiscovery ==
    /\ pc = "discover" /\ ~path.live /\ stack = <<>>
    /\ IF interactive /\ discovered # <<>>
         THEN pc' = "modify" /\ UNCHANGED <<kept, path>>
         ELSE pc' = "generate" /\ kept' = AsDiscovered /\ path' = Root
    /\ UNCHANGED <<disk, static, failed, stack, discovered, tests, usedNames>>

\* What is left of s when some of its places are struck out, but not all.
Subsequences(s) ==
    {t \in UNION {[1..n -> ToSet(s)] : n \in 1..Len(s)} :
        \E place \in [DOMAIN t -> DOMAIN s] :
            /\ \A i \in DOMAIN t : t[i] = s[place[i]]
            /\ \A i, j \in DOMAIN t : i < j => place[i] < place[j]}

\* What a user can leave a question with: values or combinations of her own,
\* none of them twice, or some of the branches that were discovered.
UserChoices(q, branches) ==
    CASE branches = <<>> -> {<<>>}
      [] branches # <<>> /\ Kind[q] \in {"select", "confirm"} -> Subsequences(branches)
      [] OTHER ->
            LET own == Typed[q] \cup {Head(branches)}
            IN {t \in UNION {[1..n -> own] : n \in 1..Cardinality(own)} : IsInjective(t)}

\* interactive_modify, a question at a time; a prompt may be left.
InteractiveModify ==
    /\ pc = "modify"
    /\ LET turn == Cardinality(DOMAIN kept) + 1
           dq   == discovered[turn]
       IN \/ /\ \E s \in UserChoices(dq.q, dq.branches) :
                  kept' = [q \in DOMAIN kept \cup {dq.q} |-> IF q = dq.q THEN s ELSE kept[q]]
             /\ IF turn = Len(discovered)
                  THEN pc' = "generate" /\ path' = Root
                  ELSE UNCHANGED <<pc, path>>
             /\ UNCHANGED failed
          \/ Fail /\ UNCHANGED <<kept, path>>
    /\ UNCHANGED <<disk, static, stack, discovered, tests, usedNames>>

More == Len(tests) < cap

\* Mutant: the branches of a question that was not discovered are none.
ConfiguredOnly(q) == IF q \in DOMAIN kept THEN kept[q] ELSE <<>>

\* branch_config, or the default for a question that was not discovered.
BranchesFor(q) == IF q \in DOMAIN kept THEN kept[q] ELSE GetAnswerBranches(q)

\* full_dfs: the counter of combinations is the number of tests.
Generate ==
    /\ pc = "generate" /\ path.live /\ Recursing
    /\ \/ /\ ~More
          /\ path' = NoPath
          /\ UNCHANGED <<stack, tests, usedNames, pc, failed>>
       \/ /\ More /\ Reply = End
          /\ tests' = Append(tests, [name    |-> GenerateTestName(path.labels),
                                     answers |-> path.answers,
                                     det     |-> path.det])
          /\ LET base == BaseName(path.labels)
             IN usedNames' = [n \in DOMAIN usedNames \cup {base} |->
                                IF n = base THEN TimesUsed(base) + 1 ELSE usedNames[n]]
          /\ path' = NoPath
          /\ UNCHANGED <<stack, pc, failed>>
       \/ /\ More /\ Reply # End
          /\ Call(Reply, BranchesFor(Reply))
          /\ UNCHANGED <<tests, usedNames, pc, failed>>
       \/ /\ More
          /\ Fail
          /\ UNCHANGED <<path, stack, tests, usedNames>>
    /\ UNCHANGED <<disk, static, discovered, kept>>

GenerateNext ==
    /\ pc = "generate" /\ ~path.live /\ stack # <<>>
    /\ FollowBranch(More)
    /\ UNCHANGED <<disk, static, pc, failed, discovered, kept, tests, usedNames>>

EndGeneration ==
    /\ pc = "generate" /\ ~path.live /\ stack = <<>>
    /\ pc' = "write"
    /\ UNCHANGED <<disk, static, failed, walk>>

WriteTestConfig ==
    /\ pc = "write"
    /\ \/ config' = "made" /\ pc' = "clean" /\ UNCHANGED failed
       \/ config' \in {config, "part"} /\ Fail
    /\ UNCHANGED <<fixtures, backups, static, walk>>

-----------------------------------------------------------------------------
\* Mutant: the error of the walk is returned before the cleanup.
CleanupAfterSuccess ==
    /\ pc = "clean"
    /\ IF failed THEN UNCHANGED docker /\ Return("error")
                 ELSE container' = "none" /\ images' = {} /\ pc' = "tests" /\ UNCHANGED outcome
    /\ UNCHANGED <<disk, command, past>>

\* cleanup_qa_warmup: the container, the template's image, the blob's; the
\* first that Docker refuses ends it.  Its result is ignored.
CleanupQaWarmup ==
    /\ pc = "clean"
    /\ \/ /\ leak' = "refused"
          /\ UNCHANGED <<container, images>>
       \/ /\ container' = "none"
          /\ images' \in {images, images \ {"template"}, {}}
          /\ UNCHANGED leak
    /\ IF failed THEN Return("error") ELSE pc' = "tests" /\ UNCHANGED outcome
    /\ UNCHANGED <<disk, command, had, consent, quick, runs, walks>>

\* run_template_tests with update_snapshots: see TestPool.
RunTemplateTests ==
    /\ pc = "tests"
    /\ \/ /\ fixtures' = "made"
          /\ IF saved THEN pc' = "ask" /\ UNCHANGED outcome ELSE Return("done")
       \/ /\ fixtures' \in {fixtures, "part"}
          /\ Return("error")
    /\ UNCHANGED <<config, backups, docker, command, past>>

\* "Delete backup?", with no as its default and for any error.
OfferBackup ==
    /\ pc = "ask"
    /\ Return("done")
    /\ \/ UNCHANGED <<backups, consent>>
       \/ /\ consent' = TRUE
          /\ \E left \in {Empty, [config |-> "part", fixtures |-> "part"], backups[Current]} :
                backups' = [backups EXCEPT ![Current] = left]
    /\ UNCHANGED <<config, fixtures, docker, command, had, leak, quick, runs, walks>>

\* The process is killed, or its stack overflows; where a copy was under way,
\* it leaves what an error leaves.
Kill ==
    /\ pc \notin {"idle", "end"}
    /\ Return("killed")
    /\ leak' = IF container # "none" THEN "killed" ELSE leak
    /\ UNCHANGED <<disk, docker, command, had, consent, quick, runs, walks>>

StackOverflow ==
    /\ path.live /\ ~Recursing
    /\ Return("killed")
    /\ leak' = "killed"
    /\ UNCHANGED <<disk, docker, command, had, consent, quick, runs, walks>>

Exit ==
    /\ pc = "end" /\ pc' = "idle"
    /\ failed' = FALSE /\ outcome' = "none" /\ saved' = FALSE /\ attempt' = 0
    /\ interactive' = FALSE /\ cap' = 0
    /\ container' = "none" /\ images' = {} /\ leak' = "no"
    /\ ResetWalk
    /\ UNCHANGED <<disk, model, had, consent, quick, runs, walks>>

Step ==
    \/ RunInit \/ MakeBackupDir \/ CopyConfig \/ CopyFixtures \/ RemoveConfig \/ RemoveFixtures
    \/ BuildImages \/ StartContainer \/ OutOfAttempts \/ CheckHealth
    \/ CreateFixtures \/ Discover \/ DiscoverNext \/ EndDiscovery \/ InteractiveModify
    \/ Generate \/ GenerateNext \/ EndGeneration \/ WriteTestConfig
    \/ CleanupQaWarmup \/ RunTemplateTests \/ OfferBackup \/ StackOverflow \/ Exit

Finished == pc = "idle" /\ runs = MaxRuns /\ UNCHANGED vars

Next == Step \/ Kill \/ Finished

Spec == Init /\ [][Next]_vars

\* The command goes on by itself; the user answers its prompts.
FairSpec == Spec /\ WF_vars(Step)

-----------------------------------------------------------------------------
\* Every variable has its type.
TypeOK ==
    /\ config \in Artefact /\ fixtures \in Artefact
    /\ backups \in Seq([config : Artefact, fixtures : Artefact])
    /\ container \in {"none", "running"} /\ images \subseteq {"blob", "template"}
    /\ attempt \in 0..Attempts
    /\ \A v \in {failed, saved, interactive, consent, quick, path.live} : v \in BOOLEAN
    /\ outcome \in {"none", "running", "done", "error", "killed"}
    /\ leak \in {"no", "refused", "health", "killed"}
    /\ path.answers \in Answers /\ path.labels \in Branches
    /\ \A q \in DOMAIN kept : kept[q] \in Branches
    /\ \A i \in DOMAIN tests : tests[i].answers \in Answers

\* The configuration and the snapshots the user had before are where they
\* were or complete in a backup, whatever fails and however often the command
\* is run, unless the user has had a backup deleted.
NothingIsLost ==
    ~consent =>
        /\ had.config   => config = "mine"   \/ \E i \in DOMAIN backups : backups[i].config = "mine"
        /\ had.fixtures => fixtures = "mine" \/ \E i \in DOMAIN backups : backups[i].fixtures = "mine"

\* What a user who was asked about q has kept of it, or all that the template
\* offers for it once it knows the answer w to its first question.
Wanted(q, w) ==
    IF interactive /\ q \in DOMAIN kept THEN ToSet(kept[q]) ELSE ToSet(Offer[<<q, w>>])

\* Answers to exactly the questions on one path to the end.
IsPath(a) ==
    LET at == Position(a, Question)
    IN /\ at[Cardinality(Question)] = End
       /\ {q \in Question : a[q] # None} = {at[n] : n \in 0..Cardinality(Question)} \ {End}
       /\ \A q \in Question : a[q] # None => a[q] \in Wanted(q, IF q = First THEN None ELSE a[First])

\* The tests that are written are the paths through the template, each of them
\* once, or as many as --max-combinations allows; the questions that the first
\* walk has missed are in them.
EveryCombinationIsTested ==
    pc = "write" =>
        LET paths  == {a \in Answers : IsPath(a)}
            tested == {tests[i].answers : i \in DOMAIN tests}
        IN /\ tested \subseteq paths
           /\ Cardinality(tested) = Len(tests)
           /\ Len(tests) = IF Cardinality(paths) < cap THEN Cardinality(paths) ELSE cap

Shortened(name) == \E i \in DOMAIN name : name[i].stem = Ellipsis.stem

\* No two tests have the same name, which is the name of their snapshot, too,
\* unless it had to be shortened.
OneSnapshotPerTest ==
    \A i, j \in DOMAIN tests : i # j /\ tests[i].name = tests[j].name => Shortened(tests[i].name)

\* The container of the walk is removed however the walk ends, unless Docker
\* has refused, the template was not healthy, or the command was killed.
WarmupIsCleaned ==
    pc \in {"tests", "ask", "end"} /\ container = "running" => leak # "no"

\* A run that is not killed comes to an end.
InitEnds == (pc \notin {"idle", "end"}) ~> (pc = "end")

-----------------------------------------------------------------------------
\* "Pass 1: Discover all unique questions": a user is shown every question
\* that the tests answer.  See the configuration that violates it.
EveryQuestionIsShown ==
    pc = "write" => \A i \in DOMAIN tests : {q \in Question : tests[i].answers[q] # None} \subseteq Seen

\* Nor do two tests have the same name if it had to be shortened.
ShortenedNamesDiffer ==
    \A i, j \in DOMAIN tests : i # j /\ tests[i].name = tests[j].name => ~Shortened(tests[i].name)
=============================================================================
