--------------------------- MODULE ProjectHistory ---------------------------
(***************************************************************************)
(* A project directory over a sequence of `cyanprint create` and           *)
(* `cyanprint update` commands: its files, and the record of what was      *)
(* generated that is kept in .cyan_state.yaml.                             *)
(*                                                                         *)
(* A command rebuilds, from that record, what the installed templates had  *)
(* generated (prev, the base of the three-way merge) and what they shall   *)
(* generate now (curr), merges both with the local files, writes the       *)
(* result, appends to the history of each upgraded template and saves the  *)
(* state file.  Each template writes one file of its own and one that all  *)
(* of them write (the last one wins).  A file's content is the template,   *)
(* version and answers it was generated from, or one of Absent, Edited (by *)
(* the user), Conflict (markers left by the merge) and Torn (cut off while *)
(* it was written).                                                        *)
(***************************************************************************)
EXTENDS Integers, Sequences, FiniteSets, SequencesExt

CONSTANTS Template,    \* template keys
          MaxVersion,  \* versions the registry may publish
          Answer,      \* what a template's questions can be answered with
          NoAnswer, Absent, Edited, Conflict, Torn,
          Shared,      \* the path every template writes
          Dropped,     \* <<t, v>>: version v of t does not have t's own file
          Ignored,     \* paths matched by a .gitignore
          Scenes,      \* what may happen, together
          MaxRuns      \* how many commands

ASSUME TemplateAssumption == IsFiniteSet(Template)
ASSUME VersionAssumption == MaxVersion \in Nat \ {0} /\ MaxRuns \in Nat
ASSUME DroppedAssumption == Dropped \subseteq Template \X (1..MaxVersion)
ASSUME PathAssumption == Shared \notin Template /\ Ignored \subseteq Template \cup {Shared}
ASSUME AnswerAssumption == NoAnswer \notin Answer

\* The commands the user runs, the answers that are given, and what goes wrong.
Scene ==
    [kinds   : SUBSET {"new", "upgrade", "rerun", "update"},
     answers : SUBSET Answer,
     faults  : SUBSET {"fetch", "write", "crash", "deactivate"}]

ASSUME SceneAssumption == Scenes \subseteq Scene

Path == Template \cup {Shared}
Version == 1..MaxVersion
Generated == [t : Template, version : Version, ans : Answer]
Entry == [version : Version, ans : Answer, time : Nat]
TemplateSpec == [t : Template, version : Version, ans : Answer \cup {NoAnswer}, at : Nat]

ASSUME ContentAssumption ==
    /\ Absent # Edited /\ Absent # Conflict /\ Edited # Conflict
    /\ Torn \notin {Absent, Edited, Conflict}
    /\ {Absent, Edited, Conflict, Torn} \cap Generated = {}

VARIABLES
    \* the project on disk
    dir,       \* whether the target directory exists
    files,     \* what each path holds
    readable,  \* .cyan_state.yaml: absent, ok, or torn by a write that was cut off
    history,   \* its history entries, per template
    active,    \* its active templates
    managed,   \* its managed_files
    allowed,   \* the scene
    \* the registry and the clock
    latest, now,
    \* the running command
    pc, kind, headless, madeDir, supplied,
    prev, curr, todo,  \* spec lists, and the upgraded templates still to record
    loaded,            \* the history update_templates read at its start
    outcome, runs,
    before             \* history variable: the project when the command started

state   == <<readable, history, active, managed>>
project == <<dir, files, state>>
command == <<kind, headless, madeDir, supplied, prev, curr, todo, loaded>>
vars    == <<project, allowed, latest, now, pc, command, outcome, runs, before>>

-----------------------------------------------------------------------------
(***************************************************************************)
(* Spec lists.                                                             *)
(***************************************************************************)
Recorded(t) == history[t] # <<>>

\* Mutant: the first entry of the history instead of the last.
FirstSpecOf(t) ==
    LET e == Head(history[t]) IN [t |-> t, version |-> e.version, ans |-> e.ans, at |-> e.time]

\* TemplateSpecManager::get: the last entry of every active template.
SpecOf(t) ==
    LET e == Last(history[t]) IN [t |-> t, version |-> e.version, ans |-> e.ans, at |-> e.time]

Installed == {t \in active : Recorded(t)}

\* In the iteration order of a HashMap, or sorted by installed_at.
AnyOrder(S) == SetToSeqs(S)
SortSpecs(S) == {s \in AnyOrder(S) : \A i, j \in DOMAIN s : i < j => s[i].at <= s[j].at}

\* The templates of T in the order in which s has them.
InOrderOf(s, T) ==
    {o \in AnyOrder(T) :
        \A i, j \in DOMAIN o : i < j => \E k, l \in DOMAIN s : k < l /\ s[k].t = o[i] /\ s[l].t = o[j]}

Reset(s) == [i \in DOMAIN s |-> [s[i] EXCEPT !.ans = NoAnswer]]
Upgraded(s, t, v) == [i \in DOMAIN s |-> IF s[i].t = t THEN [s[i] EXCEPT !.version = v] ELSE s[i]]
WithVersion(s, v) == [i \in DOMAIN s |-> [s[i] EXCEPT !.version = v[s[i].t]]]

\* Supplied headless answers go to the upgraded templates only.
Seed(s, T) ==
    [i \in DOMAIN s |-> IF headless' /\ supplied' # NoAnswer /\ s[i].t \in T
                          THEN [s[i] EXCEPT !.ans = supplied'] ELSE s[i]]

-----------------------------------------------------------------------------
(***************************************************************************)
(* Files: what a list of specs generates, and the merge of three versions. *)
(***************************************************************************)
Content(c) == [t |-> c.t, version |-> c.version, ans |-> c.ans]

Produces(c, p) == p = Shared \/ (p = c.t /\ <<c.t, c.version>> \notin Dropped)

\* Layering: the last template that has the path wins.
Output(s, p) ==
    LET from == {i \in DOMAIN s : Produces(s[i], p)}
    IN IF from = {} THEN Absent
       ELSE Content(s[CHOOSE i \in from : \A j \in from : j <= i])

\* DiskFileLoader respects .gitignore.
LoadLocalFiles == [p \in Path |-> IF p \in Ignored THEN Absent ELSE files[p]]

\* Mutant: the template wins where both sides changed.
IncomingWins(base, local, incoming) == IF base = incoming THEN local ELSE incoming

Merge3(base, local, incoming) ==
    IF local = incoming \/ base = incoming THEN local
    ELSE IF base = local THEN incoming ELSE Conflict

\* An ignored path is never committed to the temporary repository: each of
\* the three trees leaves its copy in the working directory for the next.
MergeIgnored(base, incoming) == IF incoming = Absent THEN base ELSE incoming

Merged ==
    [p \in Path |->
        IF p \in Ignored
          THEN MergeIgnored(Output(prev, p), Output(curr, p))
          ELSE Merge3(Output(prev, p), LoadLocalFiles[p], Output(curr, p))]

\* cleanup_deleted_files removes what was loaded and is no longer merged;
\* write_to_disk writes what is merged.
Written(P) ==
    [p \in Path |-> IF p \notin P \/ (Merged[p] = Absent /\ p \in Ignored)
                      THEN files[p] ELSE Merged[p]]

\* std::fs::write empties a file before it fills it: when the writing ends half
\* way, the file it has come to, edited or not, may be cut off.
WrittenInPart ==
    \E P \in SUBSET Path :
        \/ files' = Written(P)
        \/ \E p \in Path \ P : Merged[p] # Absent /\ files' = [Written(P) EXCEPT ![p] = Torn]

-----------------------------------------------------------------------------
Init ==
    /\ allowed \in Scenes
    /\ dir \in BOOLEAN
    /\ files = [p \in Path |-> Absent]
    /\ readable = "absent"
    /\ history = [t \in Template |-> <<>>]
    /\ active = {} /\ managed = {}
    /\ latest = [t \in Template |-> 1] /\ now = 0
    /\ pc = "idle" /\ kind = "none" /\ headless = FALSE /\ madeDir = FALSE
    /\ supplied = NoAnswer
    /\ prev = <<>> /\ curr = <<>> /\ todo = <<>>
    /\ loaded = history
    /\ outcome = "none" /\ runs = 0
    /\ before = project

-----------------------------------------------------------------------------
(***************************************************************************)
(* cyan_run: create.                                                       *)
(***************************************************************************)
Idle == pc = "idle" /\ runs < MaxRuns

\* What every command does first.
Start(k) ==
    /\ Idle /\ k \in allowed.kinds
    /\ runs' = runs + 1 /\ kind' = k
    /\ before' = project
    /\ headless' \in BOOLEAN
    /\ supplied' \in (IF headless' THEN allowed.answers \cup {NoAnswer} ELSE {NoAnswer})
    /\ UNCHANGED <<files, state, allowed, latest, now>>

CreateDir == dir' = TRUE /\ madeDir' = ~dir

\* check_template_history
UpdateType(t, v) ==
    CASE readable = "absent" \/ ~Recorded(t) -> "new"
      [] OTHER -> IF Last(history[t]).version = v THEN "rerun" ELSE "upgrade"

\* The state file cannot be parsed.
RefuseTorn ==
    /\ readable = "torn"
    /\ \E k \in allowed.kinds : Start(k)
    /\ pc' = "exit" /\ outcome' = "refused"
    /\ UNCHANGED <<dir, madeDir, prev, curr, todo, loaded>>

CreateNew(t) ==
    /\ readable # "torn" /\ UpdateType(t, 1) = "new"
    /\ Start("new")
    /\ CreateDir
    /\ prev' \in SortSpecs({SpecOf(u) : u \in Installed})
    /\ \E v \in 1..latest[t] :
          LET new == [t |-> t, version |-> v, ans |-> NoAnswer, at |-> now]
          IN curr' = Seed(Append(prev', new), {t})
    /\ todo' = <<t>>
    /\ pc' = "execute" /\ outcome' = "running"
    /\ UNCHANGED loaded

\* The target is in the lists only if it is active.
TargetIn(s, t) == IF \E i \in DOMAIN s : s[i].t = t THEN <<t>> ELSE <<>>

CreateUpgrade(t) ==
    /\ readable = "ok"
    /\ Start("upgrade")
    /\ CreateDir
    /\ \E v \in 1..latest[t] :
          /\ UpdateType(t, v) = "upgrade"
          /\ prev' \in AnyOrder({SpecOf(u) : u \in Installed})
          /\ curr' = Seed(Upgraded(prev', t, v), {t})
    /\ todo' = TargetIn(curr', t)
    /\ pc' = "execute" /\ outcome' = "running"
    /\ UNCHANGED loaded

CreateRerun(t) ==
    /\ readable = "ok" /\ Recorded(t)
    /\ Start("rerun")
    /\ CreateDir
    /\ prev' \in AnyOrder({SpecOf(u) : u \in Installed})
    /\ curr' = Seed(Reset(prev'), {t})
    /\ todo' = TargetIn(curr', t)
    /\ pc' = "execute" /\ outcome' = "running"
    /\ UNCHANGED loaded

(***************************************************************************)
(* update_templates.                                                       *)
(***************************************************************************)
UpdateNothing ==
    /\ readable # "torn" /\ Installed = {}
    /\ Start("update")
    /\ pc' = "exit" /\ outcome' = "done"
    /\ UNCHANGED <<dir, madeDir, prev, curr, todo, loaded>>

\* Every template goes to its latest version, or to one the user selects.
Update ==
    /\ readable = "ok" /\ Installed # {}
    /\ Start("update")
    /\ loaded' = history
    /\ prev' \in SortSpecs({SpecOf(u) : u \in Installed})
    /\ \E v \in [Template -> Version] :
          /\ \A u \in Template : IF headless' THEN v[u] = latest[u] ELSE v[u] <= latest[u]
          /\ LET upgraded == {u \in Installed : v[u] # SpecOf(u).version}
             IN /\ curr' = Seed(WithVersion(prev', v), upgraded)
                /\ todo' \in InOrderOf(prev', upgraded)
    /\ pc' = "execute" /\ outcome' = "running"
    /\ madeDir' = FALSE
    /\ UNCHANGED dir

-----------------------------------------------------------------------------
(***************************************************************************)
(* batch_process.                                                          *)
(***************************************************************************)
RemoveCreatedDir ==
    /\ dir' = FALSE /\ files' = [p \in Path |-> Absent]
    /\ readable' = "absent" /\ history' = [t \in Template |-> <<>>]
    /\ active' = {} /\ managed' = {}

\* Mutant: the guard removes the target directory, new or not.
AbandonAnyDir(result) ==
    /\ pc' = "exit" /\ outcome' = result
    /\ IF headless THEN RemoveCreatedDir ELSE UNCHANGED project

\* Before the run is committed, an error or a pending question drops the
\* armed CreatedDirGuard.
Abandon(result) ==
    /\ pc' = "exit" /\ outcome' = result
    /\ IF headless /\ madeDir THEN RemoveCreatedDir ELSE UNCHANGED project

\* Each spec keeps the answers it carries; one without is asked.
Execute ==
    /\ pc = "execute"
    /\ \/ /\ headless /\ \E i \in DOMAIN curr : curr[i].ans = NoAnswer
          /\ Abandon("need_input")
          /\ UNCHANGED curr
       \/ /\ Abandon("failed")
          /\ UNCHANGED curr
       \/ /\ ~headless \/ \A i \in DOMAIN curr : curr[i].ans # NoAnswer
          /\ \E a \in [DOMAIN curr -> allowed.answers] :
                /\ \A i \in DOMAIN curr : curr[i].ans # NoAnswer => a[i] = curr[i].ans
                /\ curr' = [i \in DOMAIN curr |-> [curr[i] EXCEPT !.ans = a[i]]]
          /\ pc' = "write"
          /\ UNCHANGED <<project, outcome>>
    /\ UNCHANGED <<allowed, latest, now, kind, headless, madeDir, supplied, prev, todo, loaded, runs, before>>

\* The merge and the write; a failed write, as on a full disk, leaves some of
\* the files done and one of them cut off.
Write ==
    /\ pc = "write"
    /\ \/ /\ files' = Written(Path)
          /\ pc' = "record"
          /\ UNCHANGED <<dir, state, outcome>>
       \/ /\ "write" \in allowed.faults
          /\ pc' = "exit" /\ outcome' = "uncommitted"
          /\ IF headless /\ madeDir
               THEN RemoveCreatedDir
               ELSE WrittenInPart /\ UNCHANGED <<dir, state>>
    /\ UNCHANGED <<allowed, latest, now, command, runs, before>>

SpecIn(s, t) == s[CHOOSE i \in DOMAIN s : s[i].t = t]

\* The history with the entry of an upgraded template appended, and the
\* active templates: an entry that exists keeps its flag.
Appended(t) ==
    LET c == SpecIn(curr, t)
    IN [history EXCEPT ![t] = Append(@, [version |-> c.version, ans |-> c.ans, time |-> now])]

Activated(t) == IF Recorded(t) THEN active ELSE active \cup {t}

\* Mutant: create, too, saves the copy it read before the batch.
SavedHistoryStale == loaded

\* cyan_run reads the state file again; update_templates saves the copy it
\* read before the batch.
SavedHistory == IF kind = "update" THEN loaded ELSE history

\* The state file, too, is truncated and written anew: what a save that ends half
\* way leaves cannot be parsed, or is a prefix that names only some templates.
StateCutOff ==
    /\ \/ readable' = "torn" /\ UNCHANGED history
       \/ /\ readable' = "ok"
          /\ \E T \in SUBSET Template :
                LET h == IF todo = <<>> THEN SavedHistory ELSE Appended(Head(todo))
                IN history' = [t \in Template |-> IF t \in T THEN h[t] ELSE <<>>]
    /\ managed' = {}
    /\ LET a == IF todo = <<>> THEN active ELSE Activated(Head(todo))
       IN active' = {t \in a : history'[t] # <<>>}

\* One turn of the metadata loop: fetch the template once more, load the
\* state file, append the entry and save.
SaveTemplateMetadata ==
    /\ pc = "record" /\ todo # <<>>
    /\ \/ /\ history' = Appended(Head(todo)) /\ active' = Activated(Head(todo))
          /\ readable' = "ok"
          /\ todo' = Tail(todo) /\ now' = now + 1
          /\ UNCHANGED <<dir, files, managed, pc, outcome>>
       \/ /\ allowed.faults \cap {"fetch", "write"} # {}
          /\ Abandon("uncommitted")
          /\ UNCHANGED <<todo, now>>
       \/ /\ "write" \in allowed.faults /\ ~(headless /\ madeDir)
          /\ pc' = "exit" /\ outcome' = "uncommitted"
          /\ StateCutOff
          /\ UNCHANGED <<dir, files, todo, now>>
    /\ UNCHANGED <<allowed, latest, kind, headless, madeDir, supplied, prev, curr, loaded, runs, before>>

\* What set_managed_files records: the paths the batch produced.
ManagedBy(s) == {p \in Path : Output(s, p) # Absent}

SaveStateFile ==
    /\ pc = "record" /\ todo = <<>>
    /\ \/ /\ history' = SavedHistory
          /\ managed' = ManagedBy(curr)
          /\ readable' = "ok"
          /\ outcome' \in {"done", "late_error"}  \* post-template commands may fail
          /\ UNCHANGED active
       \/ /\ "write" \in allowed.faults
          /\ outcome' = "late_error"
          /\ UNCHANGED state \/ StateCutOff
    /\ pc' = "exit"
    /\ UNCHANGED <<dir, files, allowed, latest, now, command, runs, before>>

\* The process ends; its memory is gone.
Exit ==
    /\ pc = "exit"
    /\ pc' = "idle" /\ outcome' = "none" /\ kind' = "none" /\ headless' = FALSE /\ madeDir' = FALSE
    /\ supplied' = NoAnswer /\ prev' = <<>> /\ curr' = <<>> /\ todo' = <<>>
    /\ loaded' = [t \in Template |-> <<>>] /\ before' = project
    /\ UNCHANGED <<project, allowed, latest, now, runs>>

-----------------------------------------------------------------------------
(***************************************************************************)
(* Crashes, and what happens between commands.                             *)
(***************************************************************************)
Die ==
    /\ "crash" \in allowed.faults /\ pc \notin {"idle", "exit"}
    /\ pc' = "exit" /\ outcome' = "crashed"
    /\ UNCHANGED <<allowed, latest, now, command, runs, before>>

Crash == Die /\ UNCHANGED project

CrashInWrite ==
    /\ Die /\ pc = "write"
    /\ WrittenInPart
    /\ UNCHANGED <<dir, state>>

CrashInSave ==
    /\ Die /\ pc = "record"
    /\ StateCutOff
    /\ UNCHANGED <<dir, files>>

\* The user edits a file, or resolves a conflict.
EditFile ==
    /\ Idle
    /\ \E p \in Path : files[p] # Absent /\ files' = [files EXCEPT ![p] = Edited]
    /\ UNCHANGED <<dir, state, allowed, latest, now, pc, command, outcome, runs, before>>

Publish ==
    /\ Idle
    /\ \E t \in Template : latest[t] < MaxVersion /\ latest' = [latest EXCEPT ![t] = @ + 1]
    /\ UNCHANGED <<project, allowed, now, pc, command, outcome, runs, before>>

\* The user sets active: false in the state file; no command does.
Deactivate ==
    /\ Idle /\ "deactivate" \in allowed.faults /\ readable = "ok"
    /\ \E t \in active : active' = active \ {t}
    /\ UNCHANGED <<dir, files, readable, history, managed, allowed, latest, now, pc, command, outcome, runs, before>>

Done == pc = "idle" /\ runs = MaxRuns /\ UNCHANGED vars

Next ==
    \/ RefuseTorn \/ UpdateNothing \/ Update
    \/ \E t \in Template : CreateNew(t) \/ CreateUpgrade(t) \/ CreateRerun(t)
    \/ Execute \/ Write \/ SaveTemplateMetadata \/ SaveStateFile \/ Exit
    \/ Crash \/ CrashInWrite \/ CrashInSave
    \/ EditFile \/ Publish \/ Deactivate
    \/ Done

Spec == Init /\ [][Next]_vars

-----------------------------------------------------------------------------
Installs(s) == {s[i].t : i \in DOMAIN s}

\* Every variable has its type.
TypeOK ==
    /\ dir \in BOOLEAN
    /\ files \in [Path -> Generated \cup {Absent, Edited, Conflict, Torn}]
    /\ readable \in {"absent", "ok", "torn"}
    /\ \A t \in Template : \A i \in DOMAIN history[t] : history[t][i] \in Entry
    /\ active \subseteq Template /\ managed \subseteq Path
    /\ allowed \in Scene /\ latest \in [Template -> Version] /\ now \in Nat
    /\ pc \in {"idle", "execute", "write", "record", "exit"}
    /\ kind \in {"none", "new", "upgrade", "rerun", "update"}
    /\ headless \in BOOLEAN /\ madeDir \in BOOLEAN
    /\ supplied \in Answer \cup {NoAnswer}
    /\ \A i \in DOMAIN prev : prev[i] \in TemplateSpec /\ prev[i].ans # NoAnswer
    /\ \A i \in DOMAIN curr : curr[i] \in TemplateSpec
    /\ \A i \in DOMAIN todo : todo[i] \in Installs(curr)
    /\ runs \in 0..MaxRuns

\* No command was killed or failed half way, and nobody changed the state file.
Calm == allowed.faults = {}

\* The base of the merge is what the files were generated from: a file of a
\* template that the user has not edited since is exactly what the base has.
BaseIsWhatWasGenerated ==
    Calm /\ pc \in {"execute", "write"} =>
        \A t \in Installs(prev) : files[t] \in {Output(prev, t), Edited, Conflict}

\* A command that reports done has recorded what it generated, for every
\* template it executed: the next command starts from there.
DoneIsRecorded ==
    Calm /\ pc = "exit" /\ outcome = "done" =>
        \A i \in DOMAIN curr :
            /\ Recorded(curr[i].t)
            /\ Last(history[curr[i].t]).version = curr[i].version
            /\ Last(history[curr[i].t]).ans = curr[i].ans

\* A command that stops on a question or fails before the write leaves the
\* project as it was, and so does one that refuses the state file.
StoppedRunLeavesProject ==
    pc = "exit" /\ outcome \in {"need_input", "failed", "refused"} /\ (headless \/ ~madeDir) =>
        project = before

\* Path p is the one file that a command has cut off that did not end well.
CutOff(p) ==
    /\ files'[p] = Torn /\ outcome' \in {"crashed", "uncommitted"}
    /\ \A q \in Path \ {p} : files'[q] = Torn => files[q] = Torn

\* The user's edits survive every command: an edited file that is not ignored
\* becomes at most a conflict, in which they are kept.  Only a command that is
\* killed or fails while it writes may lose some, in one file.
EditsSurvive ==
    [][\A p \in Path \ Ignored :
          files[p] = Edited => files'[p] \in {Edited, Conflict} \/ CutOff(p)]_vars

-----------------------------------------------------------------------------
(***************************************************************************)
(* What the code's comments and the developer documents say, and the       *)
(* program does not do: see the runs that violate these.                   *)
(***************************************************************************)
\* A headless run leaves the filesystem as it found it unless it is done: a
\* template that cannot be fetched leaves the project unchanged.
HeadlessStopRestores ==
    pc = "exit" /\ headless /\ outcome = "uncommitted" => project = before

\* "Preserves user modifications when updating template-generated code"
\* (02-three-way-merge.md:5): neither where a write is cut off, nor in a file that
\* a .gitignore names.
EditsAreNeverTorn ==
    [][\A p \in Path \ Ignored : files[p] = Edited => files'[p] # Torn]_vars
IgnoredEditsSurvive ==
    [][\A p \in Ignored : files[p] = Edited => files'[p] \in {Edited, Conflict}]_vars

\* Templates are layered in the order of their installation.
LayeredInInstallOrder ==
    pc = "execute" =>
        \A i, j \in DOMAIN prev :
            i < j => Head(history[prev[i].t]).time < Head(history[prev[j].t]).time

\* The question a headless command stops on, the first that has no answer, can
\* be answered by the next command: supplied answers reach its template.
PendingQuestionIsAnswerable ==
    pc = "exit" /\ outcome = "need_input" =>
        \E i \in DOMAIN curr :
            /\ curr[i].ans = NoAnswer
            /\ \A j \in 1..(i - 1) : curr[j].ans # NoAnswer
            /\ Contains(todo, curr[i].t)

\* Where that does hold: all commands but a rerun, which asks every template
\* again (create_rerun_specs, run.rs:763), stop on questions of their target.
OnlyRerunsAskInVain == kind # "rerun" => PendingQuestionIsAnswerable
=============================================================================
