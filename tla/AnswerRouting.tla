--------------------------- MODULE AnswerRouting ----------------------------
(***************************************************************************)
(* How answers travel through execute_composition: from the state file and *)
(* the caller into the map each template is started with, out of its       *)
(* Complete or NeedInput state back into the shared answers, through the   *)
(* output cache, and into the state file that the next run starts from.    *)
(*                                                                         *)
(* A question id is a member of Raw.  A key of the shared answers is an id *)
(* alone (namespace Global) or an id under the namespace of a dependency,  *)
(* its version id.  A template's questions are a fixed sequence of ids:    *)
(* QuestionWalk has the templates whose questions depend on answers.  Raw  *)
(* ids never start with a namespace, and answers to one id have one type,  *)
(* so the type conflict of update_from_template_state is an overwrite.  An *)
(* upgrade gives every template of the tree a new version id.              *)
(***************************************************************************)
EXTENDS Integers, Sequences, FiniteSets

CONSTANTS Node, Raw, Value, None, Global,
          Order,       \* the flattened dependencies, the root last
          Asks,        \* Asks[n]: the ids template n asks for, in order
          Presets,     \* the preset answers considered, of all the nodes
          Executables, \* the sets of nodes that are no groups, considered
          Modes,       \* interactive, headless or both
          MaxVersion,  \* bound: upgrades
          MaxRuns      \* bound: completed runs

Versions == 0..MaxVersion
Namespace == Node \X Versions
AnswerKey == [ns : Namespace \cup {Global}, id : Raw]
SharedAnswers == [AnswerKey -> Value \cup {None}]
Local == [Raw -> Value \cup {None}]

ASSUME OrderAssumption == Order \in Seq(Node) /\ Asks \in [Node -> Seq(Raw)]
ASSUME NoneAssumption == None \notin Value /\ Global \notin Namespace
ASSUME RunsAssumption == MaxVersion \in Nat /\ MaxRuns \in Nat
ASSUME ChoiceAssumption ==
    /\ Presets \subseteq [Node -> Local] /\ Executables \subseteq SUBSET Node
    /\ Modes \subseteq {"interactive", "headless"}

VARIABLES
    preset, executable, version, \* the template as it is published
    saved,    \* the answers in the state file
    file,     \* the answers a headless caller passes
    cache,    \* the output cache; by, the mode that stored, is a history variable
    pc,       \* idle, run, need_input or done
    mode,
    initial,  \* initial_shared_state.shared_answers
    shared,   \* shared_state.shared_answers
    at,       \* the dependency being processed
    pending,  \* the key of the question a run stopped at
    used,     \* used[n]: the answers n was generated with in this run
    typed,    \* the ids the user answered in this run
    last,     \* the last completed run
    runs

tree == <<preset, executable>>
run == <<mode, initial, shared, at, pending, used, typed>>
vars == <<tree, version, saved, file, cache, pc, run, last, runs>>

Nothing == [k \in AnswerKey |-> None]
NoLocal == [r \in Raw |-> None]
Unused == [n \in Node |-> NoLocal]
NoKey == [ns |-> Global, id |-> None]

\* The answers in a, with those in b over them.
Overlay(a, b) == [k \in DOMAIN a |-> IF b[k] # None THEN b[k] ELSE a[k]]

\* The ids of Raw that are questions of n.
Questions(n) == {Asks[n][i] : i \in 1..Len(Asks[n])}

-----------------------------------------------------------------------------
(***************************************************************************)
(* Namespaces.                                                             *)
(***************************************************************************)
\* Groups do not count: one executable template keeps its raw ids.
MultiTemplate == Cardinality(executable) > 1

Namespaces == {<<n, version>> : n \in executable}

ScopedTo(n, r) == [ns |-> <<n, version>>, id |-> r]
Raw_(r) == [ns |-> Global, id |-> r]

\* A key that no template of this composition answers to, an answer under the
\* namespace of another version for one: a global key of an id nobody asks.
Inert(k) == IF MultiTemplate THEN k.ns \notin Namespaces \cup {Global} ELSE k.ns # Global

\* Mutant: presets are inserted first.
TemplateAnswersPresetsFirst(n) ==
    [r \in Raw |->
        IF preset[n][r] # None THEN preset[n][r]
        ELSE IF MultiTemplate /\ shared[ScopedTo(n, r)] # None THEN shared[ScopedTo(n, r)]
        ELSE shared[Raw_(r)]]

\* The answers n starts with: those scoped to it win over the global ones, and
\* its presets fill the gaps.
TemplateAnswers(n) ==
    [r \in Raw |->
        IF MultiTemplate /\ shared[ScopedTo(n, r)] # None THEN shared[ScopedTo(n, r)]
        ELSE IF shared[Raw_(r)] # None THEN shared[Raw_(r)]
        ELSE preset[n][r]]

\* Mutant: the answers of a template are always put under its namespace.
CompleteKeyScoped(n, r) == ScopedTo(n, r)

\* namespace_template_state, Complete: an id the caller scoped to n stays so,
\* every other one is shared.
CompleteKey(n, r) ==
    IF MultiTemplate /\ initial[ScopedTo(n, r)] # None THEN ScopedTo(n, r) ELSE Raw_(r)

\* Mutant: groups count, so that a lone template is asked under its namespace.
PendingKeyScoped(n, r) == ScopedTo(n, r)

\* namespace_template_state, NeedInput: always under the namespace.
PendingKey(n, r) == IF MultiTemplate THEN ScopedTo(n, r) ELSE Raw_(r)

\* update_from_template_state with the answers of n.
Merge(n, answers) ==
    [k \in AnswerKey |->
        LET r == k.id
        IN IF answers[r] # None /\ CompleteKey(n, r) = k THEN answers[r] ELSE shared[k]]

-----------------------------------------------------------------------------
(***************************************************************************)
(* The questions of one template.                                          *)
(***************************************************************************)
Open(n, a) == {i \in 1..Len(Asks[n]) : a[Asks[n][i]] = None}

FirstOpen(n, a) == Asks[n][CHOOSE i \in Open(n, a) : \A j \in Open(n, a) : i <= j]

\* start_with returns all answers it was started with, start_headless those
\* to the questions asked.
Complete(n, a) ==
    IF mode = "interactive" THEN a
    ELSE [r \in Raw |-> IF r \in Questions(n) THEN a[r] ELSE None]

\* The answers n may end with: the user fills the gaps.
Filled(n, a) ==
    {b \in Local : \A r \in Raw : IF a[r] = None /\ r \in Questions(n)
                                    THEN b[r] # None ELSE b[r] = a[r]}

InertAnswers == {<<k, shared[k]>> : k \in {x \in AnswerKey : Inert(x) /\ shared[x] # None}}

\* Mutant: the key leaves out the answers.
CacheKeyOfTemplate(n) == <<n, version, NoLocal, InertAnswers>>

CacheKey(n) == <<n, version, TemplateAnswers(n), InertAnswers>>

Cached(n) == {e \in cache : e.key = CacheKey(n)}

-----------------------------------------------------------------------------
Init ==
    /\ preset \in Presets /\ executable \in Executables /\ version = 0
    /\ saved = Nothing /\ file = Nothing /\ cache = {}
    /\ pc = "idle" /\ mode \in Modes
    /\ initial = Nothing /\ shared = Nothing /\ at = 1
    /\ pending = NoKey /\ used = Unused /\ typed = {}
    /\ last = [version |-> 0, saved |-> Nothing, used |-> Unused]
    /\ runs = 0

\* create, or create again: no previous answers are used; update: those of the
\* state file are.  A headless run adds the answers it is given.
Begin(m, previous) ==
    /\ pc = "idle"
    /\ pc' = "run" /\ mode' = m
    /\ initial' = IF m = "headless" THEN Overlay(previous, file) ELSE previous
    /\ shared' = initial' /\ at' = 1
    /\ pending' = NoKey /\ used' = Unused /\ typed' = {}
    /\ UNCHANGED <<tree, version, saved, file, cache, last, runs>>

Here == Order[at]

Running == pc = "run" /\ at <= Len(Order)

SkipGroup ==
    /\ Running /\ Here \notin executable
    /\ at' = at + 1
    /\ UNCHANGED <<tree, version, saved, file, cache, pc, last, runs>>
    /\ UNCHANGED <<mode, initial, shared, pending, used, typed>>

\* The template is not started: its stored answers are merged as its own.
ServeFromCache ==
    /\ Running /\ Here \in executable
    /\ \E e \in Cached(Here) :
          /\ shared' = Merge(Here, e.state)
          /\ used' = [used EXCEPT ![Here] = e.state]
    /\ at' = at + 1
    /\ UNCHANGED <<tree, version, saved, file, cache, pc, last, runs>>
    /\ UNCHANGED <<mode, initial, pending, typed>>

Execute ==
    /\ Running /\ Here \in executable /\ Cached(Here) = {}
    /\ LET start == TemplateAnswers(Here)
       IN \E b \in Filled(Here, start) :
             /\ mode = "headless" => b = start
             /\ shared' = Merge(Here, Complete(Here, b))
             /\ used' = [used EXCEPT ![Here] = Complete(Here, b)]
             /\ cache' = cache \cup {[key |-> CacheKey(Here), state |-> Complete(Here, b), by |-> mode]}
             /\ typed' = typed \cup {r \in Raw : start[r] # b[r]}
    /\ at' = at + 1
    /\ UNCHANGED <<tree, version, saved, file, pc, last, runs>>
    /\ UNCHANGED <<mode, initial, pending>>

\* Nothing is saved: the run reports the question and is forgotten.
NeedInput ==
    /\ Running /\ Here \in executable /\ Cached(Here) = {} /\ mode = "headless"
    /\ LET start == TemplateAnswers(Here)
       IN /\ Open(Here, start) # {}
          /\ pending' = PendingKey(Here, FirstOpen(Here, start))
    /\ pc' = "need_input"
    /\ UNCHANGED <<tree, version, saved, file, cache, last, runs>>
    /\ UNCHANGED <<mode, initial, shared, at, used, typed>>

Finish ==
    /\ pc = "run" /\ at > Len(Order)
    /\ pc' = "done" /\ saved' = shared
    /\ last' = [version |-> version, saved |-> shared, used |-> used]
    /\ runs' = runs + 1
    /\ UNCHANGED <<tree, version, file, cache, run>>

-----------------------------------------------------------------------------
(***************************************************************************)
(* What happens between two runs.                                          *)
(***************************************************************************)
\* The caller answers the question it was asked and repeats the command.
Supply ==
    /\ pc = "need_input"
    /\ \E v \in Value : file' = [file EXCEPT ![pending] = v]
    /\ pc' = "run" /\ shared' = Overlay(initial, file') /\ initial' = shared'
    /\ at' = 1 /\ pending' = NoKey /\ used' = Unused
    /\ UNCHANGED <<tree, version, saved, cache, mode, typed, last, runs>>

\* The next command; the caller may pass answers nobody asked for.
NextCommand ==
    /\ pc = "done" /\ runs < MaxRuns
    /\ pc' = "idle"
    /\ \E k \in AnswerKey, v \in Value : file' \in {Nothing, [Nothing EXCEPT ![k] = v]}
    /\ version' \in Versions \cap {version, version + 1}
    /\ UNCHANGED <<tree, saved, cache, run, last, runs>>

Over == pc = "done" /\ runs = MaxRuns /\ UNCHANGED vars

Run ==
    \/ SkipGroup \/ ServeFromCache \/ Execute \/ NeedInput \/ Finish

Next ==
    \/ \E m \in Modes, previous \in {Nothing, saved} : Begin(m, previous)
    \/ Run \/ Supply \/ NextCommand \/ Over

Spec == Init /\ [][Next]_vars

\* A started command runs to its end, and its caller answers what it asks.
FairSpec == Spec /\ WF_vars(Run) /\ WF_vars(Supply)

-----------------------------------------------------------------------------
\* A run that starts from what a completed run of the same version saved, and
\* from nothing else, asks no question and gives every template the answers it
\* had, whichever of them are served from the cache: the state file determines
\* the files, which is what the base of a merge is generated from.
IsReplay ==
    /\ runs > 0 /\ version = last.version
    /\ pc \in {"run", "need_input", "done"} /\ initial = last.saved

ReplayIsFaithful ==
    IsReplay =>
        /\ pc # "need_input" /\ typed = {}
        /\ pc = "done" => \A n \in executable : \A r \in Questions(n) : used[n][r] = last.used[n][r]

\* No template is generated with a preset, or with what another template was
\* given, for a question that the caller answered: an answer scoped to the
\* template comes first, a global one next.  (A command that has not begun has
\* neither: the variables are still those of the one before.)
CallerWins ==
    \A n \in executable : \A r \in Questions(n) :
        pc # "idle" /\ used[n][r] # None =>
            IF MultiTemplate /\ initial[ScopedTo(n, r)] # None
              THEN used[n][r] = initial[ScopedTo(n, r)]
              ELSE initial[Raw_(r)] # None => used[n][r] = initial[Raw_(r)]

\* A caller who answers each question under the key it was asked for is never
\* asked the same thing again, and gets to the end.
CallerReachesDone == pc = "run" ~> pc = "done"

\* The entry e is what executing the template would leave in the shared answers.
EqualsFreshRun(e) ==
    LET start == TemplateAnswers(Here)
    IN Open(Here, start) = {} /\ e.state = Complete(Here, start)

\* What a headless run stored and a headless run is served is what executing
\* the template would give, whatever was answered, preset or run in between.
CacheHitEqualsFreshRun ==
    Running /\ Here \in executable /\ mode = "headless" =>
        \A e \in Cached(Here) : e.by = "headless" => EqualsFreshRun(e)

-----------------------------------------------------------------------------
(***************************************************************************)
(* What the code's comments and the documents say, and the program does    *)
(* not do: TLC finds each of these violated.                               *)
(***************************************************************************)
\* Whoever stored it, what is served from the cache is what executing the
\* template would give: interactive results are not stored.
EveryHitEqualsFreshRun ==
    Running /\ Here \in executable => \A e \in Cached(Here) : EqualsFreshRun(e)

\* A preset is scoped to the dependency that declares it: a template for which
\* neither caller nor user answered a question has its own preset for it.
PresetStaysHome ==
    \A n \in executable : \A r \in Questions(n) :
        /\ used[n][r] # None /\ r \notin typed
        /\ initial[ScopedTo(n, r)] = None /\ initial[Raw_(r)] = None
        => used[n][r] = preset[n][r]

\* An update starts from the answers of the previous version: it does not ask
\* again what the caller answered for the version before.
UpgradeKeepsAnswers ==
    pc = "need_input" =>
        ~ \E k \in AnswerKey : /\ k.id = pending.id /\ initial[k] # None
                         /\ pending.ns # Global /\ k.ns # Global
                         /\ k.ns[1] = pending.ns[1] /\ k.ns # pending.ns
=============================================================================
