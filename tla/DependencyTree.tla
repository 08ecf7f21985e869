---------------------------- MODULE DependencyTree --------------------------
(***************************************************************************)
(* DefaultDependencyResolver::resolve_dependencies: the depth-first walk   *)
(* that flattens the dependencies of a template into the order they are    *)
(* executed in.  A call of flatten_impl is a frame of `stack`; `visited`   *)
(* and `flattened` are shared by all of them.  Nothing keeps authors from  *)
(* publishing cycles, so any graph is considered.                          *)
(*                                                                         *)
(* Ids are numbers, because they are sorted.  What a parent presets for a  *)
(* dependency is modelled by one question, answered with the parent's id.  *)
(***************************************************************************)
EXTENDS Integers, Sequences, FiniteSets

CONSTANT Id

ASSUME IdAssumption == Id \subseteq Nat /\ IsFiniteSet(Id)

NoPreset == -1

VARIABLES
    depends,    \* depends[n]: what n depends on
    declaring,  \* the parents that preset the question for their dependencies
    root,       \* the template whose dependencies are resolved
    stack,      \* the calls of flatten_impl: [id, rest, preset]
    visited,
    flattened,  \* the result: [id, preset]
    walk        \* walking, done or failed

graph == <<depends, declaring, root>>
walkVars == <<graph, stack, visited, flattened, walk>>

Ids(s) == {s[i].id : i \in 1..Len(s)}
Top == stack[Len(stack)]
Below == SubSeq(stack, 1, Len(stack) - 1)

\* sorted_deps, in turn.
NextDep == CHOOSE d \in Top.rest : \A e \in Top.rest : d <= e

Walking == walk = "walking" /\ stack # <<>>

Preset == IF Top.id \in declaring THEN Top.id ELSE NoPreset

\* Mutant: the loop stays where it is.
AdvancedNot == stack

\* The caller goes on with its next dependency.
Advanced == [stack EXCEPT ![Len(stack)].rest = @ \ {NextDep}]

\* The walk begins.
FirstCall(r) == <<[id |-> r, rest |-> depends[r], preset |-> NoPreset]>>

WalkInit ==
    /\ stack = FirstCall(root) /\ visited = {root} /\ flattened = <<>> /\ walk = "walking"

WalkAgain(r) ==
    /\ root' = r /\ stack' = FirstCall(r) /\ visited' = {r} /\ flattened' = <<>>
    /\ walk' = "walking"
    /\ UNCHANGED <<depends, declaring>>

\* Mutant: what is listed has its answers.
MergedNot(old, new) == old

\* entry(key).or_insert(answer)
Merged(old, new) == IF old = NoPreset THEN new ELSE old

\* The dependency is in the result already, through another branch.
MergePresets ==
    /\ Walking /\ Top.rest # {}
    /\ NextDep \in Ids(flattened)
    /\ flattened' = [i \in 1..Len(flattened) |->
                        IF flattened[i].id = NextDep
                          THEN [flattened[i] EXCEPT !.preset = Merged(@, Preset)]
                          ELSE flattened[i]]
    /\ stack' = Advanced
    /\ UNCHANGED <<graph, visited, walk>>

\* Mutant: only the result is looked at.
IsVisitedNever == FALSE

IsVisited == NextDep \in visited

\* The dependency is being walked: a cycle.  What is preset for it is dropped.
SkipVisited ==
    /\ Walking /\ Top.rest # {}
    /\ NextDep \notin Ids(flattened) /\ IsVisited
    /\ stack' = Advanced
    /\ UNCHANGED <<graph, visited, flattened, walk>>

Mark == visited \cup {NextDep}

Descend ==
    /\ Walking /\ Top.rest # {}
    /\ NextDep \notin Ids(flattened) /\ ~IsVisited
    /\ stack' = Append(Advanced, [id |-> NextDep, rest |-> depends[NextDep], preset |-> Preset])
    /\ visited' = Mark
    /\ UNCHANGED <<graph, flattened, walk>>

\* The registry does not have the template, or does not answer.
FetchFails ==
    /\ Walking /\ Top.rest # {}
    /\ NextDep \notin Ids(flattened) /\ ~IsVisited
    /\ walk' = "failed"
    /\ UNCHANGED <<graph, stack, visited, flattened>>

\* Mutant: a template goes before its dependencies.
PushFirst == <<[id |-> Top.id, preset |-> Top.preset]>> \o flattened

Push == Append(flattened, [id |-> Top.id, preset |-> Top.preset])

Return ==
    /\ Walking /\ Top.rest = {}
    /\ flattened' = Push
    /\ stack' = Below
    /\ walk' = IF Len(stack) = 1 THEN "done" ELSE "walking"
    /\ UNCHANGED <<graph, visited>>

WalkStep == MergePresets \/ SkipVisited \/ Descend \/ FetchFails \/ Return

-----------------------------------------------------------------------------
(***************************************************************************)
(* Properties.                                                             *)
(***************************************************************************)
Closed(S) == \A x \in S : depends[x] \subseteq S

\* The ids that the dependencies lead to from those in S, and these.
Reach(S) == {x \in Id : \A T \in SUBSET Id : S \subseteq T /\ Closed(T) => x \in T}

Under(x) == Reach(depends[x])
Reachable == Reach({root})
Position(x) == CHOOSE i \in 1..Len(flattened) : flattened[i].id = x

Distinct(s) == \A i, j \in 1..Len(s) : s[i].id = s[j].id => i = j

\* No template is executed twice, whatever branches and cycles lead to it: the
\* calls under way and the result have no id in common and none twice.  In the
\* end all that the root reaches is executed, and nothing else.
ExecutedOnce ==
    /\ walk = "done" => Ids(flattened) = Reachable
    /\ Distinct(flattened) /\ Distinct(stack)
    /\ Ids(stack) \cap Ids(flattened) = {}

\* A template that a parent presets an answer for gets one, whichever branch it
\* is reached through first, and it is that of one of its parents.  What is
\* preset along a cycle, for a template that is being walked, is lost.
PresetsArrive ==
    walk = "done" =>
        \A x \in Reachable \cap declaring : \A d \in depends[x] :
            x \notin Under(d) \cup {d} =>
                LET by == flattened[Position(d)].preset IN by \in declaring /\ d \in depends[by]
=============================================================================
