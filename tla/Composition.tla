----------------------------- MODULE Composition ----------------------------
(***************************************************************************)
(* A batch of templates (batch_process, src/cyanprint/src/run.rs): for one *)
(* after another the dependencies are resolved, executed in that order,    *)
(* and their outputs layered (execute_composition); then the outputs of    *)
(* all are layered.  DependencyTree has the first, Layering the rest.      *)
(***************************************************************************)
EXTENDS DependencyTree, Layering

\* What is considered: [roots, depends, declaring, executable, produces, declares],
\* where the templates of the project are roots.
CONSTANT Batches

ASSUME TemplatesAssumption == Id \subseteq Template

ASSUME BatchesAssumption ==
    \A b \in Batches :
        /\ b.roots \in Seq(Id) /\ b.roots # <<>>
        /\ b.depends \in [Id -> SUBSET Id] /\ b.declaring \subseteq Id
        /\ b.executable \subseteq Id /\ b.declares \in [Id -> Resolver \cup {None}]

vars == <<walkVars, layerVars>>

Init ==
    /\ \E b \in Batches :
         /\ trees = [i \in DOMAIN b.roots |-> <<b.roots[i]>>]
         /\ depends = b.depends /\ declaring = b.declaring
         /\ executable = b.executable /\ produces = b.produces \cap b.executable
         /\ declares = b.declares
    /\ root = Root(1)
    /\ WalkInit /\ LayerInit

Mapping == status = "map"

\* resolve_dependencies, for the template whose turn it is.
Resolve ==
    /\ Mapping /\ walk = "walking"
    /\ WalkStep
    /\ trees' = IF walk' = "done"
                  THEN [trees EXCEPT ![tree] = [i \in DOMAIN flattened' |-> flattened'[i].id]]
                  ELSE trees
    /\ status' = IF walk' = "failed" THEN "failed" ELSE status
    /\ UNCHANGED <<executable, produces, declares, tree, at, outputs, sources, layered,
                   conflicts, merges>>

\* Its composition, and then the layering of the project.
Compose ==
    /\ walk = "done"
    /\ LayerStep
    /\ IF tree' # tree /\ status' = "map" THEN WalkAgain(Root(tree')) ELSE UNCHANGED walkVars

Over == status \in {"done", "failed"} /\ UNCHANGED vars

Next == Resolve \/ Compose \/ Over

Spec == Init /\ [][Next]_vars

\* The walk is a plain recursive function; executors and resolvers are called
\* with a timeout.
FairSpec == Spec /\ WF_vars(Resolve) /\ WF_vars(Compose)

-----------------------------------------------------------------------------
\* Every variable has its type.
TypeOK ==
    /\ depends \in [Id -> SUBSET Id] /\ declaring \subseteq Id /\ root \in Id
    /\ Ids(stack) \cup Ids(flattened) \cup visited \subseteq Id
    /\ walk \in {"walking", "done", "failed"} /\ status \in {"map", "layer", "done", "failed"}
    /\ \A i \in DOMAIN trees : trees[i] \in Seq(Id)
    /\ produces \subseteq executable /\ executable \subseteq Id
    /\ declares \in [Id -> Resolver \cup {None}]

\* Whether template x of tree i is executed after y of tree j for a reason: its
\* tree comes later, or it depends on y.  (On a cycle the walk has to begin
\* somewhere, and may list a template before what it depends on.)
Overrides(i, x, j, y) ==
    \/ i > j
    \/ i = j /\ y \in Under(x) /\ x \notin Under(x)

\* If no resolver merged anything, the path is a version that none of those
\* overrides that have one: a template wins over its dependencies, however they
\* are reached, and over the templates installed before it.  Walking, executing
\* and layering twice all have to keep the order for that.
DependentsWin ==
    status = "done" /\ (\A m \in merges : m.resolver = None) =>
        LET Producers == {p \in (DOMAIN trees) \X produces : \E k \in DOMAIN trees[p[1]] : trees[p[1]][k] = p[2]}
        IN IF Producers = {} THEN layered[1] = Absent
           ELSE \E p \in Producers :
                  /\ layered[1] = File(p[2])
                  /\ \A q \in Producers : ~Overrides(q[1], q[2], p[1], p[2])

\* A batch ends, for every graph of dependencies.
BatchEnds == <>(status \in {"done", "failed"})
=============================================================================
