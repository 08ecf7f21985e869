------------------------------ MODULE Layering ------------------------------
(***************************************************************************)
(* How the outputs of many templates become one tree, for one path.  First *)
(* the outputs of a template and its dependencies are layered (vertically, *)
(* execute_composition), then those of the templates of the project        *)
(* (horizontally, batch_process).  Versions of a path by several templates *)
(* are a conflict: it goes to a resolver if all of them declare the same   *)
(* one, and else the last version wins.                                    *)
(*                                                                         *)
(* A resolver stands for image, tag and configuration together; which one  *)
(* a template declares for the path is its first whose pattern matches.    *)
(***************************************************************************)
EXTENDS Integers, Sequences, FiniteSets

CONSTANTS Template, Resolver, None

Absent == [by |-> None, of |-> <<>>]
File(t) == [by |-> t, of |-> <<>>]
Resolved(r, versions) == [by |-> r, of |-> versions]

ASSUME ResolverAssumption == Resolver \cap Template = {} /\ None \notin Resolver \cup Template

VARIABLES
    trees,        \* for each template of the project its flattened dependencies,
                  \* itself last
    executable, produces, declares, \* the templates, what they do about the path
    tree, at,     \* where the batch is
    outputs,      \* vfs_outputs of the tree: versions of the path
    sources,      \* the templates that these outputs are of
    layered,      \* the outputs of the trees that are layered
    conflicts,    \* file_conflicts: who had versions, and the resolver that merged
    merges,       \* all the conflicts there were
    status        \* map, layer, done or failed

templates == <<trees, executable, produces, declares>>
layerVars == <<templates, tree, at, outputs, sources, layered, conflicts, merges, status>>

Root(i) == trees[i][Len(trees[i])]
Roots == [i \in 1..Len(trees) |-> Root(i)]

-----------------------------------------------------------------------------
(***************************************************************************)
(* ResolverAwareLayerer.                                                   *)
(***************************************************************************)
\* The positions in vfs that have the path.
Variations(vfs) == {i \in 1..Len(vfs) : vfs[i] # Absent}

\* Mutant: templates without a resolver have no say.
ConsensusOfSome(choices) ==
    IF Cardinality(choices \ {None}) = 1 THEN CHOOSE r \in choices \ {None} : TRUE ELSE None

\* determine_consensus: no resolver is a choice, too.
Consensus(choices) == IF Cardinality(choices) = 1 THEN CHOOSE r \in choices : TRUE ELSE None

\* infos[i] is taken for the template whose output is vfs[i].
Choices(vfs, infos) == {declares[infos[i]] : i \in Variations(vfs)}

\* The versions of the path with their origins, in order.
Files(vfs, infos) ==
    LET at_ == SelectSeq([i \in 1..Len(vfs) |-> i], LAMBDA i : vfs[i] # Absent)
    IN [j \in 1..Len(at_) |-> <<vfs[at_[j]], infos[at_[j]]>>]

MaxOf(S) == CHOOSE x \in S : \A y \in S : y <= x

Winner(vfs) == vfs[MaxOf(Variations(vfs))]

InConflict(vfs) == Len(vfs) > 1 /\ Cardinality(Variations(vfs)) > 1

\* layer_merge
LayerMerge(vfs, infos) ==
    LET chosen == Consensus(Choices(vfs, infos))
    IN CASE Variations(vfs) = {}              -> Absent
         [] InConflict(vfs) /\ chosen # None  -> Resolved(chosen, Files(vfs, infos))
         [] OTHER                             -> Winner(vfs)

\* What layer_merge records, with the templates that the versions are really of.
Conflict(vfs, infos, of) ==
    [resolver  |-> Consensus(Choices(vfs, infos)),
     origins   |-> {infos[i] : i \in Variations(vfs)},
     templates |-> {of[i] : i \in Variations(vfs)},
     result    |-> LayerMerge(vfs, infos)]

Conflicts(vfs, infos, of) == IF InConflict(vfs) THEN {Conflict(vfs, infos, of)} ELSE {}

-----------------------------------------------------------------------------
LayerInit ==
    /\ tree = 1 /\ at = 1
    /\ outputs = <<>> /\ sources = <<>> /\ layered = <<>>
    /\ conflicts = {} /\ merges = {}
    /\ status = "map"

Here == trees[tree][at]

\* An executable dependency has an output, with the path or without.
Execute ==
    /\ status = "map" /\ at <= Len(trees[tree]) /\ Here \in executable
    /\ outputs' = Append(outputs, IF Here \in produces THEN File(Here) ELSE Absent)
    /\ sources' = Append(sources, Here)
    /\ at' = at + 1
    /\ conflicts' = IF at = 1 THEN {} ELSE conflicts
    /\ UNCHANGED <<templates, tree, layered, merges, status>>

\* A group has none.
SkipGroup ==
    /\ status = "map" /\ at <= Len(trees[tree]) /\ Here \notin executable
    /\ at' = at + 1
    /\ conflicts' = IF at = 1 THEN {} ELSE conflicts
    /\ UNCHANGED <<templates, tree, outputs, sources, layered, merges, status>>

\* build_template_infos: of every dependency, groups too.
Infos == trees[tree]

LayerTree ==
    /\ status = "map" /\ at > Len(trees[tree])
    /\ layered' = Append(layered, LayerMerge(outputs, Infos))
    /\ conflicts' = Conflicts(outputs, Infos, sources)
    /\ merges' = merges \cup conflicts'
    /\ outputs' = <<>> /\ sources' = <<>> /\ at' = 1 /\ tree' = tree + 1
    /\ status' = IF tree < Len(trees) THEN "map" ELSE "layer"
    /\ UNCHANGED templates

\* A single template is not layered again, and its conflicts stay.
Recorded(new) == IF Len(trees) = 1 THEN conflicts ELSE new

LayeredProject == IF Len(trees) = 1 THEN layered ELSE <<LayerMerge(layered, Roots)>>

\* layer_merge_with_resolvers: only the roots' resolvers count.
LayerProject ==
    /\ status = "layer"
    /\ layered' = LayeredProject
    /\ conflicts' = Recorded(Conflicts(layered, Roots, Roots))
    /\ merges' = merges \cup Conflicts(layered, Roots, Roots)
    /\ status' = "done"
    /\ UNCHANGED <<templates, tree, at, outputs, sources>>

\* A resolver that fails ends the run.
ResolverFails ==
    /\ \/ /\ status = "map" /\ at > Len(trees[tree])
          /\ \E c \in Conflicts(outputs, Infos, sources) : c.resolver # None /\ status' = "failed"
       \/ /\ status = "layer"
          /\ \E c \in Conflicts(layered, Roots, Roots) : c.resolver # None /\ status' = "failed"
    /\ UNCHANGED <<templates, tree, at, outputs, sources, layered, conflicts, merges>>

LayerStep == Execute \/ SkipGroup \/ LayerTree \/ LayerProject \/ ResolverFails

-----------------------------------------------------------------------------
\* A resolver merges exactly those conflicts where each template that has a
\* version declares it, and it is told which version is whose; otherwise the
\* version that is last in the order of execution wins.
ConsensusIsUnanimous ==
    \A m \in merges :
        /\ m.origins = m.templates
        /\ \A r \in Resolver : (m.resolver = r) <=> \A t \in m.templates : declares[t] = r
        /\ m.resolver # None => m.result.by = m.resolver

\* All conflicts that arose in layering are in the state file: TLC finds this
\* violated, because each layering replaces what the one before recorded.
ConflictsAreRecorded == status = "done" => conflicts = merges

\* A project of one template is layered once, and loses none.
SingleRecordsConflicts == Len(trees) = 1 => ConflictsAreRecorded
=============================================================================
