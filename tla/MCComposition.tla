---------------------------- MODULE MCComposition ---------------------------
(***************************************************************************)
(* All graphs of three templates, and all of four where no template        *)
(* depends on the root, which is in the middle of the sorted ids; and, for *)
(* a project of one template or two that share dependencies, all choices   *)
(* of who has the path and which resolver each declares.                   *)
(***************************************************************************)
EXTENDS Composition, TLC

\* A batch of one template whose graph is what matters: all but the root, which
\* is last in any case, have the path.
Graph(d, declare) ==
    [roots |-> <<2>>, depends |-> d, declaring |-> declare, executable |-> Id,
     produces |-> Id \ {2}, declares |-> [n \in Id |-> None]]

EveryGraph ==
    {Graph(d, declare) :
        d \in {g \in [Id -> SUBSET Id] :
                 (\E x \in Id : 2 \in g[x]) => g[4] = {} /\ \A x \in Id : 4 \notin g[x]},
        declare \in {{1, 2, 3, 4}, {1, 3}, {2, 4}}}

On(a, b, c, d) == 1 :> a @@ 2 :> b @@ 3 :> c @@ 4 :> d

\* The choices that are left for a project of which the dependencies are given.
Choosing(roots, d, groups) ==
    [roots : {roots}, depends : {d}, declaring : {{}}, executable : {Id \ g : g \in groups},
     produces : SUBSET Id, declares : [Id -> Resolver \cup {None}]]

EveryChoice ==
    \* 2 depends on 1 and 3, one on the other
    Choosing(<<2>>, On({3}, {1, 3}, {}, {}), {{}, {2}})
    \* two templates with a dependency each, and two that share theirs
    \cup Choosing(<<2, 4>>, On({}, {1}, {}, {3}), {{}, {2}, {4}})
    \cup Choosing(<<4, 2>>, On({}, {1}, {}, {1}), {{}})

MCBatches == EveryGraph \cup EveryChoice

\* A group is among the dependencies.
MCInnerGroup == Choosing(<<4>>, On({}, {}, {}, {1, 2, 3}), {{2}})

TwoTrees == Choosing(<<2, 4>>, On({}, {1}, {}, {3}), {{}})
=============================================================================
