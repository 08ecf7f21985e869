-------------------------- MODULE CompositionProofs -------------------------
(***************************************************************************)
(* Proofs about Composition, for every finite set of ids, every graph of   *)
(* dependencies (cycles too) and every batch: the walk lists what the root *)
(* reaches, each template once, and what a parent presets arrives; if no   *)
(* group is a dependency, resolvers merge what all agree about; and what   *)
(* none of them merges is of a template that nothing overrides.            *)
(***************************************************************************)
EXTENDS Composition, TLAPS, WellFoundedInduction, SequenceTheorems, FiniteSetTheorems

-----------------------------------------------------------------------------
(***************************************************************************)
(* Reachability.                                                           *)
(***************************************************************************)
LEMMA ReachBasics ==
    ASSUME NEW S \in SUBSET Id
    PROVE  /\ S \subseteq Reach(S) /\ Reach(S) \subseteq Id
           /\ \A T \in SUBSET Id : S \subseteq T /\ Closed(T) => Reach(S) \subseteq T
  BY DEF Reach

\* What is reached has all its dependencies reached.
LEMMA ReachClosed ==
    ASSUME depends \in [Id -> SUBSET Id], NEW S \in SUBSET Id, NEW x \in Reach(S)
    PROVE  depends[x] \subseteq Reach(S)
<1> SUFFICES ASSUME NEW y \in depends[x], NEW T \in SUBSET Id, S \subseteq T, Closed(T)
             PROVE  y \in Id /\ y \in T
  BY DEF Reach
<1>1. x \in Id /\ x \in T
  BY DEF Reach
<1> QED
  BY <1>1 DEF Closed

LEMMA ReachUnchanged ==
    ASSUME depends' = depends, NEW S
    PROVE  Reach(S)' = Reach(S)
  BY DEF Reach, Closed

-----------------------------------------------------------------------------
(***************************************************************************)
(* The invariant of the walk.                                              *)
(***************************************************************************)
Frame == [id : Id, rest : SUBSET Id, preset : Int]
Item == [id : Id, preset : Int]

WalkTyped ==
    /\ depends \in [Id -> SUBSET Id] /\ declaring \subseteq Id /\ root \in Id
    /\ stack \in Seq(Frame) /\ flattened \in Seq(Item)
    /\ walk \in {"walking", "done", "failed"}

\* visited is what is being walked and what is listed, and these are apart.
NoneTwice ==
    /\ Distinct(stack) /\ Distinct(flattened)
    /\ \A i \in 1..Len(stack), j \in 1..Len(flattened) : stack[i].id # flattened[j].id
    /\ visited = Ids(stack) \cup Ids(flattened)

\* Dependencies that a call has gone through are visited, and all of those that
\* are listed.
ChildrenFollow ==
    /\ \A i \in 1..Len(stack) :
          /\ stack[i].rest \subseteq depends[stack[i].id]
          /\ depends[stack[i].id] \ stack[i].rest \subseteq visited
    /\ \A j \in 1..Len(flattened) : depends[flattened[j].id] \subseteq visited

\* What is visited is reached; the first call is for the root, which is listed
\* last, when no call is under way.
Rooted ==
    /\ root \in visited /\ visited \subseteq Reachable
    /\ stack # <<>> => stack[1].id = root
    /\ walk = "done" => stack = <<>> /\ flattened # <<>> /\ flattened[Len(flattened)].id = root

\* A call leads to those above it.
OnPath ==
    \A i, j \in 1..Len(stack) : i < j => stack[j].id \in Under(stack[i].id)

\* A preset is that of a parent.
OfParent(d, by) == by # NoPreset => by \in declaring /\ d \in depends[by]

PresetsOfParents ==
    /\ \A i \in 1..Len(stack) : OfParent(stack[i].id, stack[i].preset)
    /\ \A j \in 1..Len(flattened) : OfParent(flattened[j].id, flattened[j].preset)

HasPreset(d) ==
    /\ \A i \in 1..Len(stack) : stack[i].id = d => stack[i].preset # NoPreset
    /\ \A j \in 1..Len(flattened) : flattened[j].id = d => flattened[j].preset # NoPreset

\* Dependencies that a declaring parent has gone through have a preset, or lead
\* back to it.
FollowedHavePreset ==
    /\ \A i \in 1..Len(stack) : stack[i].id \in declaring =>
          \A d \in depends[stack[i].id] \ stack[i].rest :
              HasPreset(d) \/ stack[i].id \in Under(d) \cup {d}
    /\ \A j \in 1..Len(flattened) : flattened[j].id \in declaring =>
          \A d \in depends[flattened[j].id] :
              HasPreset(d) \/ flattened[j].id \in Under(d) \cup {d}

WalkInv ==
    /\ WalkTyped /\ NoneTwice /\ ChildrenFollow /\ Rooted /\ OnPath
    /\ PresetsOfParents /\ FollowedHavePreset

\* The templates of the project, and whose turn it is.
BatchTyped ==
    /\ trees \in Seq(Seq(Id) \ {<<>>})
    /\ tree \in Nat \ {0}
    /\ status = "map" => tree \in 1..Len(trees)

IInv == WalkInv /\ BatchTyped

-----------------------------------------------------------------------------
LEMMA Entries ==
    ASSUME WalkTyped
    PROVE  /\ Len(stack) \in Nat /\ Len(flattened) \in Nat
           /\ \A i \in 1..Len(stack) :
                 /\ stack[i] \in Frame
                 /\ stack[i].id \in Id /\ stack[i].rest \in SUBSET Id /\ stack[i].preset \in Int
           /\ \A j \in 1..Len(flattened) :
                 /\ flattened[j] \in Item
                 /\ flattened[j].id \in Id /\ flattened[j].preset \in Int
<1>1. /\ Len(stack) \in Nat /\ Len(flattened) \in Nat
      /\ \A i \in 1..Len(stack) : stack[i] \in Frame
      /\ \A j \in 1..Len(flattened) : flattened[j] \in Item
  BY DEF WalkTyped
<1>2. \A f \in Frame : f.id \in Id /\ f.rest \in SUBSET Id /\ f.preset \in Int
  BY DEF Frame
<1>3. \A f \in Item : f.id \in Id /\ f.preset \in Int
  BY DEF Item
<1> QED
  BY <1>1, <1>2, <1>3

LEMMA ListedOnce == WalkInv => ExecutedOnce
<1> SUFFICES ASSUME WalkInv PROVE ExecutedOnce
  OBVIOUS
<1> USE DEF WalkInv
<1>1. Distinct(flattened) /\ Distinct(stack) /\ Ids(stack) \cap Ids(flattened) = {}
  BY DEF NoneTwice, Ids
<1>2. ASSUME walk = "done" PROVE Ids(flattened) = Reachable
  <2>1. stack = <<>> /\ Ids(stack) = {}
    BY <1>2 DEF Rooted, Ids
  <2>2. visited = Ids(flattened) /\ visited \subseteq Id
    BY <2>1, Entries DEF NoneTwice, Ids
  <2>3. Closed(visited)
    BY <2>2 DEF Closed, ChildrenFollow, Ids
  <2>4. Reachable \subseteq visited
    BY <2>2, <2>3, ReachBasics DEF Reachable, Rooted, WalkTyped
  <2> QED
    BY <2>2, <2>4 DEF Rooted
<1> QED
  BY <1>1, <1>2 DEF ExecutedOnce

LEMMA PresetsAreThere == WalkInv => PresetsArrive
<1> SUFFICES ASSUME WalkInv, walk = "done",
                    NEW x \in Reachable \cap declaring, NEW d \in depends[x],
                    x \notin Under(d) \cup {d}
             PROVE  LET by == flattened[Position(d)].preset IN by \in declaring /\ d \in depends[by]
  BY DEF PresetsArrive
<1>1. Ids(flattened) = Reachable
  BY ListedOnce DEF ExecutedOnce
<1>2. root \in Id /\ depends \in [Id -> SUBSET Id]
  BY DEF WalkInv, WalkTyped
<1>3. d \in Reachable
  BY <1>2, ReachClosed DEF Reachable
<1>4. PICK j \in 1..Len(flattened) : flattened[j].id = x
  BY <1>1 DEF Ids
<1>5. HasPreset(d)
  BY <1>4 DEF WalkInv, FollowedHavePreset
<1>6. \E k \in 1..Len(flattened) : flattened[k].id = d
  BY <1>1, <1>3 DEF Ids
<1>7. Position(d) \in 1..Len(flattened) /\ flattened[Position(d)].id = d
  BY <1>6 DEF Position
<1> QED
  BY <1>5, <1>7 DEF WalkInv, PresetsOfParents, OfParent, HasPreset

-----------------------------------------------------------------------------
(***************************************************************************)
(* The steps of the walk.                                                  *)
(***************************************************************************)
\* The least of a set of dependencies exists.
LEMMA TopIsFrame ==
    ASSUME WalkTyped, stack # <<>>
    PROVE  /\ Len(stack) \in Nat \ {0} /\ Top = stack[Len(stack)]
           /\ Top \in Frame /\ Top.id \in Id /\ Top.rest \in SUBSET Id /\ Top.preset \in Int
<1>1. Len(stack) \in Nat \ {0}
  BY DEF WalkTyped
<1> QED
  BY <1>1, Entries DEF Top

LEMMA NextDepIsLeft ==
    ASSUME WalkTyped, stack # <<>>, Top.rest # {}
    PROVE  NextDep \in Top.rest
<1>1. Top.rest \subseteq Nat
  BY TopIsFrame, IdAssumption
<1> DEFINE R == OpToRel(<, Nat)
<1>2. \A d, e \in Nat : d < e => <<d, e>> \in R
  BY DEF OpToRel
<1>3. IsWellFoundedOn(R, Nat)
  BY NatLessThanWellFounded
<1> HIDE DEF R
<1>4. PICK d \in Top.rest : \A e \in Top.rest : ~(<<e, d>> \in R)
  BY <1>1, <1>3, WFMin
<1>5. ASSUME NEW e \in Top.rest PROVE d <= e
  <2>1. d \in Nat /\ e \in Nat /\ ~(e < d)
    BY <1>1, <1>2, <1>4
  <2> QED
    BY <2>1
<1> QED
  BY <1>5 DEF NextDep

LEMMA AdvancedType ==
    ASSUME WalkTyped, stack # <<>>
    PROVE  /\ Advanced \in Seq(Frame) /\ Len(Advanced) = Len(stack)
           /\ \A i \in 1..Len(stack) :
                 /\ Advanced[i] \in Frame
                 /\ Advanced[i].id = stack[i].id /\ Advanced[i].preset = stack[i].preset
                 /\ Advanced[i].rest = IF i = Len(stack) THEN stack[i].rest \ {NextDep} ELSE stack[i].rest
<1> DEFINE n == Len(stack)
           top == [stack[n] EXCEPT !.rest = @ \ {NextDep}]
<1>1. n \in Nat \ {0} /\ stack[n] \in Frame
  BY TopIsFrame
<1>2. /\ top \in Frame
      /\ top.id = stack[n].id /\ top.preset = stack[n].preset /\ top.rest = stack[n].rest \ {NextDep}
  BY <1>1 DEF Frame
<1>3. Advanced = [stack EXCEPT ![n] = top]
  BY DEF Advanced
<1> HIDE DEF top
<1>4. /\ Advanced \in Seq(Frame) /\ Len(Advanced) = n
      /\ \A i \in 1..n : Advanced[i] = IF i = n THEN top ELSE stack[i]
  BY <1>1, <1>2, <1>3 DEF WalkTyped
<1> QED
  BY <1>2, <1>4, Entries

\* Going on with the next dependency keeps the invariant if that one is visited
\* and, in case its parent declares presets, has one or leads back to it.
LEMMA AdvanceKeeps ==
    ASSUME WalkInv, Walking, Top.rest # {}, stack' = Advanced, NEW dep \in visited, dep = NextDep,
           flattened' \in Seq(Item), Len(flattened') = Len(flattened),
           \A j \in 1..Len(flattened) :
              /\ flattened'[j].id = flattened[j].id
              /\ flattened[j].preset # NoPreset => flattened'[j].preset = flattened[j].preset
              /\ OfParent(flattened'[j].id, flattened'[j].preset),
           Top.id \in declaring => HasPreset(dep)' \/ Top.id \in Under(dep) \cup {dep},
           UNCHANGED <<graph, visited, walk>>
    PROVE  WalkInv'
<1> DEFINE n == Len(stack)
<1> USE DEF WalkInv, graph
<1>1. stack # <<>>
  BY DEF Walking
<1>2. /\ n \in Nat \ {0} /\ n \in 1..n /\ Top = stack[n] /\ dep \in Top.rest
  BY <1>1, TopIsFrame, NextDepIsLeft
<1>3. /\ Advanced \in Seq(Frame) /\ Len(Advanced) = n
      /\ \A i \in 1..n :
            /\ Advanced[i].id = stack[i].id /\ Advanced[i].preset = stack[i].preset
            /\ Advanced[i].rest = IF i = n THEN stack[i].rest \ {dep} ELSE stack[i].rest
  BY <1>1, AdvancedType
<1>4. /\ n \in Nat \ {0} /\ Top = stack[n] /\ dep \in Top.rest
      /\ stack' \in Seq(Frame) /\ Len(stack') = n
      /\ \A i \in 1..n : stack'[i].id = stack[i].id /\ stack'[i].preset = stack[i].preset
      /\ \A i \in 1..n : i # n => stack'[i].rest = stack[i].rest
      /\ stack'[n].rest = stack[n].rest \ {dep}
  BY <1>2, <1>3
<1>5. /\ \A x : Under(x)' = Under(x)
      /\ Reachable' = Reachable
  BY ReachUnchanged DEF Under, Reachable
<1>6. Ids(stack)' = Ids(stack) /\ Ids(flattened)' = Ids(flattened)
  <2>1. Ids(stack)' = Ids(stack)
    BY <1>4 DEF Ids
  <2>2. Ids(flattened)' = Ids(flattened)
    <3> HIDE DEF WalkInv
    <3> QED
      BY DEF Ids
  <2> QED
    BY <2>1, <2>2
<1>7. WalkTyped'
  BY <1>4 DEF WalkTyped
<1>8. NoneTwice'
  BY <1>4, <1>6 DEF NoneTwice, Distinct
<1>9. ChildrenFollow'
  <2>1. ASSUME NEW i \in 1..n
        PROVE  /\ stack'[i].rest \subseteq depends[stack'[i].id]
               /\ depends[stack'[i].id] \ stack'[i].rest \subseteq visited
    BY <1>4 DEF ChildrenFollow
  <2>2. \A j \in 1..Len(flattened) : depends[flattened'[j].id] \subseteq visited
    BY DEF ChildrenFollow
  <2> HIDE DEF WalkInv
  <2> QED
    BY <1>4, <2>1, <2>2 DEF ChildrenFollow
<1>10. Rooted'
  <2>1. stack # <<>> /\ stack'[1].id = stack[1].id /\ walk' # "done"
    BY <1>4 DEF Walking
  <2> QED
    BY <1>5, <2>1 DEF Rooted
<1>11. OnPath'
  BY <1>4, <1>5 DEF OnPath
<1>12. PresetsOfParents'
  BY <1>4 DEF PresetsOfParents, OfParent
<1>13. \A d : HasPreset(d) => HasPreset(d)'
  BY <1>4 DEF HasPreset
<1>14. FollowedHavePreset'
  <2>1. ASSUME NEW i \in 1..n, stack[i].id \in declaring, NEW d \in depends[stack[i].id] \ stack'[i].rest
        PROVE  HasPreset(d)' \/ stack[i].id \in Under(d) \cup {d}
    <3>1. CASE d \notin stack[i].rest
      BY <1>13, <2>1, <3>1 DEF FollowedHavePreset
    <3>2. CASE d \in stack[i].rest
      <4>1. i = n /\ d = dep
        BY <1>4, <2>1, <3>2
      <4> QED
        BY <1>4, <2>1, <4>1
    <3> QED
      BY <3>1, <3>2
  <2>2. ASSUME NEW j \in 1..Len(flattened), flattened[j].id \in declaring, NEW d \in depends[flattened[j].id]
        PROVE  HasPreset(d)' \/ flattened[j].id \in Under(d) \cup {d}
    BY <1>13, <2>2 DEF FollowedHavePreset
  <2> QED
    BY <1>4, <1>5, <2>1, <2>2 DEF FollowedHavePreset
<1> QED
  BY <1>7, <1>8, <1>9, <1>10, <1>11, <1>12, <1>14

LEMMA MergeKeeps == WalkInv /\ MergePresets => WalkInv'
<1> SUFFICES ASSUME WalkInv, MergePresets, NEW dep, dep = NextDep PROVE WalkInv'
  OBVIOUS
<1> DEFINE item(j) == IF flattened[j].id = dep
                        THEN [flattened[j] EXCEPT !.preset = Merged(@, Preset)]
                        ELSE flattened[j]
<1> USE DEF WalkInv
<1>1. /\ Top \in Frame /\ Top.id \in Id /\ Top = stack[Len(stack)] /\ Len(stack) \in 1..Len(stack)
      /\ dep \in Top.rest /\ Preset \in Int
      /\ Len(flattened) \in Nat
  BY TopIsFrame, NextDepIsLeft, Entries, IdAssumption DEF MergePresets, Walking, Preset, NoPreset
<1>2. dep \in depends[Top.id]
  BY <1>1 DEF ChildrenFollow
<1>3. OfParent(dep, Preset)
  BY <1>2 DEF OfParent, Preset
<1>4. ASSUME NEW j \in 1..Len(flattened)
      PROVE  /\ item(j) \in Item /\ item(j).id = flattened[j].id
             /\ item(j).preset = IF flattened[j].id = dep THEN Merged(flattened[j].preset, Preset)
                                                               ELSE flattened[j].preset
  <2>1. flattened[j] \in Item
    BY Entries
  <2>2. Merged(flattened[j].preset, Preset) \in Int
    BY <1>1, <2>1, Entries DEF Merged
  <2> QED
    BY <2>1, <2>2 DEF Item
<1>5. flattened' = [j \in 1..Len(flattened) |-> item(j)]
  BY DEF MergePresets
<1> HIDE DEF item
<1>6. /\ flattened' \in Seq(Item) /\ Len(flattened') = Len(flattened)
      /\ \A j \in 1..Len(flattened) : flattened'[j] = item(j)
  BY <1>1, <1>4, <1>5
<1>7. \A j \in 1..Len(flattened) :
         /\ flattened'[j].id = flattened[j].id
         /\ flattened[j].preset # NoPreset => flattened'[j].preset = flattened[j].preset
         /\ OfParent(flattened'[j].id, flattened'[j].preset)
  BY <1>3, <1>4, <1>6 DEF Merged, PresetsOfParents
<1>8. dep \in visited /\ \A i \in 1..Len(stack) : stack[i].id # dep
  BY DEF MergePresets, NoneTwice, Ids
<1>9. /\ stack' = Advanced /\ Len(stack') = Len(stack)
      /\ \A i \in 1..Len(stack) : stack'[i].id = stack[i].id
  BY AdvancedType DEF MergePresets, Walking
<1>10. Top.id \in declaring => HasPreset(dep)'
  <2> SUFFICES ASSUME Top.id \in declaring PROVE HasPreset(dep)'
    OBVIOUS
  <2>1. Preset # NoPreset
    BY <1>1, IdAssumption DEF Preset, NoPreset
  <2> QED
    BY <1>4, <1>6, <1>8, <1>9, <2>1 DEF HasPreset, Merged
<1> QED
  BY <1>6, <1>7, <1>8, <1>9, <1>10, AdvanceKeeps DEF MergePresets

\* What is skipped is under way, thus it leads to its parent: a cycle.
LEMMA SkipKeeps == WalkInv /\ SkipVisited => WalkInv'
<1> SUFFICES ASSUME WalkInv, SkipVisited, NEW dep, dep = NextDep PROVE WalkInv'
  OBVIOUS
<1> USE DEF WalkInv
<1>1. /\ Top = stack[Len(stack)] /\ Len(stack) \in Nat \ {0}
      /\ flattened \in Seq(Item) /\ dep \in visited
  BY TopIsFrame DEF SkipVisited, Walking, IsVisited, WalkTyped
<1>2. PICK i \in 1..Len(stack) : stack[i].id = dep
  BY <1>1 DEF SkipVisited, NoneTwice, Ids
<1>3. Top.id \in Under(dep) \cup {dep}
  BY <1>1, <1>2 DEF OnPath
<1>4. \A j \in 1..Len(flattened) : OfParent(flattened[j].id, flattened[j].preset)
  BY DEF PresetsOfParents
<1> QED
  BY <1>1, <1>3, <1>4, AdvanceKeeps DEF SkipVisited

LEMMA DescendKeeps == WalkInv /\ Descend => WalkInv'
<1> SUFFICES ASSUME WalkInv, Descend, NEW dep, dep = NextDep PROVE WalkInv'
  OBVIOUS
<1> DEFINE n == Len(stack)
           new == [id |-> dep, rest |-> depends[dep], preset |-> Preset]
<1> USE DEF WalkInv
<1>1. stack # <<>> /\ Top.rest # {} /\ walk = "walking"
  BY DEF Descend, Walking
<1>2. /\ n \in Nat \ {0} /\ n \in 1..n /\ Top = stack[n] /\ Top.id \in Id /\ dep \in Top.rest
  BY <1>1, TopIsFrame, NextDepIsLeft
<1>3. dep \in Id /\ dep \in depends[Top.id] /\ dep \notin visited
  BY <1>1, <1>2, TopIsFrame DEF ChildrenFollow, Descend, IsVisited
<1>4. Preset \in Int /\ OfParent(dep, Preset) /\ (Top.id \in declaring => Preset # NoPreset)
  <2>1. Top.id \in Nat
    BY <1>2, IdAssumption
  <2>2. Top.id \in declaring => Preset = Top.id
    BY DEF Preset
  <2>3. Top.id \notin declaring => Preset = NoPreset
    BY DEF Preset
  <2>4. Top.id # NoPreset /\ NoPreset \in Int
    BY <2>1 DEF NoPreset
  <2> QED
    BY <1>3, <2>1, <2>2, <2>3, <2>4 DEF OfParent
<1>5. /\ new \in Frame /\ new.id = dep /\ new.rest = depends[dep] /\ new.preset = Preset
  BY <1>3, <1>4 DEF Frame, WalkTyped
<1>6. /\ Advanced \in Seq(Frame) /\ Len(Advanced) = n
      /\ \A i \in 1..n :
            /\ Advanced[i].id = stack[i].id /\ Advanced[i].preset = stack[i].preset
            /\ Advanced[i].rest = IF i = n THEN stack[i].rest \ {dep} ELSE stack[i].rest
  BY <1>1, AdvancedType
<1>7. stack' = Append(Advanced, new) /\ visited' = visited \cup {dep}
  BY DEF Descend, Mark
<1> HIDE DEF new
<1>8. /\ stack' \in Seq(Frame) /\ Len(stack') = n + 1 /\ stack'[n + 1] = new
      /\ \A i \in 1..n : stack'[i] = Advanced[i]
  BY <1>2, <1>5, <1>6, <1>7
<1>9. /\ UNCHANGED <<depends, declaring, root, flattened, walk>>
      /\ \A x : Under(x)' = Under(x)
      /\ Reachable' = Reachable
  BY ReachUnchanged DEF Under, Reachable, Descend, graph
<1>10. \A i \in 1..(n + 1) : i \in 1..n \/ i = n + 1
  BY <1>2
<1>11. 1..n \subseteq 1..(n + 1) /\ n + 1 \in 1..(n + 1)
  BY <1>2
<1>12. /\ \A i \in 1..n : /\ stack'[i].id = stack[i].id /\ stack'[i].preset = stack[i].preset
                          /\ i # n => stack'[i].rest = stack[i].rest
       /\ stack'[n].rest = stack[n].rest \ {dep}
       /\ stack'[n + 1].id = dep /\ stack'[n + 1].rest = depends[dep] /\ stack'[n + 1].preset = Preset
  BY <1>2, <1>5, <1>6, <1>8
<1>13. Ids(stack)' = Ids(stack) \cup {dep} /\ Ids(flattened)' = Ids(flattened)
  BY <1>8, <1>9, <1>10, <1>11, <1>12 DEF Ids
<1>14. WalkTyped'
  BY <1>8, <1>9 DEF WalkTyped
<1>15. NoneTwice'
  <2>1. visited' = Ids(stack)' \cup Ids(flattened)'
    BY <1>7, <1>13 DEF NoneTwice
  <2>2. /\ \A i \in 1..n : stack[i].id # dep
        /\ \A j \in 1..Len(flattened) : flattened[j].id # dep
    BY <1>3 DEF NoneTwice, Ids
  <2>3. Distinct(stack)' /\ Distinct(flattened)'
    BY <1>8, <1>9, <1>10, <1>12, <2>2 DEF NoneTwice, Distinct
  <2>4. \A i \in 1..(n + 1), j \in 1..Len(flattened) : stack'[i].id # flattened[j].id
    BY <1>10, <1>12, <2>2 DEF NoneTwice
  <2> QED
    BY <1>8, <1>9, <2>1, <2>3, <2>4 DEF NoneTwice
<1>16. ChildrenFollow'
  BY <1>2, <1>7, <1>8, <1>9, <1>10, <1>12 DEF ChildrenFollow
<1>17. Rooted'
  <2>1. Top.id \in Reachable
    BY <1>2 DEF Rooted, NoneTwice, Ids
  <2>2. dep \in Reachable
    BY <1>3, <2>1, ReachClosed DEF Reachable, WalkTyped
  <2>3. stack'[1].id = root
    BY <1>1, <1>2, <1>12 DEF Rooted
  <2> QED
    BY <1>1, <1>7, <1>9, <2>2, <2>3 DEF Rooted
<1>18. OnPath'
  <2>1. ASSUME NEW i \in 1..n PROVE dep \in Under(stack[i].id)
    <3>1. stack[i].id \in Id /\ depends[stack[i].id] \in SUBSET Id
      BY Entries DEF WalkTyped
    <3>2. CASE i = n
      BY <1>2, <1>3, <3>1, <3>2, ReachBasics DEF Under
    <3>3. CASE i # n
      <4>1. Top.id \in Under(stack[i].id)
        BY <1>2, <3>3 DEF OnPath
      <4> QED
        BY <1>3, <3>1, <4>1, ReachClosed DEF Under, WalkTyped
    <3> QED
      BY <3>2, <3>3
  <2>2. ASSUME NEW i \in 1..(n + 1), NEW j \in 1..(n + 1), i < j
        PROVE  stack'[j].id \in Under(stack'[i].id)
    <3>1. i \in 1..n
      BY <1>2, <2>2
    <3>2. CASE j = n + 1
      BY <1>12, <2>1, <3>1, <3>2
    <3>3. CASE j \in 1..n
      BY <1>12, <2>2, <3>1, <3>3 DEF OnPath
    <3> QED
      BY <1>10, <3>2, <3>3
  <2> QED
    BY <1>8, <1>9, <2>2 DEF OnPath
<1>19. PresetsOfParents'
  BY <1>4, <1>8, <1>9, <1>10, <1>12 DEF PresetsOfParents, OfParent
<1>20. \A d : d # dep /\ HasPreset(d) => HasPreset(d)'
  BY <1>8, <1>9, <1>10, <1>12 DEF HasPreset
<1>21. Top.id \in declaring => HasPreset(dep)'
  <2>1. /\ \A i \in 1..n : stack[i].id # dep
        /\ \A j \in 1..Len(flattened) : flattened[j].id # dep
    BY <1>3 DEF NoneTwice, Ids
  <2> QED
    BY <1>4, <1>8, <1>9, <1>10, <1>12, <2>1 DEF HasPreset
<1>22. FollowedHavePreset'
  <2>1. ASSUME NEW i \in 1..n, stack[i].id \in declaring, NEW d \in depends[stack[i].id] \ stack'[i].rest
        PROVE  HasPreset(d)' \/ stack[i].id \in Under(d) \cup {d}
    <3>1. CASE d \notin stack[i].rest
      <4>1. d \in visited
        BY <3>1, <2>1 DEF ChildrenFollow
      <4> QED
        BY <1>3, <1>20, <2>1, <3>1, <4>1 DEF FollowedHavePreset
    <3>2. CASE d \in stack[i].rest
      <4>1. i = n /\ d = dep
        BY <1>12, <2>1, <3>2
      <4> QED
        BY <1>2, <1>21, <2>1, <4>1
    <3> QED
      BY <3>1, <3>2
  <2>2. ASSUME NEW j \in 1..Len(flattened), flattened[j].id \in declaring, NEW d \in depends[flattened[j].id]
        PROVE  HasPreset(d)' \/ flattened[j].id \in Under(d) \cup {d}
    <3>1. d \in visited
      BY <2>2 DEF ChildrenFollow
    <3> QED
      BY <1>3, <1>20, <2>2, <3>1 DEF FollowedHavePreset
  <2>3. depends[dep] \ stack'[n + 1].rest = {}
    BY <1>12
  <2> QED
    BY <1>8, <1>9, <1>10, <1>12, <2>1, <2>2, <2>3 DEF FollowedHavePreset
<1> QED
  BY <1>14, <1>15, <1>16, <1>17, <1>18, <1>19, <1>22

\* The top call is listed, with its preset.
LEMMA ReturnKeeps == WalkInv /\ Return => WalkInv'
<1> SUFFICES ASSUME WalkInv, Return PROVE WalkInv'
  OBVIOUS
<1> DEFINE n == Len(stack)
           m == Len(flattened)
           item == [id |-> Top.id, preset |-> Top.preset]
<1> USE DEF WalkInv
<1>1. stack # <<>> /\ Top.rest = {} /\ walk = "walking"
  BY DEF Return, Walking
<1>2. /\ n \in Nat \ {0} /\ n \in 1..n /\ Top = stack[n]
      /\ m \in Nat /\ item \in Item /\ item.id = stack[n].id /\ item.preset = stack[n].preset
  BY <1>1, TopIsFrame, Entries DEF Item
<1> HIDE DEF item
<1>3. /\ flattened' \in Seq(Item) /\ Len(flattened') = m + 1 /\ flattened'[m + 1] = item
      /\ \A j \in 1..m : flattened'[j] = flattened[j]
  <2>1. flattened' = Append(flattened, item)
    BY DEF Return, Push, item
  <2> QED
    BY <1>2, <2>1 DEF WalkTyped
<1>4. /\ stack' \in Seq(Frame) /\ Len(stack') = n - 1
      /\ \A i \in 1..(n - 1) : stack'[i] = stack[i]
  <2>1. stack' = SubSeq(stack, 1, n - 1)
    BY DEF Return, Below
  <2>2. stack \in Seq(Frame)
    BY DEF WalkTyped
  <2>3. \A i \in 1..(n - 1) : stack[i] \in Frame
    BY <1>2, <2>2
  <2>4. /\ SubSeq(stack, 1, n - 1) \in Seq(Frame)
        /\ Len(SubSeq(stack, 1, n - 1)) = IF 1 <= n - 1 THEN (n - 1) - 1 + 1 ELSE 0
        /\ \A i \in 1..((n - 1) - 1 + 1) : SubSeq(stack, 1, n - 1)[i] = stack[1 + i - 1]
    BY <1>2, <2>3, SubSeqProperties
  <2> HIDE DEF n
  <2>5. Len(SubSeq(stack, 1, n - 1)) = n - 1 /\ (n - 1) - 1 + 1 = n - 1
    BY <1>2, <2>4
  <2>6. ASSUME NEW i \in 1..(n - 1) PROVE 1 + i - 1 = i
    BY <1>2
  <2> QED
    BY <2>1, <2>4, <2>5, <2>6
<1>5. /\ UNCHANGED <<depends, declaring, root, visited>>
      /\ \A x : Under(x)' = Under(x)
      /\ Reachable' = Reachable
  BY ReachUnchanged DEF Under, Reachable, Return, graph
<1>6. /\ \A i \in 1..n : i \in 1..(n - 1) \/ i = n
      /\ \A j \in 1..(m + 1) : j \in 1..m \/ j = m + 1
      /\ 1..(n - 1) \subseteq 1..n /\ n \notin 1..(n - 1)
      /\ 1..m \subseteq 1..(m + 1) /\ m + 1 \in 1..(m + 1)
  BY <1>2
<1>7. WalkTyped'
  BY <1>3, <1>4, <1>5 DEF WalkTyped, Return
<1>8. NoneTwice'
  <2>1. (Ids(stack) \cup Ids(flattened))' = Ids(stack) \cup Ids(flattened)
    <3>1. Ids(flattened)' = Ids(flattened) \cup {stack[n].id}
      BY <1>2, <1>3, <1>6 DEF Ids
    <3>2. Ids(stack)' \cup {stack[n].id} = Ids(stack)
      BY <1>2, <1>4, <1>6 DEF Ids
    <3> QED
      BY <3>1, <3>2
  <2>2. \A i \in 1..(n - 1) : stack[i].id # stack[n].id
    BY <1>2, <1>6 DEF NoneTwice, Distinct
  <2>3. Distinct(stack)'
    <3>1. \A i, j \in 1..n : i # j => stack[i].id # stack[j].id
      BY DEF NoneTwice, Distinct
    <3> HIDE DEF n, m, WalkInv
    <3>2. \A i, j \in 1..(n - 1) : i # j => stack'[i].id # stack'[j].id
      BY <1>4, <1>6, <3>1
    <3> QED
      BY <1>4, <3>2 DEF Distinct
  <2>4. Distinct(flattened)'
    <3>1. \A j \in 1..m : flattened[j].id # stack[n].id
      BY <1>2 DEF NoneTwice
    <3> QED
      BY <1>2, <1>3, <1>6, <3>1 DEF NoneTwice, Distinct
  <2>5. \A i \in 1..(n - 1), j \in 1..(m + 1) : stack'[i].id # flattened'[j].id
    BY <1>2, <1>3, <1>4, <1>6, <2>2 DEF NoneTwice
  <2> QED
    BY <1>3, <1>4, <1>5, <2>1, <2>3, <2>4, <2>5 DEF NoneTwice
<1>9. ChildrenFollow'
  <2>1. depends[stack[n].id] \subseteq visited
    BY <1>1, <1>2 DEF ChildrenFollow
  <2>2. ASSUME NEW i \in 1..(n - 1)
        PROVE  /\ stack'[i].rest \subseteq depends[stack'[i].id]
               /\ depends[stack'[i].id] \ stack'[i].rest \subseteq visited
    BY <1>4, <1>6 DEF ChildrenFollow
  <2>3. ASSUME NEW j \in 1..(m + 1) PROVE depends[flattened'[j].id] \subseteq visited
    <3>1. j \in 1..m => depends[flattened[j].id] \subseteq visited
      BY DEF ChildrenFollow
    <3> HIDE DEF WalkInv
    <3> QED
      BY <1>2, <1>3, <1>6, <2>1, <3>1
  <2> HIDE DEF WalkInv
  <2> QED
    BY <1>3, <1>4, <1>5, <2>2, <2>3 DEF ChildrenFollow
<1>10. Rooted'
  <2>1. walk' = "done" => n = 1
    BY DEF Return
  <2>2. walk' = "done" => stack' = <<>>
    <3>1. stack' # <<>> => Len(stack') \in Nat \ {0}
      BY <1>4, EmptySeq
    <3>2. n = 1 => Len(stack') = 0
      BY <1>4
    <3> QED
      BY <2>1, <3>1, <3>2
  <2>3. walk' = "done" => flattened' # <<>> /\ flattened'[Len(flattened')].id = root
    <3>1. flattened' # <<>>
      BY <1>2, <1>3, EmptySeq
    <3>2. n = 1 => stack[n].id = root
      BY <1>1 DEF Rooted
    <3> QED
      BY <1>2, <1>3, <2>1, <3>1, <3>2
  <2>4. stack' # <<>> => stack'[1].id = root
    <3>1. stack' # <<>> => n - 1 \in Nat \ {0}
      BY <1>4, EmptySeq
    <3>2. stack' # <<>> => 1 \in 1..(n - 1)
      <4>1. \A k \in Nat \ {0} : 1 \in 1..k
        OBVIOUS
      <4> QED
        BY <3>1, <4>1
    <3> QED
      BY <1>1, <1>4, <3>2 DEF Rooted
  <2> QED
    BY <1>5, <2>2, <2>3, <2>4 DEF Rooted
<1>11. OnPath'
  BY <1>4, <1>5, <1>6 DEF OnPath
<1>12. PresetsOfParents'
  BY <1>2, <1>3, <1>4, <1>5, <1>6 DEF PresetsOfParents, OfParent
<1>13. \A d : HasPreset(d) => HasPreset(d)'
  <2> SUFFICES ASSUME NEW d, HasPreset(d) PROVE HasPreset(d)'
    OBVIOUS
  <2>1. \A i \in 1..n : stack[i].id = d => stack[i].preset # NoPreset
    BY DEF HasPreset
  <2>2. \A j \in 1..m : flattened[j].id = d => flattened[j].preset # NoPreset
    BY DEF HasPreset
  <2> HIDE DEF n, m, WalkInv
  <2>3. \A i \in 1..(n - 1) : stack'[i].id = d => stack'[i].preset # NoPreset
    BY <1>4, <1>6, <2>1
  <2>4. \A j \in 1..(m + 1) : flattened'[j].id = d => flattened'[j].preset # NoPreset
    BY <1>2, <1>3, <1>6, <2>1, <2>2
  <2> QED
    BY <1>3, <1>4, <2>3, <2>4 DEF HasPreset
<1>14. FollowedHavePreset'
  <2>1. \A d \in depends[stack[n].id] : stack[n].id \in declaring =>
           HasPreset(d)' \/ stack[n].id \in Under(d) \cup {d}
    BY <1>1, <1>2, <1>13 DEF FollowedHavePreset
  <2>2. \A i \in 1..(n - 1) : stack[i].id \in declaring =>
           \A d \in depends[stack[i].id] \ stack[i].rest : HasPreset(d)' \/ stack[i].id \in Under(d) \cup {d}
    BY <1>6, <1>13 DEF FollowedHavePreset
  <2>3. \A j \in 1..m : flattened[j].id \in declaring =>
           \A d \in depends[flattened[j].id] : HasPreset(d)' \/ flattened[j].id \in Under(d) \cup {d}
    BY <1>13 DEF FollowedHavePreset
  <2>4. ASSUME NEW i \in 1..(n - 1), stack'[i].id \in declaring, NEW d \in depends[stack'[i].id] \ stack'[i].rest
        PROVE  HasPreset(d)' \/ stack'[i].id \in Under(d) \cup {d}
    BY <1>4, <2>2, <2>4
  <2>5. ASSUME NEW j \in 1..(m + 1), flattened'[j].id \in declaring, NEW d \in depends[flattened'[j].id]
        PROVE  HasPreset(d)' \/ flattened'[j].id \in Under(d) \cup {d}
    <3>1. CASE j = m + 1
      BY <1>2, <1>3, <2>1, <2>5, <3>1
    <3>2. CASE j \in 1..m
      BY <1>3, <2>3, <2>5, <3>2
    <3> QED
      BY <1>6, <3>1, <3>2
  <2> QED
    BY <1>3, <1>4, <1>5, <2>4, <2>5 DEF FollowedHavePreset
<1> QED
  BY <1>7, <1>8, <1>9, <1>10, <1>11, <1>12, <1>14

LEMMA StoppedWalk == WalkInv /\ UNCHANGED <<graph, stack, visited, flattened>> /\ walk' \in {walk, "failed"} => WalkInv'
<1> SUFFICES ASSUME WalkInv, UNCHANGED <<graph, stack, visited, flattened>>, walk' \in {walk, "failed"} PROVE WalkInv'
  OBVIOUS
<1> USE DEF WalkInv, graph
<1>1. /\ \A x : Under(x)' = Under(x)
      /\ Reachable' = Reachable
  BY ReachUnchanged DEF Under, Reachable
<1>2. WalkTyped' /\ ChildrenFollow'
  BY DEF WalkTyped, ChildrenFollow
<1>3. NoneTwice'
  BY DEF NoneTwice, Distinct, Ids
<1>4. Rooted' /\ OnPath'
  BY <1>1 DEF Rooted, OnPath
<1>5. PresetsOfParents'
  BY DEF PresetsOfParents, OfParent
<1>6. FollowedHavePreset'
  BY <1>1 DEF FollowedHavePreset, HasPreset
<1> QED
  BY <1>2, <1>3, <1>4, <1>5, <1>6

\* A walk begins well, whatever the one before left.
LEMMA FirstCallIsFrame ==
    ASSUME depends \in [Id -> SUBSET Id], NEW r \in Id
    PROVE  /\ FirstCall(r) \in Seq(Frame) /\ Len(FirstCall(r)) = 1
           /\ FirstCall(r)[1] = [id |-> r, rest |-> depends[r], preset |-> NoPreset]
  BY DEF FirstCall, Frame, NoPreset

FirstState ==
    /\ depends \in [Id -> SUBSET Id] /\ declaring \subseteq Id /\ root \in Id
    /\ stack = FirstCall(root) /\ visited = {root} /\ flattened = <<>> /\ walk = "walking"

LEMMA WalkBegins == FirstState => WalkInv
<1> SUFFICES ASSUME FirstState PROVE WalkInv
  OBVIOUS
<1> USE DEF FirstState
<1>1. /\ stack \in Seq(Frame) /\ Len(stack) = 1 /\ flattened \in Seq(Item) /\ Len(flattened) = 0
      /\ stack[1].id = root /\ stack[1].rest = depends[root] /\ stack[1].preset = NoPreset
  <2>1. /\ stack \in Seq(Frame) /\ Len(stack) = 1
        /\ stack[1] = [id |-> root, rest |-> depends[root], preset |-> NoPreset]
    BY FirstCallIsFrame
  <2>2. flattened \in Seq(Item) /\ Len(flattened) = 0
    BY EmptySeq
  <2> QED
    BY <2>1, <2>2
<1>2. /\ 1..Len(stack) = {1} /\ 1..Len(flattened) = {}
  BY <1>1
<1>3. WalkTyped
  BY <1>1 DEF WalkTyped
<1>4. NoneTwice
  BY <1>1, <1>2 DEF NoneTwice, Distinct, Ids
<1>5. ChildrenFollow
  BY <1>1, <1>2 DEF ChildrenFollow
<1>6. Rooted
  BY <1>1, ReachBasics DEF Rooted, Reachable
<1>7. OnPath
  BY <1>2 DEF OnPath
<1>8. PresetsOfParents /\ FollowedHavePreset
  BY <1>1, <1>2 DEF PresetsOfParents, OfParent, FollowedHavePreset
<1> QED
  BY <1>3, <1>4, <1>5, <1>6, <1>7, <1>8 DEF WalkInv

-----------------------------------------------------------------------------
(***************************************************************************)
(* The batch.                                                              *)
(***************************************************************************)
LEMMA RootIsId ==
    ASSUME trees \in Seq(Seq(Id) \ {<<>>}), NEW i \in 1..Len(trees)
    PROVE  Root(i) \in Id
<1>1. trees[i] \in Seq(Id) /\ trees[i] # <<>>
  OBVIOUS
<1>2. Len(trees[i]) \in Nat \ {0}
  BY <1>1, EmptySeq
<1> QED
  BY <1>1, <1>2 DEF Root

LEMMA InitIInv == Init => IInv
<1> SUFFICES ASSUME Init PROVE IInv
  OBVIOUS
<1>1. PICK b \in Batches :
         /\ trees = [i \in DOMAIN b.roots |-> <<b.roots[i]>>]
         /\ depends = b.depends /\ declaring = b.declaring
  BY DEF Init
<1>2. /\ b.roots \in Seq(Id) /\ b.roots # <<>>
      /\ depends \in [Id -> SUBSET Id] /\ declaring \subseteq Id
  BY <1>1, BatchesAssumption
<1>3. Len(b.roots) \in Nat \ {0} /\ DOMAIN b.roots = 1..Len(b.roots)
  BY <1>2, EmptySeq
<1>4. \A i \in 1..Len(b.roots) : <<b.roots[i]>> \in Seq(Id) \ {<<>>}
  BY <1>2
<1>5. trees \in Seq(Seq(Id) \ {<<>>}) /\ Len(trees) = Len(b.roots)
  BY <1>1, <1>3, <1>4
<1>6. tree = 1 /\ 1 \in 1..Len(trees)
  BY <1>3, <1>5 DEF Init, LayerInit
<1>7. BatchTyped
  BY <1>5, <1>6 DEF BatchTyped
<1>8. root \in Id
  BY <1>5, <1>6, RootIsId DEF Init
<1>9. WalkInv
  BY <1>2, <1>8, WalkBegins DEF Init, WalkInit, FirstState
<1> QED
  BY <1>7, <1>9 DEF IInv

\* A walk that is done has listed at least the root.
LEMMA ResolveKeeps == IInv /\ Resolve => IInv'
<1> SUFFICES ASSUME IInv, Resolve PROVE IInv'
  OBVIOUS
<1>1. WalkInv'
  <2>1. CASE MergePresets
    BY <2>1, MergeKeeps DEF IInv
  <2>2. CASE SkipVisited
    BY <2>2, SkipKeeps DEF IInv
  <2>3. CASE Descend
    BY <2>3, DescendKeeps DEF IInv
  <2>4. CASE FetchFails
    BY <2>4, StoppedWalk DEF IInv, FetchFails
  <2>5. CASE Return
    BY <2>5, ReturnKeeps DEF IInv
  <2> QED
    BY <2>1, <2>2, <2>3, <2>4, <2>5 DEF Resolve, WalkStep
<1>2. BatchTyped'
  <2>1. tree' = tree /\ (status' = "map" => status = "map") /\ status = "map"
    BY DEF Resolve, Mapping
  <2>2. trees \in Seq(Seq(Id) \ {<<>>}) /\ tree \in 1..Len(trees)
    BY <2>1 DEF IInv, BatchTyped
  <2>3. CASE walk' # "done"
    BY <2>1, <2>3 DEF IInv, BatchTyped, Resolve
  <2>4. CASE walk' = "done"
    <3> DEFINE listed == [i \in DOMAIN flattened' |-> flattened'[i].id]
    <3>1. flattened' \in Seq(Item)' /\ WalkTyped'
      BY <1>1 DEF WalkInv, WalkTyped
    <3>2. Len(flattened)' \in Nat /\ \A j \in 1..Len(flattened') : flattened'[j].id \in Id
      <4>1. \A j \in 1..Len(flattened') : flattened'[j] \in Item
        BY <3>1
      <4> QED
        BY <3>1, <4>1 DEF Item
    <3>3. flattened' # <<>>
      BY <1>1, <2>4 DEF WalkInv, Rooted, NoneTwice, Ids
    <3>4. DOMAIN flattened' = 1..Len(flattened') /\ Len(flattened') \in Nat \ {0}
      BY <3>1, <3>3, EmptySeq
    <3>5. listed \in Seq(Id) /\ Len(listed) = Len(flattened')
      BY <3>2, <3>4
    <3>6. listed # <<>>
      BY <3>4, <3>5
    <3>7. trees' = [trees EXCEPT ![tree] = listed]
      BY <2>4 DEF Resolve
    <3> HIDE DEF listed
    <3>8. trees' \in Seq(Seq(Id) \ {<<>>}) /\ Len(trees') = Len(trees)
      BY <2>2, <3>5, <3>6, <3>7
    <3> QED
      BY <2>1, <2>2, <3>8 DEF IInv, BatchTyped
  <2> QED
    BY <2>3, <2>4
<1> QED
  BY <1>1, <1>2 DEF IInv

LEMMA ComposeKeeps == IInv /\ Compose => IInv'
<1> SUFFICES ASSUME IInv, Compose PROVE IInv'
  OBVIOUS
<1>1. BatchTyped'
  <2>1. CASE Execute \/ SkipGroup \/ LayerProject \/ ResolverFails
    <3>1. trees' = trees /\ tree' = tree /\ (status' = "map" => status = "map")
      BY <2>1 DEF Execute, SkipGroup, LayerProject, ResolverFails, templates
    <3> QED
      BY <3>1 DEF IInv, BatchTyped
  <2>2. CASE LayerTree
    <3>1. trees' = trees /\ tree' = tree + 1 /\ (status' = "map" => tree < Len(trees))
      BY <2>2 DEF LayerTree, templates
    <3>2. trees \in Seq(Seq(Id) \ {<<>>}) /\ tree \in Nat \ {0} /\ Len(trees) \in Nat
      BY DEF IInv, BatchTyped
    <3> QED
      BY <3>1, <3>2 DEF BatchTyped
  <2> QED
    BY <2>1, <2>2 DEF Compose, LayerStep
<1>2. CASE UNCHANGED walkVars
  BY <1>1, <1>2, StoppedWalk DEF IInv, walkVars, graph
<1>3. CASE status' = "map" /\ WalkAgain(Root(tree'))
  <2>1. trees' = trees
    BY DEF Compose, LayerStep, Execute, SkipGroup, LayerTree, LayerProject, ResolverFails, templates
  <2>2. trees \in Seq(Seq(Id) \ {<<>>}) /\ tree' \in 1..Len(trees)
    BY <1>1, <1>3, <2>1 DEF BatchTyped
  <2>3. \A i \in 1..Len(trees) : Root(i) \in Id
    BY <2>2, RootIsId
  <2>4. FirstState'
    <3>1. Root(tree') \in Id
      BY <2>2, <2>3
    <3> QED
      BY <1>3, <3>1 DEF FirstState, WalkAgain, FirstCall, IInv, WalkInv, WalkTyped
  <2>5. WalkInv'
    <3>1. (FirstState => WalkInv)'
      BY WalkBegins, PTL
    <3> QED
      BY <2>4, <3>1
  <2> QED
    BY <1>1, <2>5 DEF IInv
<1> QED
  BY <1>2, <1>3 DEF Compose

\* The inductive invariant of a batch.
THEOREM BatchInvariant == Spec => []IInv
<1>1. IInv /\ [Next]_vars => IInv'
  <2> SUFFICES ASSUME IInv, [Next]_vars PROVE IInv'
    OBVIOUS
  <2>1. CASE Resolve
    BY <2>1, ResolveKeeps
  <2>2. CASE Compose
    BY <2>2, ComposeKeeps
  <2>3. CASE UNCHANGED vars
    <3>1. UNCHANGED <<graph, stack, visited, flattened, walk, trees, tree, status>>
      BY <2>3 DEF vars, walkVars, layerVars, templates
    <3>2. WalkInv'
      BY <3>1, StoppedWalk DEF IInv
    <3> QED
      BY <3>1, <3>2 DEF IInv, BatchTyped
  <2> QED
    BY <2>1, <2>2, <2>3 DEF Next, Over
<1> QED
  BY InitIInv, <1>1, PTL DEF Spec

\* What the templates are, which no step changes, and where the batch is.
Typed ==
    /\ produces \subseteq executable /\ executable \subseteq Id
    /\ declares \in [Id -> Resolver \cup {None}]
    /\ status \in {"map", "layer", "done", "failed"}

LEMMA TypeOKIf == IInv /\ Typed => TypeOK
<1> SUFFICES ASSUME IInv, Typed PROVE TypeOK
  OBVIOUS
<1>1. WalkTyped /\ visited = Ids(stack) \cup Ids(flattened)
  BY DEF IInv, WalkInv, NoneTwice
<1>2. Ids(stack) \cup Ids(flattened) \cup visited \subseteq Id
  BY <1>1, Entries DEF Ids
<1>3. \A i \in DOMAIN trees : trees[i] \in Seq(Id)
  <2>1. trees \in Seq(Seq(Id) \ {<<>>}) /\ DOMAIN trees = 1..Len(trees)
    BY DEF IInv, BatchTyped
  <2> QED
    BY <2>1
<1> QED
  BY <1>1, <1>2, <1>3 DEF TypeOK, Typed, WalkTyped

\* All variables of a batch have their types, through both components.
THEOREM BatchTypeCorrect == Spec => []TypeOK
<1>1. Init => Typed
  <2> SUFFICES ASSUME Init PROVE Typed
    OBVIOUS
  <2>1. PICK b \in Batches : executable = b.executable /\ produces = b.produces \cap b.executable
                            /\ declares = b.declares
    BY DEF Init
  <2> QED
    BY <2>1, BatchesAssumption DEF Typed, Init, LayerInit
<1>2. Typed /\ [Next]_vars => Typed'
  <2> SUFFICES ASSUME Typed, [Next]_vars PROVE Typed'
    OBVIOUS
  <2>1. UNCHANGED <<executable, produces, declares>>
    BY DEF Next, Resolve, Compose, Over, vars, layerVars, LayerStep, Execute, SkipGroup, LayerTree,
           LayerProject, ResolverFails, templates
  <2>2. status' \in {status, "map", "layer", "done", "failed"}
    BY DEF Next, Resolve, Compose, Over, vars, layerVars, LayerStep, Execute, SkipGroup, LayerTree,
           LayerProject, ResolverFails
  <2> QED
    BY <2>1, <2>2 DEF Typed
<1> QED
  BY BatchInvariant, TypeOKIf, <1>1, <1>2, PTL DEF Spec

\* flatten_impl lists each template once and all that the root reaches, in every
\* walk of a batch and for every graph.
THEOREM ExecutedOnceAlways == Spec => []ExecutedOnce
<1>1. IInv => ExecutedOnce
  BY ListedOnce DEF IInv
<1> QED
  BY BatchInvariant, <1>1, PTL

\* What parents preset arrives, but for cycles.
THEOREM PresetsArriveAlways == Spec => []PresetsArrive
<1>1. IInv => PresetsArrive
  BY PresetsAreThere DEF IInv
<1> QED
  BY BatchInvariant, <1>1, PTL

-----------------------------------------------------------------------------
(***************************************************************************)
(* Resolvers.  The versions of a tree are told apart from the templates    *)
(* they are of by their positions, which groups take, too.  If groups are  *)
(* nobody's dependencies, only the last of a tree can be one, and versions *)
(* and templates go together.                                              *)
(***************************************************************************)
GroupsAreRoots == \A b \in Batches : \A y \in Id : b.depends[y] \subseteq b.executable

DependenciesExecute == \A y \in Id : depends[y] \subseteq executable

OnlyLastIsGroup == \A k \in 1..(Len(trees[tree]) - 1) : trees[tree][k] \in executable

Version == {Absent} \cup {File(x) : x \in Id}

\* The j-th output is of the j-th template.
Aligned ==
    /\ at \in 1..(Len(trees[tree]) + 1)
    /\ at <= Len(trees[tree]) => Len(outputs) = at - 1
    /\ Len(outputs) <= at - 1
    /\ \A j \in 1..Len(outputs) : sources[j] = trees[tree][j]

LayerInv ==
    /\ DependenciesExecute
    /\ outputs \in Seq(Version) /\ sources \in Seq(Id) /\ Len(sources) = Len(outputs)
    /\ status = "map" /\ walk # "done" => at = 1 /\ outputs = <<>>
    /\ status = "map" /\ walk = "done" => OnlyLastIsGroup /\ Aligned
    /\ Len(layered) \in Nat /\ layered \in Seq({layered[i] : i \in 1..Len(layered)})
    /\ ConsensusIsUnanimous

\* What ConsensusIsUnanimous says of a conflict.
Unanimous(m) ==
    /\ m.origins = m.templates
    /\ \A r \in Resolver : (m.resolver = r) <=> \A t \in m.templates : declares[t] = r
    /\ m.resolver # None => m.result.by = m.resolver

LEMMA ConflictIsUnanimous ==
    ASSUME NEW vfs, Len(vfs) \in Nat, NEW infos, NEW of,
           \A i \in Variations(vfs) : infos[i] = of[i],
           NEW m \in Conflicts(vfs, infos, of)
    PROVE  Unanimous(m)
<1> DEFINE V == Variations(vfs)
           C == Choices(vfs, infos)
<1>1. m = Conflict(vfs, infos, of) /\ InConflict(vfs)
  BY DEF Conflicts
<1>2. /\ m.resolver = Consensus(C) /\ m.result = LayerMerge(vfs, infos)
      /\ m.origins = {infos[i] : i \in V} /\ m.templates = {of[i] : i \in V}
  BY <1>1 DEF Conflict
<1>3. m.origins = m.templates
  BY <1>2
<1>4. IsFiniteSet(V) /\ V # {}
  <2>1. IsFiniteSet(1..Len(vfs)) /\ V \subseteq 1..Len(vfs)
    BY FS_Interval DEF Variations
  <2>2. IsFiniteSet(V)
    BY <2>1, FS_Subset
  <2>3. Cardinality(V) > 1
    BY <1>1 DEF InConflict
  <2>4. V # {}
    BY <2>3, FS_EmptySet
  <2> QED
    BY <2>2, <2>4
<1>5. C = {declares[of[i]] : i \in V}
  BY DEF Choices
<1>6. IsFiniteSet(C)
  <2> DEFINE f == [i \in V |-> declares[of[i]]]
  <2>1. f \in Surjection(V, C)
    BY <1>5 DEF Surjection
  <2> QED
    BY <1>4, <2>1, FS_Surjection
<1> HIDE DEF V, C
<1>7. Cardinality(C) = 1 <=> \E x : C = {x}
  BY <1>6, FS_Singleton
<1>8. ASSUME NEW r \in Resolver PROVE (m.resolver = r) <=> \A t \in m.templates : declares[t] = r
  <2>1. r # None
    BY ResolverAssumption
  <2>2. ASSUME m.resolver = r PROVE \A t \in m.templates : declares[t] = r
    <3>1. Cardinality(C) = 1 /\ r = CHOOSE x \in C : TRUE
      BY <1>2, <2>1, <2>2 DEF Consensus
    <3>2. C = {r}
      BY <1>7, <3>1
    <3> QED
      BY <1>2, <1>5, <3>2
  <2>3. ASSUME \A t \in m.templates : declares[t] = r PROVE m.resolver = r
    <3>1. C = {r}
      BY <1>2, <1>4, <1>5, <2>3
    <3>2. Consensus(C) = CHOOSE x \in C : TRUE
      BY <1>7, <3>1 DEF Consensus
    <3> QED
      BY <1>2, <3>1, <3>2
  <2> QED
    BY <2>2, <2>3
<1>9. m.resolver # None => m.result.by = m.resolver
  <2> SUFFICES ASSUME Consensus(C) # None PROVE LayerMerge(vfs, infos).by = Consensus(C)
    BY <1>2
  <2>1. LayerMerge(vfs, infos) = Resolved(Consensus(C), Files(vfs, infos))
    BY <1>1, <1>4 DEF LayerMerge, C, V
  <2> QED
    BY <2>1 DEF Resolved
<1> QED
  BY <1>3, <1>8, <1>9 DEF Unanimous

\* What is reached and is not the root is somebody's dependency.
LEMMA ReachedExecutes ==
    ASSUME WalkTyped, DependenciesExecute, NEW x \in Reachable, x # root
    PROVE  x \in executable
<1> DEFINE T == {y \in Id : y = root \/ y \in executable}
<1>1. T \in SUBSET Id /\ {root} \subseteq T
  BY DEF WalkTyped
<1>2. Closed(T)
  BY DEF Closed, WalkTyped, DependenciesExecute
<1>3. Reachable \subseteq T
  BY <1>1, <1>2, ReachBasics DEF Reachable, WalkTyped
<1> QED
  BY <1>3

\* Thus only the last of what a walk has listed can be a group.
ListExecutes ==
    walk = "done" => \A k \in 1..(Len(flattened) - 1) : flattened[k].id \in executable

LEMMA ListedExecutes == WalkInv /\ DependenciesExecute => ListExecutes
<1> SUFFICES ASSUME WalkInv, DependenciesExecute, walk = "done",
                    NEW k \in 1..(Len(flattened) - 1)
             PROVE  flattened[k].id \in executable
  BY DEF ListExecutes
<1>1. Len(flattened) \in Nat /\ k \in 1..Len(flattened) /\ k # Len(flattened) /\ Len(flattened) \in 1..Len(flattened)
  BY Entries DEF WalkInv
<1>2. flattened[Len(flattened)].id = root
  BY DEF WalkInv, Rooted
<1>3. flattened[k].id # root
  BY <1>1, <1>2 DEF WalkInv, NoneTwice, Distinct
<1>4. flattened[k].id \in Reachable
  BY <1>1 DEF WalkInv, NoneTwice, Rooted, Ids
<1> QED
  BY <1>3, <1>4, ReachedExecutes DEF WalkInv

LEMMA InitLayerInv == ASSUME GroupsAreRoots PROVE Init => LayerInv
<1> SUFFICES ASSUME Init PROVE LayerInv
  OBVIOUS
<1>1. DependenciesExecute
  BY DEF Init, GroupsAreRoots, DependenciesExecute
<1>2. outputs \in Seq(Version) /\ sources \in Seq(Id) /\ Len(sources) = Len(outputs)
  BY EmptySeq DEF Init, LayerInit
<1>3. Len(layered) \in Nat /\ layered \in Seq({layered[i] : i \in 1..Len(layered)})
  BY EmptySeq DEF Init, LayerInit
<1>4. ConsensusIsUnanimous
  BY DEF Init, LayerInit, ConsensusIsUnanimous
<1> QED
  BY <1>1, <1>2, <1>3, <1>4 DEF LayerInv, Init, LayerInit, WalkInit

LEMMA ResolveKeepsLayerInv == IInv /\ IInv' /\ LayerInv /\ Resolve => LayerInv'
<1> SUFFICES ASSUME IInv, IInv', LayerInv, Resolve PROVE LayerInv'
  OBVIOUS
<1>1. /\ UNCHANGED <<depends, declares, executable, tree, at, outputs, sources, layered, merges>>
      /\ status = "map" /\ walk = "walking" /\ at = 1 /\ outputs = <<>>
  BY DEF Resolve, Mapping, LayerInv, WalkStep, MergePresets, SkipVisited, Descend, FetchFails, Return, graph
<1>2. DependenciesExecute' /\ ConsensusIsUnanimous'
  BY <1>1 DEF LayerInv, DependenciesExecute, ConsensusIsUnanimous
<1>3. ASSUME walk' = "done" PROVE OnlyLastIsGroup' /\ Aligned'
  <2> DEFINE m == Len(flattened')
  <2>1. tree \in 1..Len(trees) /\ trees \in Seq(Seq(Id) \ {<<>>})
    BY <1>1 DEF IInv, BatchTyped
  <2>2. trees'[tree] = [i \in DOMAIN flattened' |-> flattened'[i].id]
    BY <1>3, <2>1 DEF Resolve
  <2>3. /\ flattened' \in Seq(Item) /\ flattened' # <<>>
    BY <1>3 DEF IInv, WalkInv, WalkTyped, Rooted
  <2>4. m \in Nat \ {0} /\ DOMAIN flattened' = 1..m
    BY <2>3, EmptySeq
  <2>5. /\ Len(trees'[tree]) = m
        /\ \A k \in 1..(m - 1) : trees'[tree][k] = flattened'[k].id
    BY <2>2, <2>4
  <2>6. (WalkInv /\ DependenciesExecute => ListExecutes)'
    BY ListedExecutes, PTL
  <2>7. \A k \in 1..(m - 1) : flattened'[k].id \in executable'
    BY <1>2, <1>3, <2>6 DEF IInv, ListExecutes
  <2>8. OnlyLastIsGroup'
    BY <1>1, <2>5, <2>7 DEF OnlyLastIsGroup
  <2>9. Len(outputs') = 0 /\ 1..Len(outputs') = {}
    BY <1>1, EmptySeq
  <2>10. Aligned'
    BY <1>1, <2>4, <2>5, <2>9 DEF Aligned
  <2> QED
    BY <2>8, <2>10
<1> QED
  BY <1>1, <1>2, <1>3 DEF LayerInv

LEMMA ExecuteKeepsAligned ==
    ASSUME IInv, LayerInv, walk = "done", Execute \/ SkipGroup
    PROVE  /\ Aligned'
           /\ outputs' \in Seq(Version) /\ sources' \in Seq(Id) /\ Len(sources') = Len(outputs')
<1> DEFINE L == Len(trees[tree])
           n == Len(outputs)
<1>1. /\ status = "map" /\ UNCHANGED <<trees, tree>> /\ at' = at + 1 /\ at <= L
  BY DEF Execute, SkipGroup, templates
<1>2. /\ tree \in 1..Len(trees) /\ trees[tree] \in Seq(Id) /\ trees[tree] # <<>>
  BY <1>1 DEF IInv, BatchTyped
<1>3. L \in Nat \ {0}
  BY <1>2, EmptySeq
<1>4. Aligned /\ OnlyLastIsGroup
  BY <1>1 DEF LayerInv
<1>5. at \in 1..L /\ n = at - 1 /\ at' \in 1..(L + 1) /\ (at' <= L => at # L)
  BY <1>1, <1>3, <1>4 DEF Aligned
<1>6. Here \in Id
  BY <1>2, <1>5 DEF Here
<1>7. outputs \in Seq(Version) /\ sources \in Seq(Id) /\ Len(sources) = n
  BY DEF LayerInv
<1>8. CASE Execute
  <2> DEFINE out == IF Here \in produces THEN File(Here) ELSE Absent
  <2>1. outputs' = Append(outputs, out) /\ sources' = Append(sources, Here)
    BY <1>8 DEF Execute
  <2>2. out \in Version
    BY <1>6 DEF Version
  <2> HIDE DEF out
  <2>3. /\ outputs' \in Seq(Version) /\ Len(outputs') = n + 1
        /\ sources' \in Seq(Id) /\ Len(sources') = n + 1
        /\ sources'[n + 1] = Here /\ \A j \in 1..n : sources'[j] = sources[j]
    BY <1>6, <1>7, <2>1, <2>2
  <2>4. \A j \in 1..(n + 1) : sources'[j] = trees[tree][j]
    <3>1. n + 1 = at /\ n \in Nat
      BY <1>5
    <3>2. \A j \in 1..(n + 1) : j \in 1..n \/ j = n + 1
      BY <3>1
    <3> QED
      BY <1>4, <2>3, <3>1, <3>2 DEF Aligned, Here
  <2>5. n + 1 = at' - 1
    BY <1>1, <1>5
  <2>6. n + 1 <= at' - 1
    BY <1>1, <1>3, <1>5
  <2> QED
    BY <1>1, <1>5, <2>3, <2>4, <2>5, <2>6 DEF Aligned
<1>9. CASE SkipGroup
  <2>1. outputs' = outputs /\ sources' = sources /\ Here \notin executable
    BY <1>9 DEF SkipGroup
  <2>2. at = L
    <3>1. at \notin 1..(L - 1)
      BY <1>4, <2>1 DEF OnlyLastIsGroup, Here
    <3> QED
      BY <1>3, <1>5, <3>1
  <2>3. ~(at' <= L) /\ n <= at' - 1
    BY <1>1, <1>3, <1>5, <2>2
  <2> QED
    BY <1>1, <1>4, <1>5, <1>7, <2>1, <2>3 DEF Aligned
<1> QED
  BY <1>8, <1>9

LEMMA AppendsToLayered ==
    ASSUME LayerInv, NEW x, layered' = Append(layered, x)
    PROVE  Len(layered)' \in Nat /\ layered' \in Seq({layered'[i] : i \in 1..Len(layered')})
<1> DEFINE n == Len(layered)
           S == {layered[i] : i \in 1..n} \cup {x}
<1>1. n \in Nat /\ layered \in Seq(S)
  <2>1. n \in Nat /\ layered \in Seq({layered[i] : i \in 1..n})
    BY DEF LayerInv
  <2> QED
    BY <2>1
<1>2. layered' \in Seq(S) /\ Len(layered') = n + 1
  BY <1>1
<1>3. /\ layered' \in [1..(n + 1) -> S]
  BY <1>1, <1>2, LenProperties
<1>4. layered' \in [1..(n + 1) -> {layered'[i] : i \in 1..(n + 1)}]
  BY <1>3
<1> QED
  BY <1>1, <1>2, <1>4, SeqDef

LEMMA ComposeKeepsLayerInv == IInv /\ LayerInv /\ Compose => LayerInv'
<1> SUFFICES ASSUME IInv, LayerInv, Compose PROVE LayerInv'
  OBVIOUS
<1>1. walk = "done" /\ UNCHANGED <<depends, declares, executable, trees>>
  BY DEF Compose, WalkAgain, walkVars, graph, LayerStep, Execute, SkipGroup, LayerTree,
         LayerProject, ResolverFails, templates
<1>2. DependenciesExecute'
  BY <1>1 DEF LayerInv, DependenciesExecute
<1>3. \A m \in merges : Unanimous(m)
  BY DEF LayerInv, ConsensusIsUnanimous, Unanimous
<1>4. CASE Execute \/ SkipGroup
  <2>1. /\ UNCHANGED <<tree, status, layered, merges>> /\ status = "map"
    BY <1>4 DEF Execute, SkipGroup
  <2>2. walk' = walk
    BY <2>1 DEF Compose, walkVars
  <2>3. /\ Aligned'
        /\ outputs' \in Seq(Version) /\ sources' \in Seq(Id) /\ Len(sources') = Len(outputs')
    BY <1>1, <1>4, ExecuteKeepsAligned
  <2>4. OnlyLastIsGroup'
    BY <1>1, <2>1 DEF LayerInv, OnlyLastIsGroup
  <2>5. ConsensusIsUnanimous'
    BY <1>1, <2>1 DEF LayerInv, ConsensusIsUnanimous
  <2> QED
    BY <1>1, <1>2, <2>1, <2>2, <2>3, <2>4, <2>5 DEF LayerInv
<1>5. CASE LayerTree
  <2>1. /\ status = "map" /\ at > Len(trees[tree])
        /\ outputs' = <<>> /\ sources' = <<>> /\ at' = 1 /\ tree' = tree + 1
        /\ layered' = Append(layered, LayerMerge(outputs, Infos))
        /\ merges' = merges \cup Conflicts(outputs, Infos, sources)
    BY <1>5 DEF LayerTree
  <2>2. Len(outputs) \in Nat /\ \A i \in Variations(outputs) : Infos[i] = sources[i]
    BY <1>1, <2>1 DEF LayerInv, Aligned, Variations, Infos
  <2>3. \A m \in Conflicts(outputs, Infos, sources) : Unanimous(m)
    BY <2>2, ConflictIsUnanimous
  <2>4. ConsensusIsUnanimous'
    BY <1>1, <1>3, <2>1, <2>3 DEF ConsensusIsUnanimous, Unanimous
  <2>5. outputs' \in Seq(Version) /\ sources' \in Seq(Id) /\ Len(sources') = Len(outputs')
    BY <2>1, EmptySeq
  <2>6. status' = "map" => walk' = "walking"
    <3>1. tree \in Nat
      BY DEF IInv, BatchTyped
    <3>2. tree' # tree
      BY <2>1, <3>1
    <3> QED
      BY <3>2 DEF Compose, WalkAgain
  <2>7. Len(layered)' \in Nat /\ layered' \in Seq({layered'[i] : i \in 1..Len(layered')})
    BY <2>1, AppendsToLayered
  <2> QED
    BY <1>2, <2>1, <2>4, <2>5, <2>6, <2>7 DEF LayerInv
<1>6. CASE LayerProject
  <2>1. /\ status' = "done" /\ UNCHANGED <<outputs, sources>>
        /\ merges' = merges \cup Conflicts(layered, Roots, Roots)
        /\ layered' = IF Len(trees) = 1 THEN layered ELSE <<LayerMerge(layered, Roots)>>
    BY <1>6 DEF LayerProject, LayeredProject
  <2>2. \A m \in Conflicts(layered, Roots, Roots) : Unanimous(m)
    BY ConflictIsUnanimous DEF LayerInv
  <2>3. ConsensusIsUnanimous'
    BY <1>1, <1>3, <2>1, <2>2 DEF ConsensusIsUnanimous, Unanimous
  <2>4. Len(layered)' \in Nat /\ layered' \in Seq({layered'[i] : i \in 1..Len(layered')})
    <3>1. CASE Len(trees) = 1
      BY <2>1, <3>1 DEF LayerInv
    <3>2. CASE Len(trees) # 1
      BY <2>1, <3>2
    <3> QED
      BY <3>1, <3>2
  <2> QED
    BY <1>2, <2>1, <2>3, <2>4 DEF LayerInv
<1>7. CASE ResolverFails
  <2>1. status' = "failed" /\ UNCHANGED <<outputs, sources, layered, merges>>
    BY <1>7 DEF ResolverFails
  <2>2. ConsensusIsUnanimous'
    BY <1>1, <2>1 DEF LayerInv, ConsensusIsUnanimous
  <2> QED
    BY <1>2, <2>1, <2>2 DEF LayerInv
<1> QED
  BY <1>4, <1>5, <1>6, <1>7 DEF Compose, LayerStep

\* Unless a group is a dependency, a resolver merges just the conflicts of which
\* every template with a version declares it, and is told whose the versions are.
THEOREM ConsensusIsUnanimousAlways ==
    ASSUME GroupsAreRoots
    PROVE  Spec => []ConsensusIsUnanimous
<1>1. Init => LayerInv
  BY InitLayerInv
<1>2. IInv /\ IInv' /\ LayerInv /\ [Next]_vars => LayerInv'
  <2> SUFFICES ASSUME IInv, IInv', LayerInv, [Next]_vars PROVE LayerInv'
    OBVIOUS
  <2>1. CASE UNCHANGED vars
    BY <2>1 DEF vars, walkVars, graph, layerVars, templates, LayerInv, DependenciesExecute,
                OnlyLastIsGroup, Aligned, ConsensusIsUnanimous
  <2> QED
    BY <2>1, ResolveKeepsLayerInv, ComposeKeepsLayerInv DEF Next, Over
<1>3. LayerInv => ConsensusIsUnanimous
  BY DEF LayerInv
<1> QED
  BY BatchInvariant, <1>1, <1>2, <1>3, PTL DEF Spec

-----------------------------------------------------------------------------
(***************************************************************************)
(* Who wins.  A template that is on no cycle is listed after all it        *)
(* depends on.                                                             *)
(***************************************************************************)
DependenciesFirst ==
    \A j \in 1..Len(flattened) : flattened[j].id \notin Under(flattened[j].id) =>
        \A y \in Under(flattened[j].id) : \E k \in 1..(j - 1) : flattened[k].id = y

\* What a template leads to leads no further.
LEMMA UnderUnder ==
    ASSUME WalkTyped, NEW x \in Id, NEW z \in Under(x)
    PROVE  z \in Id /\ depends[z] \subseteq Under(x) /\ Under(z) \subseteq Under(x)
<1>1. depends[x] \in SUBSET Id
  BY DEF WalkTyped
<1>2. Under(x) \subseteq Id /\ depends[x] \subseteq Under(x)
  BY <1>1, ReachBasics DEF Under
<1>3. \A w \in Under(x) : depends[w] \subseteq Under(x)
  BY <1>1, ReachClosed DEF Under, WalkTyped
<1>4. Closed(Under(x)) /\ depends[z] \in SUBSET Id
  BY <1>2, <1>3 DEF Closed, WalkTyped
<1>5. Under(z) \subseteq Under(x)
  <2>1. Reach(depends[z]) \subseteq Under(x)
    BY <1>2, <1>3, <1>4, ReachBasics
  <2> QED
    BY <2>1 DEF Under
<1> QED
  BY <1>2, <1>3, <1>5

\* When a call returns, all that its template leads to is listed, unless some
\* of it is under way and leads back.
LEMMA AllListed ==
    ASSUME WalkInv, stack # <<>>, Top.rest = {}, Top.id \notin Under(Top.id)
    PROVE  Under(Top.id) \subseteq Ids(flattened)
<1> DEFINE n == Len(stack)
           x == Top.id
           T == Ids(flattened) \cap Under(x)
<1> USE DEF WalkInv
<1>1. n \in 1..n /\ n \in Nat /\ Top = stack[n] /\ x \in Id
  BY TopIsFrame
<1>2. depends[x] \in SUBSET Id /\ \A w \in Id : depends[w] \in SUBSET Id
  BY <1>1 DEF WalkTyped
<1>3. depends[x] \subseteq Under(x) /\ Under(x) \subseteq Id
  BY <1>2, ReachBasics DEF Under
<1>4. ASSUME NEW i \in 1..n, stack[i].id \in Under(x) PROVE FALSE
  <2>1. i # n
    BY <1>1, <1>4
  <2>2. x \in Under(stack[i].id)
    BY <1>1, <2>1 DEF OnPath
  <2> QED
    BY <1>1, <1>4, <2>2, UnderUnder
<1>5. ASSUME NEW w \in visited, w \in Under(x) PROVE w \in T
  BY <1>4, <1>5 DEF NoneTwice, Ids
<1>6. depends[x] \subseteq T
  <2>1. depends[x] \subseteq visited
    BY <1>1 DEF ChildrenFollow
  <2> QED
    BY <1>3, <1>5, <2>1
<1>7. Closed(T)
  <2> SUFFICES ASSUME NEW w \in T, NEW d \in depends[w] PROVE d \in T
    BY DEF Closed
  <2>1. PICK j \in 1..Len(flattened) : flattened[j].id = w
    BY DEF Ids
  <2>2. d \in visited
    BY <2>1 DEF ChildrenFollow
  <2>3. d \in Under(x)
    BY <1>1, UnderUnder
  <2> QED
    BY <1>5, <2>2, <2>3
<1>8. T \in SUBSET Id
  BY <1>3
<1> HIDE DEF T
<1>9. Reach(depends[x]) \subseteq T
  BY <1>2, <1>6, <1>7, <1>8, ReachBasics
<1> QED
  BY <1>9 DEF T, Under

LEMMA SameList ==
    ASSUME DependenciesFirst, \A x : Under(x)' = Under(x), Len(flattened) \in Nat,
           Len(flattened') = Len(flattened),
           \A j \in 1..Len(flattened) : flattened'[j].id = flattened[j].id
    PROVE  DependenciesFirst'
<1>1. ASSUME NEW j \in 1..Len(flattened), flattened'[j].id \notin Under(flattened'[j].id),
             NEW y \in Under(flattened'[j].id)
      PROVE  \E k \in 1..(j - 1) : flattened'[k].id = y
  <2>1. PICK k \in 1..(j - 1) : flattened[k].id = y
    BY <1>1 DEF DependenciesFirst
  <2>2. k \in 1..Len(flattened)
    OBVIOUS
  <2> QED
    BY <2>1, <2>2
<1> QED
  BY <1>1 DEF DependenciesFirst

LEMMA WalkKeepsOrder ==
    ASSUME WalkInv, DependenciesFirst, WalkStep
    PROVE  DependenciesFirst'
<1>1. \A x : Under(x)' = Under(x)
  BY ReachUnchanged DEF Under, WalkStep, MergePresets, SkipVisited, Descend, FetchFails, Return, graph
<1>2. CASE SkipVisited \/ Descend \/ FetchFails
  <2>1. flattened' = flattened /\ Len(flattened) \in Nat
    BY <1>2, Entries DEF SkipVisited, Descend, FetchFails, WalkInv
  <2> QED
    BY <1>1, <2>1, SameList
<1>3. CASE MergePresets
  <2>1. Len(flattened) \in Nat /\ flattened \in Seq(Item)
    BY Entries DEF WalkInv, WalkTyped
  <2>2. Len(flattened') = Len(flattened)
    BY <1>3, <2>1 DEF MergePresets
  <2>3. \A j \in 1..Len(flattened) : flattened'[j].id = flattened[j].id
    <3> SUFFICES ASSUME NEW j \in 1..Len(flattened) PROVE flattened'[j].id = flattened[j].id
      OBVIOUS
    <3>1. flattened[j] \in Item
      BY Entries DEF WalkInv
    <3> QED
      BY <1>3, <3>1 DEF MergePresets, Item
  <2> QED
    BY <1>1, <2>1, <2>2, <2>3, SameList
<1>4. CASE Return
  <2> DEFINE m == Len(flattened)
             item == [id |-> Top.id, preset |-> Top.preset]
  <2>1. m \in Nat /\ item \in Item /\ stack # <<>> /\ Top.rest = {}
    BY <1>4, TopIsFrame, Entries DEF WalkInv, Return, Walking, Item
  <2>2. flattened' = Append(flattened, item) /\ item.id = Top.id
    BY <1>4 DEF Return, Push
  <2> HIDE DEF item
  <2>3. /\ Len(flattened') = m + 1 /\ flattened'[m + 1] = item
        /\ \A j \in 1..m : flattened'[j] = flattened[j]
    BY <2>1, <2>2 DEF WalkInv, WalkTyped
  <2>4. ASSUME NEW j \in 1..m, flattened[j].id \notin Under(flattened[j].id), NEW y \in Under(flattened[j].id)
        PROVE  \E k \in 1..(j - 1) : flattened'[k].id = y
    <3>1. PICK k \in 1..(j - 1) : flattened[k].id = y
      BY <2>4 DEF DependenciesFirst
    <3>2. k \in 1..m
      BY <2>1
    <3> QED
      BY <2>3, <3>1, <3>2
  <2>5. ASSUME Top.id \notin Under(Top.id), NEW y \in Under(Top.id)
        PROVE  \E k \in 1..m : flattened'[k].id = y
    <3>1. y \in Ids(flattened)
      BY <2>1, <2>5, AllListed
    <3> QED
      BY <2>3, <3>1 DEF Ids
  <2>6. \A j \in 1..(m + 1) : j \in 1..m \/ j = m + 1
    BY <2>1
  <2>7. (m + 1) - 1 = m
    BY <2>1
  <2> HIDE DEF m
  <2>8. ASSUME NEW j \in 1..(m + 1), flattened'[j].id \notin Under(flattened'[j].id), NEW y \in Under(flattened'[j].id)
        PROVE  \E k \in 1..(j - 1) : flattened'[k].id = y
    <3>1. CASE j \in 1..m
      BY <2>3, <2>4, <2>8, <3>1
    <3>2. CASE j = m + 1
      BY <2>2, <2>3, <2>5, <2>7, <2>8, <3>2
    <3> QED
      BY <2>6, <3>1, <3>2
  <2> QED
    BY <1>1, <2>3, <2>8 DEF DependenciesFirst
<1> QED
  BY <1>2, <1>3, <1>4 DEF WalkStep

-----------------------------------------------------------------------------
(***************************************************************************)
(* Layering without resolvers: the last version wins, at both stages.      *)
(***************************************************************************)
LastVersion(vfs) == IF Variations(vfs) = {} THEN Absent ELSE Winner(vfs)

\* out is what the last of the first n in the list L that has a version has.
IsLastOf(L, n, out) ==
    \/ out = Absent /\ \A k \in 1..n : L[k] \notin produces
    \/ \E m \in 1..n :
          /\ L[m] \in produces /\ out = File(L[m])
          /\ \A k \in 1..n : k > m => L[k] \notin produces

\* What is on no cycle comes after what it depends on.
Ordered(L) ==
    \A a, b \in 1..Len(L) : L[b] \in Under(L[a]) /\ L[a] \notin Under(L[a]) => b < a

NoneMerged == \A m \in merges : m.resolver = None

\* How far the batch is: the tree whose turn it is, and those that are layered.
TreeInv ==
    /\ outputs \in Seq(Version)
    /\ walk # "done" => at = 1 /\ outputs = <<>>
    /\ walk = "done" =>
          /\ at \in 1..(Len(trees[tree]) + 1) /\ Ordered(trees[tree])
          /\ IsLastOf(trees[tree], at - 1, LastVersion(outputs))

LayeredInv ==
    /\ Len(layered) = IF status = "map" THEN tree - 1 ELSE Len(trees)
    /\ \A i \in 1..Len(layered) :
          /\ Ordered(trees[i])
          /\ NoneMerged => IsLastOf(trees[i], Len(trees[i]), layered[i])

WinInv ==
    /\ DependenciesFirst
    /\ produces \subseteq executable /\ layered \in Seq({layered[i] : i \in 1..Len(layered)})
    /\ status \in {"map", "layer", "done", "failed"}
    /\ status = "map" => TreeInv
    /\ status \in {"map", "layer"} => LayeredInv
    /\ DependentsWin

\* A nonempty set of positions has a last one.
LEMMA LastPosition ==
    ASSUME NEW n \in Nat, NEW S \in SUBSET (1..n), S # {}
    PROVE  MaxOf(S) \in S /\ \A j \in S : j <= MaxOf(S)
<1> DEFINE R == OpToRel(<, Nat)
           D == {n - i : i \in S}
<1>1. \A d, e \in Nat : d < e => <<d, e>> \in R
  BY DEF OpToRel
<1>2. IsWellFoundedOn(R, Nat)
  BY NatLessThanWellFounded
<1>3. D \subseteq Nat /\ D # {} /\ \A i \in S : n - i \in D /\ i \in Nat
  <2>1. \A i \in S : n - i \in Nat /\ n - i \in D /\ i \in Nat
    OBVIOUS
  <2> QED
    BY <2>1
<1>4. \A d \in D : \E i \in S : d = n - i
  OBVIOUS
<1> HIDE DEF R, D
<1>5. PICK d \in D : \A e \in D : ~(<<e, d>> \in R)
  BY <1>2, <1>3, WFMin
<1>6. PICK i \in S : d = n - i
  BY <1>4
<1>7. ASSUME NEW j \in S PROVE j <= i
  <2>1. ~(n - j < n - i)
    BY <1>1, <1>3, <1>5, <1>6
  <2> QED
    BY <1>3, <2>1
<1> QED
  BY <1>7 DEF MaxOf

\* The last version is the last.
LEMMA LastVersionIs ==
    ASSUME NEW vfs, Len(vfs) \in Nat
    PROVE  \/ LastVersion(vfs) = Absent /\ \A i \in 1..Len(vfs) : vfs[i] = Absent
           \/ \E m \in 1..Len(vfs) :
                 /\ vfs[m] # Absent /\ LastVersion(vfs) = vfs[m]
                 /\ \A i \in 1..Len(vfs) : i > m => vfs[i] = Absent
<1>1. CASE Variations(vfs) = {}
  BY <1>1 DEF LastVersion, Variations
<1>2. CASE Variations(vfs) # {}
  <2> DEFINE V == Variations(vfs)
  <2>1. V \in SUBSET (1..Len(vfs))
    BY DEF Variations
  <2> HIDE DEF V
  <2>2. MaxOf(V) \in V /\ \A j \in V : j <= MaxOf(V)
    BY <1>2, <2>1, LastPosition DEF V
  <2>3. LastVersion(vfs) = vfs[MaxOf(V)]
    BY <1>2 DEF LastVersion, Winner, V
  <2>4. MaxOf(V) \in 1..Len(vfs) /\ vfs[MaxOf(V)] # Absent
    BY <2>2 DEF V, Variations
  <2>5. \A i \in 1..Len(vfs) : i > MaxOf(V) => vfs[i] = Absent
    <3> SUFFICES ASSUME NEW i \in 1..Len(vfs), i > MaxOf(V), i \in V PROVE FALSE
      BY DEF V, Variations
    <3>1. i <= MaxOf(V)
      BY <2>2
    <3> QED
      BY <2>4, <3>1
  <2> QED
    BY <2>3, <2>4, <2>5
<1> QED
  BY <1>1, <1>2

LEMMA LastVersionAppended ==
    ASSUME NEW S, NEW vfs \in Seq(S), NEW v \in S
    PROVE  LastVersion(Append(vfs, v)) = IF v # Absent THEN v ELSE LastVersion(vfs)
<1> DEFINE n == Len(vfs)
           w == Append(vfs, v)
<1>1. n \in Nat /\ Len(w) = n + 1 /\ w[n + 1] = v /\ \A i \in 1..n : w[i] = vfs[i]
  BY AppendProperties
<1>2. \A i \in 1..(n + 1) : i \in 1..n \/ i = n + 1
  BY <1>1
<1>3. n + 1 \in 1..(n + 1) /\ 1..n \subseteq 1..(n + 1) /\ \A m \in 1..n : n + 1 > m
  BY <1>1
<1> HIDE DEF n, w
<1>4. CASE v = Absent
  <2>1. Variations(w) = Variations(vfs)
    BY <1>1, <1>2, <1>3, <1>4 DEF Variations, n
  <2>2. Variations(vfs) # {} => MaxOf(Variations(vfs)) \in 1..n
    <3>1. Variations(vfs) \in SUBSET (1..n)
      BY DEF Variations, n
    <3> QED
      BY <1>1, <3>1, LastPosition
  <2>3. LastVersion(w) = LastVersion(vfs)
    BY <1>1, <2>1, <2>2 DEF LastVersion, Winner
  <2> QED
    BY <1>4, <2>3 DEF w
<1>5. CASE v # Absent
  <2>1. \A m \in 1..(n + 1) : m # n + 1 => n + 1 > m
    BY <1>1
  <2>2. LastVersion(w) = v
    BY <1>1, <1>3, <1>5, <2>1, LastVersionIs
  <2> QED
    BY <1>5, <2>2 DEF w
<1> QED
  BY <1>4, <1>5

\* If no resolver is recorded, the last version is the result.
LEMMA LastWins ==
    ASSUME NEW vfs, NEW infos, NEW of, \A m \in Conflicts(vfs, infos, of) : m.resolver = None
    PROVE  LayerMerge(vfs, infos) = LastVersion(vfs)
<1>1. ~(InConflict(vfs) /\ Consensus(Choices(vfs, infos)) # None)
  BY DEF Conflicts, Conflict
<1>2. CASE Variations(vfs) = {}
  BY <1>1, <1>2 DEF LayerMerge, LastVersion
<1>3. CASE Variations(vfs) # {}
  BY <1>1, <1>3 DEF LayerMerge, LastVersion
<1> QED
  BY <1>2, <1>3

LEMMA FileIsNotAbsent ==
    ASSUME NEW x \in Id
    PROVE  File(x) # Absent /\ File(x) \in Version
<1>1. x # None
  BY TemplatesAssumption, ResolverAssumption
<1>2. File(x) # Absent
  BY <1>1 DEF File, Absent
<1> QED
  BY <1>2 DEF Version

\* The list of a walk that is done is in order.
Listed == [i \in DOMAIN flattened |-> flattened[i].id]

LEMMA ListIsOrdered == WalkInv /\ DependenciesFirst => Ordered(Listed)
<1> SUFFICES ASSUME WalkInv, DependenciesFirst, NEW L, L = Listed PROVE Ordered(L)
  OBVIOUS
<1>1. Len(flattened) \in Nat /\ DOMAIN flattened = 1..Len(flattened)
  BY Entries DEF WalkInv, WalkTyped
<1>2. Len(L) = Len(flattened) /\ \A i \in 1..Len(flattened) : L[i] = flattened[i].id
  BY <1>1 DEF Listed
<1> SUFFICES ASSUME NEW a \in 1..Len(L), NEW b \in 1..Len(L), L[b] \in Under(L[a]), L[a] \notin Under(L[a])
             PROVE  b < a
  BY DEF Ordered
<1>3. PICK k \in 1..(a - 1) : flattened[k].id = flattened[b].id
  BY <1>2 DEF DependenciesFirst
<1>4. k \in 1..Len(flattened) /\ k < a
  BY <1>1, <1>2
<1>5. k = b
  BY <1>2, <1>3, <1>4 DEF WalkInv, NoneTwice, Distinct
<1> QED
  BY <1>4, <1>5

LEMMA OrderedUnchanged ==
    ASSUME \A x : Under(x)' = Under(x), NEW i, trees'[i] = trees[i], Ordered(trees[i])
    PROVE  Ordered(trees[i])'
<1>1. \A a, b \in 1..Len(trees'[i]) :
         trees'[i][b] \in Under(trees'[i][a]) /\ trees'[i][a] \notin Under(trees'[i][a]) => b < a
  BY DEF Ordered
<1> QED
  BY <1>1 DEF Ordered

\* With the next template the last version is still known.
LEMMA NextIsLast ==
    ASSUME NEW L, NEW n \in Nat, NEW out, IsLastOf(L, n, out),
           NEW v, v = IF L[n + 1] \in produces THEN File(L[n + 1]) ELSE out
    PROVE  IsLastOf(L, n + 1, v)
<1>1. n + 1 \in 1..(n + 1) /\ 1..n \subseteq 1..(n + 1) /\ \A k \in 1..(n + 1) : k \in 1..n \/ k = n + 1
  OBVIOUS
<1>2. CASE L[n + 1] \in produces
  <2>1. \A k \in 1..(n + 1) : ~(k > n + 1)
    OBVIOUS
  <2> QED
    BY <1>1, <1>2, <2>1 DEF IsLastOf
<1>3. CASE L[n + 1] \notin produces
  BY <1>1, <1>3 DEF IsLastOf
<1> QED
  BY <1>2, <1>3

\* The result of the last tree with a version is not overridden.
LEMMA LastTreeWins ==
    ASSUME trees \in Seq(Seq(Id) \ {<<>>}), NEW i \in 1..Len(trees), NEW m \in 1..Len(trees[i]),
           Ordered(trees[i]), trees[i][m] \in produces,
           \A k \in 1..Len(trees[i]) : k > m => trees[i][k] \notin produces,
           \A j \in 1..Len(trees) : j > i => \A k \in 1..Len(trees[j]) : trees[j][k] \notin produces,
           NEW j \in 1..Len(trees), NEW k \in 1..Len(trees[j]), trees[j][k] \in produces
    PROVE  ~Overrides(j, trees[j][k], i, trees[i][m])
<1>1. ~(j > i)
  OBVIOUS
<1>2. ASSUME j = i, trees[i][m] \in Under(trees[j][k]), trees[j][k] \notin Under(trees[j][k]) PROVE FALSE
  <2>1. m < k
    BY <1>2 DEF Ordered
  <2>2. Len(trees[i]) \in Nat
    <3>1. trees[i] \in Seq(Id)
      OBVIOUS
    <3> QED
      BY <3>1
  <2> QED
    BY <1>2, <2>1, <2>2
<1> QED
  BY <1>1, <1>2 DEF Overrides

\* Who has the path, by tree and position.
LEMMA DependentsWinIf ==
    ASSUME trees \in Seq(Seq(Id) \ {<<>>}),
           \/ /\ layered[1] = Absent
              /\ \A j \in 1..Len(trees) : \A k \in 1..Len(trees[j]) : trees[j][k] \notin produces
           \/ \E i \in 1..Len(trees) : \E m \in 1..Len(trees[i]) :
                 /\ trees[i][m] \in produces /\ layered[1] = File(trees[i][m]) /\ Ordered(trees[i])
                 /\ \A k \in 1..Len(trees[i]) : k > m => trees[i][k] \notin produces
                 /\ \A j \in 1..Len(trees) : j > i => \A k \in 1..Len(trees[j]) : trees[j][k] \notin produces
    PROVE  DependentsWin
<1> DEFINE Producers == {p \in (DOMAIN trees) \X produces : \E k \in DOMAIN trees[p[1]] : trees[p[1]][k] = p[2]}
<1>1. DOMAIN trees = 1..Len(trees) /\ \A j \in 1..Len(trees) : trees[j] \in Seq(Id)
  OBVIOUS
<1>2. \A j \in 1..Len(trees) : DOMAIN trees[j] = 1..Len(trees[j])
  BY <1>1
<1>3. ASSUME NEW p \in Producers
      PROVE  /\ p[1] \in 1..Len(trees) /\ p[2] \in produces
             /\ \E k \in 1..Len(trees[p[1]]) : trees[p[1]][k] = p[2]
  BY <1>1, <1>2
<1>4. ASSUME NEW j \in 1..Len(trees), NEW k \in 1..Len(trees[j]), trees[j][k] \in produces
      PROVE  <<j, trees[j][k]>> \in Producers
  BY <1>1, <1>2, <1>4
<1> HIDE DEF Producers
<1>5. CASE /\ layered[1] = Absent
           /\ \A j \in 1..Len(trees) : \A k \in 1..Len(trees[j]) : trees[j][k] \notin produces
  <2>1. Producers = {}
    BY <1>3, <1>5
  <2> QED
    BY <1>5, <2>1 DEF DependentsWin, Producers
<1>6. ASSUME NEW i \in 1..Len(trees), NEW m \in 1..Len(trees[i]),
             trees[i][m] \in produces, layered[1] = File(trees[i][m]), Ordered(trees[i]),
             \A k \in 1..Len(trees[i]) : k > m => trees[i][k] \notin produces,
             \A j \in 1..Len(trees) : j > i => \A k \in 1..Len(trees[j]) : trees[j][k] \notin produces
      PROVE  DependentsWin
  <2> DEFINE p == <<i, trees[i][m]>>
  <2>1. p \in Producers /\ p[1] = i /\ p[2] = trees[i][m]
    BY <1>4, <1>6
  <2>2. ASSUME NEW q \in Producers PROVE ~Overrides(q[1], q[2], i, trees[i][m])
    <3>1. PICK k \in 1..Len(trees[q[1]]) : trees[q[1]][k] = q[2]
      BY <1>3
    <3>2. q[1] \in 1..Len(trees) /\ q[2] \in produces
      BY <1>3
    <3> QED
      BY <1>6, <3>1, <3>2, LastTreeWins
  <2> HIDE DEF p
  <2>3. \E r \in Producers : layered[1] = File(r[2]) /\ \A q \in Producers : ~Overrides(q[1], q[2], r[1], r[2])
    BY <1>6, <2>1, <2>2
  <2>4. Producers # {}
    BY <2>1
  <2> QED
    BY <2>3, <2>4 DEF DependentsWin, Producers
<1> QED
  BY <1>5, <1>6

-----------------------------------------------------------------------------
LEMMA InitWinInv == Init => WinInv
<1> SUFFICES ASSUME Init PROVE WinInv
  OBVIOUS
<1>1. /\ flattened = <<>> /\ walk = "walking" /\ produces \subseteq executable
      /\ tree = 1 /\ at = 1 /\ outputs = <<>> /\ layered = <<>> /\ status = "map"
  BY DEF Init, WalkInit, LayerInit
<1>2. Len(flattened) = 0 /\ Len(layered) = 0 /\ outputs \in Seq(Version)
  BY <1>1, EmptySeq
<1>3. DependenciesFirst
  BY <1>2 DEF DependenciesFirst
<1>4. TreeInv /\ LayeredInv
  BY <1>1, <1>2 DEF TreeInv, LayeredInv
<1>5. layered \in Seq({layered[i] : i \in 1..Len(layered)})
  BY <1>1, EmptySeq
<1> QED
  BY <1>1, <1>3, <1>4, <1>5 DEF WinInv, DependentsWin

LEMMA ResolveKeepsWinInv == IInv /\ IInv' /\ WinInv /\ Resolve => WinInv'
<1> SUFFICES ASSUME IInv, IInv', WinInv, Resolve PROVE WinInv'
  OBVIOUS
<1>1. /\ status = "map" /\ walk = "walking" /\ WalkStep
      /\ UNCHANGED <<executable, produces, tree, at, outputs, layered, merges>>
      /\ status' \in {"map", "failed"} /\ (walk' = "failed" => status' = "failed")
  BY DEF Resolve, Mapping
<1>2. TreeInv /\ LayeredInv /\ at = 1 /\ outputs = <<>> /\ outputs \in Seq(Version)
  BY <1>1 DEF WinInv, TreeInv
<1>3. DependenciesFirst'
  BY <1>1, WalkKeepsOrder DEF IInv, WinInv
<1>4. \A x : Under(x)' = Under(x)
  BY <1>1, ReachUnchanged DEF Under, WalkStep, MergePresets, SkipVisited, Descend, FetchFails, Return, graph
<1>5. tree \in 1..Len(trees) /\ trees \in Seq(Seq(Id) \ {<<>>}) /\ Len(trees) \in Nat
  BY <1>1 DEF IInv, BatchTyped
<1>6. /\ Len(trees') = Len(trees) /\ \A i \in 1..Len(trees) : i # tree => trees'[i] = trees[i]
      /\ walk' = "done" => trees'[tree] = [i \in DOMAIN flattened' |-> flattened'[i].id]
  BY <1>5 DEF Resolve
<1>7. ASSUME status' = "map" PROVE LayeredInv'
  <2>1. Len(layered) = tree - 1
    BY <1>1, <1>2 DEF LayeredInv
  <2>2. ASSUME NEW i \in 1..Len(layered) PROVE trees'[i] = trees[i] /\ Ordered(trees[i])'
    <3>1. i \in 1..Len(trees) /\ i # tree
      BY <1>5, <2>1
    <3>2. trees'[i] = trees[i] /\ Ordered(trees[i])
      BY <1>2, <1>6, <3>1 DEF LayeredInv
    <3> QED
      BY <1>4, <3>2, OrderedUnchanged
  <2>3. status' = "map" => Len(layered') = tree' - 1
    BY <1>1, <2>1
  <2>4. ASSUME NEW i \in 1..Len(layered), NoneMerged
        PROVE  IsLastOf(trees[i], Len(trees[i]), layered[i])'
    <3>1. IsLastOf(trees[i], Len(trees[i]), layered[i]) /\ trees'[i] = trees[i]
      BY <1>2, <2>2, <2>4 DEF LayeredInv
    <3> QED
      BY <1>1, <3>1 DEF IsLastOf
  <2>5. NoneMerged' = NoneMerged
    BY <1>1 DEF NoneMerged
  <2> QED
    BY <1>1, <1>7, <2>1, <2>2, <2>4, <2>5 DEF LayeredInv
<1>8. ASSUME status' = "map" PROVE TreeInv'
  <2>1. ASSUME walk' = "done"
        PROVE  /\ at' \in 1..(Len(trees'[tree']) + 1) /\ Ordered(trees[tree])'
               /\ IsLastOf(trees[tree], at - 1, LastVersion(outputs))'
    <3>1. trees'[tree'] = Listed'
      BY <1>1, <1>6, <2>1 DEF Listed
    <3>2. (WalkInv /\ DependenciesFirst => Ordered(Listed))'
      BY ListIsOrdered, PTL
    <3>3. Ordered(trees[tree])'
      BY <1>3, <3>1, <3>2 DEF IInv, Ordered
    <3>4. trees'[tree] \in Seq(Id) /\ Len(trees'[tree]) \in Nat
      BY <1>1, <1>5, <1>6 DEF IInv, BatchTyped
    <3>5. LastVersion(outputs) = Absent /\ LastVersion(outputs)' = Absent
      BY <1>1, <1>2, EmptySeq DEF LastVersion, Variations
    <3>6. at' - 1 = 0 /\ 1..0 = {} /\ at' \in 1..(Len(trees'[tree']) + 1)
      BY <1>1, <1>2, <3>4
    <3> QED
      BY <3>3, <3>5, <3>6 DEF IsLastOf
  <2> QED
    BY <1>1, <1>2, <2>1 DEF TreeInv
<1>9. DependentsWin'
  BY <1>1 DEF DependentsWin
<1> QED
  BY <1>1, <1>3, <1>7, <1>8, <1>9 DEF WinInv

\* An execution adds one output.
LEMMA ExecuteKeepsTree ==
    ASSUME IInv, WinInv, walk = "done", Execute \/ SkipGroup, \A x : Under(x)' = Under(x)
    PROVE  /\ outputs' \in Seq(Version)
           /\ at' \in 1..(Len(trees[tree]) + 1)
           /\ IsLastOf(trees[tree], at' - 1, LastVersion(outputs'))
<1>1. /\ status = "map" /\ at <= Len(trees[tree]) /\ at' = at + 1 /\ Here = trees[tree][at]
  BY DEF Execute, SkipGroup, Here
<1>2. /\ tree \in 1..Len(trees) /\ trees[tree] \in Seq(Id) /\ Len(trees[tree]) \in Nat
  BY <1>1 DEF IInv, BatchTyped
<1>3. /\ at \in 1..(Len(trees[tree]) + 1) /\ outputs \in Seq(Version)
      /\ IsLastOf(trees[tree], at - 1, LastVersion(outputs))
  BY <1>1 DEF WinInv, TreeInv
<1>4. at \in 1..Len(trees[tree]) /\ at - 1 \in Nat /\ (at - 1) + 1 = at /\ at' - 1 = at
      /\ at' \in 1..(Len(trees[tree]) + 1)
  BY <1>1, <1>2, <1>3
<1>5. Here \in Id
  BY <1>1, <1>2, <1>4
<1>6. CASE Execute
  <2> DEFINE out == IF Here \in produces THEN File(Here) ELSE Absent
  <2>1. outputs' = Append(outputs, out)
    BY <1>6 DEF Execute
  <2>2. out \in Version /\ (Here \in produces => out # Absent /\ out = File(Here)) /\ (Here \notin produces => out = Absent)
    BY <1>5, FileIsNotAbsent DEF Version
  <2> HIDE DEF out
  <2>3. outputs' \in Seq(Version)
    BY <1>3, <2>1, <2>2
  <2>4. LastVersion(outputs') = IF Here \in produces THEN File(Here) ELSE LastVersion(outputs)
    BY <1>3, <2>1, <2>2, LastVersionAppended
  <2>5. IsLastOf(trees[tree], (at - 1) + 1, LastVersion(outputs'))
    BY <1>1, <1>3, <1>4, <2>4, NextIsLast
  <2> QED
    BY <1>4, <2>3, <2>5
<1>7. CASE SkipGroup
  <2>1. outputs' = outputs /\ Here \notin produces
    BY <1>7 DEF SkipGroup, WinInv
  <2>2. IsLastOf(trees[tree], (at - 1) + 1, LastVersion(outputs'))
    BY <1>1, <1>3, <1>4, <2>1, NextIsLast
  <2> QED
    BY <1>3, <1>4, <2>1, <2>2
<1> QED
  BY <1>6, <1>7

LEMMA AppendsInOrder ==
    ASSUME WinInv, NEW x, layered' = Append(layered, x)
    PROVE  /\ layered' \in Seq({layered'[i] : i \in 1..Len(layered')})
           /\ Len(layered) \in Nat /\ Len(layered') = Len(layered) + 1
           /\ layered'[Len(layered) + 1] = x
           /\ \A i \in 1..Len(layered) : layered'[i] = layered[i]
<1> DEFINE n == Len(layered)
           S == {layered[i] : i \in 1..n} \cup {x}
<1>1. n \in Nat /\ layered \in Seq(S)
  <2>1. n \in Nat /\ layered \in Seq({layered[i] : i \in 1..n})
    BY DEF WinInv
  <2> QED
    BY <2>1
<1>2. /\ layered' \in Seq(S) /\ Len(layered') = n + 1 /\ layered'[n + 1] = x
      /\ \A i \in 1..n : layered'[i] = layered[i]
  BY <1>1, AppendProperties
<1>3. /\ layered' \in [1..(n + 1) -> S]
  BY <1>1, <1>2, LenProperties
<1>4. layered' \in [1..(n + 1) -> {layered'[i] : i \in 1..(n + 1)}]
  BY <1>3
<1> QED
  BY <1>1, <1>2, <1>4, SeqDef

\* The last layering: of the trees, or of the only one.
LEMMA ProjectWins ==
    ASSUME IInv, WinInv, LayerProject, NoneMerged', \A x : Under(x)' = Under(x)
    PROVE  DependentsWin'
<1>1. /\ status = "layer" /\ UNCHANGED <<trees, produces>>
      /\ merges' = merges \cup Conflicts(layered, Roots, Roots)
      /\ layered' = IF Len(trees) = 1 THEN layered ELSE <<LayerMerge(layered, Roots)>>
  BY DEF LayerProject, LayeredProject, templates
<1>2. NoneMerged /\ \A m \in Conflicts(layered, Roots, Roots) : m.resolver = None
  BY <1>1 DEF NoneMerged
<1>3. LayerMerge(layered, Roots) = LastVersion(layered)
  BY <1>2, LastWins
<1>4. /\ trees \in Seq(Seq(Id) \ {<<>>}) /\ Len(trees) \in Nat /\ Len(layered) = Len(trees)
      /\ \A i \in 1..Len(trees) : Ordered(trees[i]) /\ IsLastOf(trees[i], Len(trees[i]), layered[i])
  <2>1. LayeredInv /\ trees \in Seq(Seq(Id) \ {<<>>})
    BY <1>1 DEF IInv, BatchTyped, WinInv
  <2>2. Len(trees) \in Nat
    BY <2>1
  <2> QED
    BY <1>1, <1>2, <2>1, <2>2 DEF LayeredInv
<1>5. layered'[1] = LastVersion(layered)
  <2>1. CASE Len(trees) = 1
    <3>1. 1..1 = {1} /\ ~(1 > 1)
      OBVIOUS
    <3>2. LastVersion(layered) = layered[1]
      BY <1>4, <2>1, <3>1, LastVersionIs
    <3> QED
      BY <1>1, <2>1, <3>2
  <2>2. CASE Len(trees) # 1
    BY <1>1, <1>3, <2>2
  <2> QED
    BY <2>1, <2>2
<1>6. \A i \in 1..Len(trees) : trees[i] \in Seq(Id) /\ Len(trees[i]) \in Nat
  BY <1>4
<1>7. ASSUME NEW i \in 1..Len(trees)
      PROVE  /\ layered[i] = Absent => \A k \in 1..Len(trees[i]) : trees[i][k] \notin produces
             /\ layered[i] # Absent => \E m \in 1..Len(trees[i]) :
                   /\ trees[i][m] \in produces /\ layered[i] = File(trees[i][m])
                   /\ \A k \in 1..Len(trees[i]) : k > m => trees[i][k] \notin produces
  <2>1. \A m \in 1..Len(trees[i]) : trees[i][m] \in Id
    BY <1>6
  <2> QED
    BY <1>4, <2>1, FileIsNotAbsent DEF IsLastOf
<1>8. \/ /\ layered'[1] = Absent
         /\ \A j \in 1..Len(trees) : \A k \in 1..Len(trees[j]) : trees[j][k] \notin produces
      \/ \E i \in 1..Len(trees) : \E m \in 1..Len(trees[i]) :
            /\ trees[i][m] \in produces /\ layered'[1] = File(trees[i][m])
            /\ \A k \in 1..Len(trees[i]) : k > m => trees[i][k] \notin produces
            /\ \A j \in 1..Len(trees) : j > i => \A k \in 1..Len(trees[j]) : trees[j][k] \notin produces
  <2>1. CASE LastVersion(layered) = Absent /\ \A i \in 1..Len(trees) : layered[i] = Absent
    BY <1>5, <1>7, <2>1
  <2>2. ASSUME NEW i \in 1..Len(trees), layered[i] # Absent, LastVersion(layered) = layered[i],
               \A j \in 1..Len(trees) : j > i => layered[j] = Absent
        PROVE  \E m \in 1..Len(trees[i]) :
                 /\ trees[i][m] \in produces /\ layered'[1] = File(trees[i][m])
                 /\ \A k \in 1..Len(trees[i]) : k > m => trees[i][k] \notin produces
                 /\ \A j \in 1..Len(trees) : j > i => \A k \in 1..Len(trees[j]) : trees[j][k] \notin produces
    BY <1>5, <1>7, <2>2
  <2>3. \/ LastVersion(layered) = Absent /\ \A i \in 1..Len(trees) : layered[i] = Absent
        \/ \E i \in 1..Len(trees) :
              /\ layered[i] # Absent /\ LastVersion(layered) = layered[i]
              /\ \A j \in 1..Len(trees) : j > i => layered[j] = Absent
    BY <1>4, LastVersionIs
  <2> QED
    BY <2>1, <2>2, <2>3
<1>9. \A i \in 1..Len(trees) : Ordered(trees[i])'
  <2> SUFFICES ASSUME NEW i \in 1..Len(trees) PROVE Ordered(trees[i])'
    OBVIOUS
  <2>1. trees'[i] = trees[i] /\ Ordered(trees[i])
    BY <1>1, <1>4
  <2> QED
    BY <2>1, OrderedUnchanged
<1>10. (\/ /\ layered[1] = Absent
           /\ \A j \in 1..Len(trees) : \A k \in 1..Len(trees[j]) : trees[j][k] \notin produces
        \/ \E i \in 1..Len(trees) : \E m \in 1..Len(trees[i]) :
              /\ trees[i][m] \in produces /\ layered[1] = File(trees[i][m]) /\ Ordered(trees[i])
              /\ \A k \in 1..Len(trees[i]) : k > m => trees[i][k] \notin produces
              /\ \A j \in 1..Len(trees) : j > i => \A k \in 1..Len(trees[j]) : trees[j][k] \notin produces)'
  BY <1>1, <1>8, <1>9
<1>11. (trees \in Seq(Seq(Id) \ {<<>>}))'
  BY <1>1, <1>4
<1> QED
  BY <1>10, <1>11, DependentsWinIf, PTL

LEMMA ComposeKeepsWinInv == IInv /\ IInv' /\ WinInv /\ Compose => WinInv'
<1> SUFFICES ASSUME IInv, IInv', WinInv, Compose PROVE WinInv'
  OBVIOUS
<1>1. walk = "done" /\ UNCHANGED <<depends, executable, produces, trees>>
  BY DEF Compose, WalkAgain, walkVars, graph, LayerStep, Execute, SkipGroup, LayerTree,
         LayerProject, ResolverFails, templates
<1>2. \A x : Under(x)' = Under(x)
  BY <1>1, ReachUnchanged DEF Under
<1>3. DependenciesFirst'
  <2>1. CASE UNCHANGED walkVars
    <3>1. flattened' = flattened /\ Len(flattened) \in Nat
      BY <2>1, Entries DEF walkVars, IInv, WalkInv
    <3> QED
      BY <1>2, <3>1, SameList DEF WinInv
  <2>2. CASE WalkAgain(Root(tree'))
    <3>1. Len(flattened') = 0
      BY <2>2, EmptySeq DEF WalkAgain
    <3> QED
      BY <3>1 DEF DependenciesFirst
  <2> QED
    BY <2>1, <2>2 DEF Compose
<1>4. \A i : trees'[i] = trees[i] /\ (Ordered(trees[i]) => Ordered(trees[i])')
  BY <1>1, <1>2, OrderedUnchanged
<1>5. CASE Execute \/ SkipGroup
  <2>1. /\ status = "map" /\ UNCHANGED <<status, tree, layered, merges>>
    BY <1>5 DEF Execute, SkipGroup
  <2>2. walk' = walk
    BY <2>1 DEF Compose, walkVars
  <2>3. /\ outputs' \in Seq(Version) /\ at' \in 1..(Len(trees[tree]) + 1)
        /\ IsLastOf(trees[tree], at' - 1, LastVersion(outputs'))
    BY <1>1, <1>2, <1>5, ExecuteKeepsTree
  <2>4. TreeInv'
    <3>1. Ordered(trees[tree])
      BY <1>1, <2>1 DEF WinInv, TreeInv
    <3>2. Ordered(trees[tree])'
      BY <1>1, <1>2, <2>1, <3>1 DEF Ordered
    <3>3. IsLastOf(trees[tree], at - 1, LastVersion(outputs))'
      BY <1>1, <2>1, <2>3 DEF IsLastOf, LastVersion, Winner, Variations
    <3> QED
      BY <1>1, <2>1, <2>2, <2>3, <3>2, <3>3 DEF TreeInv
  <2>5. LayeredInv'
    <3>1. NoneMerged' = NoneMerged
      BY <2>1 DEF NoneMerged
    <3>2. LayeredInv
      BY <2>1 DEF WinInv
    <3>3. \A i : IsLastOf(trees[i], Len(trees[i]), layered[i]) => IsLastOf(trees[i], Len(trees[i]), layered[i])'
      BY <1>1, <2>1 DEF IsLastOf
    <3> QED
      BY <1>1, <1>4, <2>1, <3>1, <3>2, <3>3 DEF LayeredInv
  <2> QED
    BY <1>1, <1>3, <2>1, <2>4, <2>5 DEF WinInv, DependentsWin
<1>6. CASE LayerTree
  <2>1. /\ status = "map" /\ at > Len(trees[tree])
        /\ outputs' = <<>> /\ at' = 1 /\ tree' = tree + 1
        /\ layered' = Append(layered, LayerMerge(outputs, Infos))
        /\ merges' = merges \cup Conflicts(outputs, Infos, sources)
        /\ status' = IF tree < Len(trees) THEN "map" ELSE "layer"
    BY <1>6 DEF LayerTree
  <2>2. tree \in 1..Len(trees) /\ Len(trees[tree]) \in Nat /\ Len(trees) \in Nat
    <3>1. tree \in 1..Len(trees) /\ trees[tree] \in Seq(Id) /\ Len(trees) \in Nat
      BY <2>1 DEF IInv, BatchTyped
    <3> QED
      BY <3>1
  <2>3. /\ Ordered(trees[tree]) /\ at - 1 = Len(trees[tree])
        /\ IsLastOf(trees[tree], Len(trees[tree]), LastVersion(outputs))
    <3>1. TreeInv /\ walk = "done"
      BY <1>1, <2>1 DEF WinInv, Compose
    <3>2. /\ Ordered(trees[tree]) /\ at \in 1..(Len(trees[tree]) + 1)
          /\ IsLastOf(trees[tree], at - 1, LastVersion(outputs))
      BY <3>1 DEF TreeInv
    <3>3. at - 1 = Len(trees[tree])
      BY <2>1, <2>2, <3>2
    <3> QED
      BY <3>2, <3>3
  <2>4. status' = "map" => walk' = "walking"
    <3>1. tree' # tree
      BY <2>1, <2>2
    <3> QED
      BY <3>1 DEF Compose, WalkAgain
  <2>5. status' = "map" => TreeInv'
    BY <2>1, <2>4, EmptySeq DEF TreeInv
  <2>6. /\ layered' \in Seq({layered'[i] : i \in 1..Len(layered')})
        /\ Len(layered) = tree - 1 /\ Len(layered') = tree
        /\ layered'[tree] = LayerMerge(outputs, Infos)
        /\ \A i \in 1..Len(layered) : layered'[i] = layered[i]
    <3>1. Len(layered) = tree - 1 /\ (tree - 1) + 1 = tree
      BY <2>1, <2>2 DEF WinInv, LayeredInv
    <3> QED
      BY <2>1, <3>1, AppendsInOrder
  <2>7. ASSUME NoneMerged' PROVE NoneMerged /\ LayerMerge(outputs, Infos) = LastVersion(outputs)
    <3>1. NoneMerged /\ \A m \in Conflicts(outputs, Infos, sources) : m.resolver = None
      BY <2>1, <2>7 DEF NoneMerged
    <3> QED
      BY <3>1, LastWins
  <2>8. ASSUME NEW i \in 1..tree
        PROVE  Ordered(trees[i]) /\ (NoneMerged' => IsLastOf(trees[i], Len(trees[i]), layered'[i]))
    <3>1. CASE i = tree
      BY <2>3, <2>6, <2>7, <3>1
    <3>2. CASE i # tree
      <4>1. i \in 1..Len(layered)
        BY <2>2, <2>6, <3>2
      <4> QED
        BY <2>1, <2>6, <2>7, <4>1 DEF WinInv, LayeredInv
    <3> QED
      BY <3>1, <3>2
  <2>9. LayeredInv'
    <3>1. Len(layered') = IF status' = "map" THEN tree' - 1 ELSE Len(trees')
      BY <1>1, <2>1, <2>2, <2>6
    <3>2. ASSUME NEW i \in 1..Len(layered'), NoneMerged' PROVE IsLastOf(trees[i], Len(trees[i]), layered[i])'
      BY <1>1, <2>6, <2>8, <3>2 DEF IsLastOf
    <3> QED
      BY <1>4, <2>6, <2>8, <3>1, <3>2 DEF LayeredInv
  <2> QED
    BY <1>1, <1>3, <2>1, <2>5, <2>6, <2>9 DEF WinInv, DependentsWin
<1>7. CASE LayerProject
  <2>1. /\ status' = "done"
        /\ layered' = IF Len(trees) = 1 THEN layered ELSE <<LayerMerge(layered, Roots)>>
        /\ merges' = merges \cup Conflicts(layered, Roots, Roots)
    BY <1>7 DEF LayerProject, LayeredProject
  <2>2. layered' \in Seq({layered'[i] : i \in 1..Len(layered')})
    <3>1. CASE Len(trees) = 1
      BY <2>1, <3>1 DEF WinInv
    <3>2. CASE Len(trees) # 1
      BY <2>1, <3>2
    <3> QED
      BY <3>1, <3>2
  <2>3. DependentsWin'
    <3>1. CASE NoneMerged'
      BY <1>2, <1>7, <3>1, ProjectWins
    <3>2. CASE ~NoneMerged'
      BY <3>2 DEF DependentsWin, NoneMerged
    <3> QED
      BY <3>1, <3>2
  <2> QED
    BY <1>1, <1>3, <2>1, <2>2, <2>3 DEF WinInv
<1>8. CASE ResolverFails
  <2>1. status' = "failed" /\ UNCHANGED <<outputs, layered, merges>>
    BY <1>8 DEF ResolverFails
  <2> QED
    BY <1>1, <1>3, <2>1 DEF WinInv, DependentsWin
<1> QED
  BY <1>5, <1>6, <1>7, <1>8 DEF Compose, LayerStep

LEMMA StutterKeepsWinInv == IInv /\ WinInv /\ UNCHANGED vars => WinInv'
<1> SUFFICES ASSUME IInv, WinInv, UNCHANGED vars PROVE WinInv'
  OBVIOUS
<1>1. UNCHANGED <<depends, declaring, root, stack, visited, flattened, walk, trees, executable, produces,
                  tree, at, outputs, layered, merges, status>>
  BY DEF vars, walkVars, graph, layerVars, templates
<1>2. \A x : Under(x)' = Under(x)
  BY <1>1, ReachUnchanged DEF Under
<1>3. DependenciesFirst'
  <2>1. Len(flattened) \in Nat
    BY Entries DEF IInv, WalkInv
  <2> QED
    BY <1>1, <1>2, <2>1, SameList DEF WinInv
<1>4. \A i : Ordered(trees[i]) => Ordered(trees[i])'
  BY <1>1, <1>2, OrderedUnchanged
<1>5. TreeInv => TreeInv'
  <2>1. Ordered(trees[tree]) => Ordered(trees[tree])'
    BY <1>1, <1>2 DEF Ordered
  <2> QED
    BY <1>1, <2>1 DEF TreeInv, IsLastOf, LastVersion, Winner, Variations
<1>6. LayeredInv => LayeredInv'
  <2>1. \A i : IsLastOf(trees[i], Len(trees[i]), layered[i]) => IsLastOf(trees[i], Len(trees[i]), layered[i])'
    BY <1>1 DEF IsLastOf
  <2>2. NoneMerged' = NoneMerged
    BY <1>1 DEF NoneMerged
  <2> QED
    BY <1>1, <1>4, <2>1, <2>2 DEF LayeredInv
<1>7. DependentsWin'
  <2>1. \A i, x, j, y : Overrides(i, x, j, y)' = Overrides(i, x, j, y)
    BY <1>2 DEF Overrides
  <2> QED
    BY <1>1, <2>1 DEF DependentsWin, WinInv
<1> QED
  BY <1>1, <1>3, <1>5, <1>6, <1>7 DEF WinInv

\* If no resolver merges anything, a template wins over what it depends on, if
\* it is on no cycle, and over the templates of the project before it: for every
\* graph, every order of the project, and with groups anywhere.
THEOREM DependentsWinAlways == Spec => []DependentsWin
<1>1. IInv /\ IInv' /\ WinInv /\ [Next]_vars => WinInv'
  BY ResolveKeepsWinInv, ComposeKeepsWinInv, StutterKeepsWinInv DEF Next, Over
<1>2. WinInv => DependentsWin
  BY DEF WinInv
<1> QED
  BY BatchInvariant, InitWinInv, <1>1, <1>2, PTL DEF Spec
-----------------------------------------------------------------------------
(***************************************************************************)
(* A project of one template: its conflicts are those of its only tree,    *)
(* and one output is in conflict with nothing.                             *)
(***************************************************************************)
SingleInv ==
    Len(trees) = 1 =>
        /\ status = "map" => conflicts = {} /\ merges = {} /\ layered = <<>>
        /\ status = "layer" => conflicts = merges /\ Len(layered) = 1
        /\ status = "done" => conflicts = merges

LEMMA ResolveKeepsSingle == IInv /\ SingleInv /\ Resolve => SingleInv'
<1> SUFFICES ASSUME IInv, SingleInv, Resolve PROVE SingleInv'
  OBVIOUS
<1>1. /\ Len(trees') = Len(trees) /\ status' \in {status, "failed"}
      /\ UNCHANGED <<conflicts, merges, layered>>
  <2>1. trees \in Seq(Seq(Id) \ {<<>>})
    BY DEF IInv, BatchTyped
  <2>2. trees' = trees \/ \E s : trees' = [trees EXCEPT ![tree] = s]
    BY DEF Resolve
  <2>3. Len(trees') = Len(trees)
    BY <2>1, <2>2
  <2> QED
    BY <2>3 DEF Resolve
<1> QED
  BY <1>1 DEF SingleInv

LEMMA ComposeKeepsSingle == IInv /\ SingleInv /\ Compose => SingleInv'
<1> SUFFICES ASSUME IInv, SingleInv, Compose, Len(trees') = 1 PROVE SingleInv'
  BY DEF SingleInv
<1>1. trees' = trees /\ Len(trees) = 1
  BY DEF Compose, LayerStep, Execute, SkipGroup, LayerTree, LayerProject, ResolverFails, templates
<1>2. CASE Execute \/ SkipGroup
  BY <1>1, <1>2 DEF SingleInv, Execute, SkipGroup
<1>3. CASE LayerTree
  <2>1. tree = 1 /\ status = "map"
    BY <1>1, <1>3 DEF LayerTree, IInv, BatchTyped
  <2>2. status' = "layer"
    BY <1>1, <1>3, <2>1 DEF LayerTree
  <2>3. conflicts' = Conflicts(outputs, Infos, sources) /\ merges' = merges \cup conflicts' /\ merges = {}
    BY <1>1, <1>3, <2>1 DEF LayerTree, SingleInv
  <2>4. layered' = Append(<<>>, LayerMerge(outputs, Infos))
    BY <1>1, <1>3, <2>1 DEF LayerTree, SingleInv
  <2>5. Len(layered') = 1
    BY <2>4
  <2>6. conflicts' = merges'
    BY <2>3
  <2> QED
    BY <2>2, <2>5, <2>6 DEF SingleInv
<1>4. CASE LayerProject
  <2>1. conflicts = merges /\ Len(layered) = 1
    BY <1>1, <1>4 DEF LayerProject, SingleInv
  <2>2. Conflicts(layered, Roots, Roots) = {}
    BY <2>1 DEF Conflicts, InConflict
  <2>3. status' = "done" /\ conflicts' = conflicts /\ merges' = merges \cup {}
    BY <1>1, <1>4, <2>2 DEF LayerProject, Recorded
  <2> QED
    BY <2>1, <2>3 DEF SingleInv
<1>5. CASE ResolverFails
  <2>1. status' = "failed"
    BY <1>5 DEF ResolverFails
  <2> QED
    BY <2>1 DEF SingleInv
<1> QED
  BY <1>2, <1>3, <1>4, <1>5 DEF Compose, LayerStep

\* Every conflict that arises in a project of one template is recorded; with more
\* each layering replaces what the one before has recorded.
THEOREM SingleRecordsConflictsAlways == Spec => []SingleRecordsConflicts
<1>1. Init => SingleInv
  BY DEF Init, LayerInit, SingleInv
<1>2. SingleInv => SingleRecordsConflicts
  BY DEF SingleInv, SingleRecordsConflicts, ConflictsAreRecorded
<1>3. IInv /\ SingleInv /\ [Next]_vars => SingleInv'
  <2>1. UNCHANGED vars /\ SingleInv => SingleInv'
    BY DEF vars, layerVars, templates, SingleInv
  <2> QED
    BY <2>1, ResolveKeepsSingle, ComposeKeepsSingle DEF Next, Over
<1> QED
  BY BatchInvariant, <1>1, <1>2, <1>3, PTL DEF Spec
=============================================================================
