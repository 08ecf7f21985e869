------------------------ MODULE CompositionRunProofs ------------------------
(***************************************************************************)
(* Proofs about CompositionRun, for every number of nodes, every grouping  *)
(* into specs and every set of group templates: IInv is inductive, the     *)
(* ownership properties follow from it, and the run implements the lease   *)
(* of SessionLease.                                                        *)
(***************************************************************************)
EXTENDS CompositionRun, TLAPS

\* A release request counts for its session alone, and the session is gone
\* unless the coordinator refused.
LEMMA ReleaseEffect ==
    ASSUME TypeOK, NEW s \in Node, released[s] < 2, Release(s)
    PROVE  /\ released' \in [Node -> 0..2]
           /\ released'[s] = released[s] + 1
           /\ \A t \in Node \ {s} : released'[t] = released[t]
           /\ live' \subseteq live
           /\ missed' \subseteq Node /\ missed \subseteq missed'
           /\ s \in live' => s \in missed'
           /\ UNCHANGED <<acquired, lost>>
<1>1. released \in [Node -> 0..2] /\ released[s] \in 0..1 /\ live \in SUBSET Node /\ missed \in SUBSET Node
  BY DEF TypeOK
<1>2. /\ released' = [released EXCEPT ![s] = @ + 1]
      /\ \/ live' = live \ {s} /\ missed' = missed
         \/ missed' = missed \cup {s} /\ live' = live
      /\ acquired' = acquired /\ lost' = lost
  BY DEF Release
<1>3. released[s] + 1 \in 0..2
  BY <1>1
<1>4. released' \in [Node -> 0..2]
  BY <1>1, <1>2, <1>3
<1> QED
  BY <1>1, <1>2, <1>4

\* One iteration of a guard's drop, or of the boundary's clean-up loop.
LEMMA GuardReleaseKeepsIInv ==
    ASSUME IInv, NEW s \in comp \cup batch \cup run, Release(s),
           comp' = comp \ {s}, batch' = batch \ {s}, run' = run \ {s},
           pc \in {"unwind", "boundary"},
           UNCHANGED <<headless, pc, node, threads, cleans, warmed, outcome, disk>>
    PROVE  IInv'
<1>1. s \in Node /\ released[s] = 0 /\ s \in acquired
  BY DEF IInv, TypeOK, NoReleaseWhileOwned, CountsByOwner, Owned
<1>2. /\ released' \in [Node -> 0..2]
      /\ released'[s] = 1
      /\ \A t \in Node \ {s} : released'[t] = released[t]
      /\ live' \subseteq live
      /\ missed' \subseteq Node /\ missed \subseteq missed'
      /\ s \in live' => s \in missed'
      /\ UNCHANGED <<acquired, lost>>
  BY <1>1, ReleaseEffect DEF IInv
<1>3. warmed = {} /\ ~Killed
  BY DEF IInv, OwnersByPlace, OutcomeByPlace, Killed
<1>4. TypeOK'
  BY <1>2 DEF IInv, TypeOK, threads
<1>5. SingleOwner'
  BY DEF IInv, SingleOwner
<1>6. NoReleaseWhileOwned'
  BY <1>1, <1>2 DEF IInv, TypeOK, NoReleaseWhileOwned
<1>7. SecondReleaseOnlyAtFailure'
  BY <1>1, <1>2 DEF IInv, SecondReleaseOnlyAtFailure
<1>8. NeedInputLeavesFiles' /\ OutcomeByPlace'
  BY DEF IInv, NeedInputLeavesFiles, OutcomeByPlace, Killed
<1>9. OwnersByPlace'
  BY DEF IInv, OwnersByPlace, Owned, Killed, BeforeCommit, AfterTake
<1>10. CountsByOwner'
  BY <1>1, <1>2, <1>3 DEF IInv, TypeOK, SingleOwner, CountsByOwner, Owned
<1>11. SessionsSoFar'
  BY <1>2, <1>3 DEF IInv, TypeOK, SessionsSoFar, Owned, Killed, threads
<1> QED
  BY <1>4, <1>5, <1>6, <1>7, <1>8, <1>9, <1>10, <1>11 DEF IInv

\* A clean_warmed_session call of the executor.
LEMMA CleanWarmedKeepsIInv == IInv /\ CleanWarmed => IInv'
<1> SUFFICES ASSUME IInv, CleanWarmed PROVE IInv'
  OBVIOUS
<1>1. /\ pc = "clean" /\ cleans \in {1, 2} /\ warmed = {node} /\ node \in Node /\ outcome = "error"
      /\ node \in acquired /\ released[node] < 2
      /\ node \notin comp \cup batch \cup run
  BY DEF IInv, TypeOK, CleanWarmed, OwnersByPlace, OutcomeByPlace, CountsByOwner, SingleOwner, Owned, Killed
<1>2. /\ released' \in [Node -> 0..2]
      /\ released'[node] = released[node] + 1
      /\ \A t \in Node \ {node} : released'[t] = released[t]
      /\ live' \subseteq live
      /\ missed' \subseteq Node /\ missed \subseteq missed'
      /\ node \in live' => node \in missed'
      /\ UNCHANGED <<acquired, lost>>
  BY <1>1, ReleaseEffect DEF IInv, CleanWarmed
<1>3. /\ cleans' = cleans - 1
      /\ \/ cleans = 1 /\ pc' = "unwind" /\ warmed' = {}
         \/ cleans = 2 /\ pc' = "clean" /\ warmed' = {node}
      /\ UNCHANGED <<headless, node, tmpl, exec, boot, qna, comp, batch, run, outcome, disk>>
  BY <1>1 DEF CleanWarmed, threads
<1>4. TypeOK'
  BY <1>1, <1>2, <1>3 DEF IInv, TypeOK
<1>5. SingleOwner'
  BY <1>1, <1>3 DEF IInv, SingleOwner
<1>6. NoReleaseWhileOwned'
  BY <1>1, <1>2, <1>3 DEF IInv, TypeOK, NoReleaseWhileOwned
<1>7. SecondReleaseOnlyAtFailure'
  BY <1>1, <1>2, <1>3 DEF IInv, SecondReleaseOnlyAtFailure
<1>8. NeedInputLeavesFiles' /\ OutcomeByPlace'
  BY <1>1, <1>3 DEF IInv, NeedInputLeavesFiles, OutcomeByPlace, Killed, BeforeCommit
<1>9. OwnersByPlace'
  BY <1>1, <1>3 DEF IInv, OwnersByPlace, Owned, Killed, BeforeCommit, AfterTake
<1>10. CountsByOwner'
  BY <1>1, <1>2, <1>3 DEF IInv, TypeOK, CountsByOwner, Owned
<1>11. SessionsSoFar'
  BY <1>1, <1>2, <1>3 DEF IInv, TypeOK, SessionsSoFar, Owned, Killed
<1> QED
  BY <1>4, <1>5, <1>6, <1>7, <1>8, <1>9, <1>10, <1>11 DEF IInv

\* An error return of the executor that has a session to clean.
LEMMA FailAndCleanKeepsIInv ==
    ASSUME IInv, NEW k \in {1, 2}, FailAndClean(k), pc \in {"warm", "phase2", "build"},
           acquired' = acquired \cup {node},
           exec' \in {"idle", "running", "err"},
           tmpl' \in {"idle", "running", "ok", "notok", "err"},
           boot' \in {"idle", "running", "ok", "notok", "err"},
           qna' \in {"idle", "running", "complete", "need", "err"},
           UNCHANGED <<headless, node, comp, batch, run, live, released, lost, missed, disk>>
    PROVE  IInv'
<1>1. /\ warmed' = {node} /\ cleans' = k /\ pc' = "clean" /\ outcome' = "error"
  BY DEF FailAndClean
<1>2. /\ node \in Node /\ released[node] = 0 /\ ~Killed /\ run = {}
      /\ node \notin comp \cup batch \cup run
      /\ warmed \subseteq {node}
  BY DEF IInv, TypeOK, SingleOwner, NoReleaseWhileOwned, OwnersByPlace, CountsByOwner,
         SessionsSoFar, OutcomeByPlace, Owned, Killed, BeforeCommit
<1>3. TypeOK'
  BY <1>1, <1>2 DEF IInv, TypeOK
<1>4. SingleOwner'
  BY <1>1, <1>2 DEF IInv, SingleOwner
<1>5. NoReleaseWhileOwned' /\ SecondReleaseOnlyAtFailure'
  BY <1>1, <1>2 DEF IInv, NoReleaseWhileOwned, SecondReleaseOnlyAtFailure, OutcomeByPlace, Killed, BeforeCommit
<1>6. NeedInputLeavesFiles' /\ OutcomeByPlace'
  BY <1>1, <1>2 DEF IInv, NeedInputLeavesFiles, OutcomeByPlace, Killed, BeforeCommit
<1>7. OwnersByPlace'
  BY <1>1, <1>2 DEF IInv, OwnersByPlace, Owned, Killed, BeforeCommit, AfterTake
<1>8. CountsByOwner'
  BY <1>1, <1>2 DEF IInv, TypeOK, CountsByOwner, Owned
<1>9. SessionsSoFar'
  <2>1. Owned' = Owned \cup {node}
    BY <1>1, <1>2 DEF Owned
  <2>2. live \subseteq Owned \cup lost \cup missed \cup {node}
    BY DEF IInv, SessionsSoFar
  <2>3. \A s \in acquired' : s <= node
    BY <1>2 DEF IInv, TypeOK, Node, SessionsSoFar
  <2> QED
    BY <1>1, <2>1, <2>2, <2>3 DEF SessionsSoFar
<1> QED
  BY <1>3, <1>4, <1>5, <1>6, <1>7, <1>8, <1>9 DEF IInv

\* End of phase 1: the session becomes known, and owned or about to be cleaned.
LEMMA JoinWarmKeepsIInv == IInv /\ JoinWarm => IInv'
<1> SUFFICES ASSUME IInv, JoinWarm PROVE IInv'
  OBVIOUS
<1>1. /\ pc = "warm" /\ outcome = "running" /\ ~Killed /\ disk = "untouched" /\ cleans = 0
      /\ warmed = {} /\ run = {} /\ node \in Node /\ node \notin acquired
      /\ node \notin comp \cup batch /\ released[node] = 0
  BY DEF JoinWarm, IInv, TypeOK, OwnersByPlace, CountsByOwner, SessionsSoFar, OutcomeByPlace,
         Owned, Killed, BeforeCommit
<1>2. /\ tmpl' = "idle" /\ exec' = "idle"
      /\ UNCHANGED <<headless, node, comp, batch, run, live, released, lost, missed, disk>>
  BY DEF JoinWarm
<1>3. CASE exec = "err"
  <2>1. /\ pc' = "unwind" /\ outcome' = "error"
        /\ UNCHANGED <<cleans, warmed, acquired, boot, qna>>
    BY <1>3 DEF JoinWarm, Fail
  <2>2. TypeOK' /\ SingleOwner' /\ NoReleaseWhileOwned' /\ SecondReleaseOnlyAtFailure'
    BY <1>1, <1>2, <2>1 DEF IInv, TypeOK, SingleOwner, NoReleaseWhileOwned, SecondReleaseOnlyAtFailure
  <2>3. NeedInputLeavesFiles' /\ OutcomeByPlace' /\ OwnersByPlace' /\ CountsByOwner'
    BY <1>1, <1>2, <2>1 DEF IInv, NeedInputLeavesFiles, OutcomeByPlace, OwnersByPlace, CountsByOwner,
                            Owned, Killed, BeforeCommit, AfterTake
  <2>4. SessionsSoFar'
    BY <1>1, <1>2, <1>3, <2>1 DEF IInv, SessionsSoFar, Owned
  <2> QED
    BY <2>2, <2>3, <2>4 DEF IInv
<1>4. CASE exec = "ok" /\ tmpl # "ok"
  <2>1. FailAndClean(1) /\ acquired' = acquired \cup {node} /\ UNCHANGED <<boot, qna>>
    BY <1>4 DEF JoinWarm
  <2> QED
    BY <1>1, <1>2, <2>1, FailAndCleanKeepsIInv DEF IInv, TypeOK
<1>5. CASE exec = "ok" /\ tmpl = "ok"
  <2>1. /\ pc' = "phase2" /\ warmed' = {node} /\ acquired' = acquired \cup {node}
        /\ boot' = "running" /\ qna' = "running" /\ UNCHANGED <<cleans, outcome>>
    BY <1>5 DEF JoinWarm
  <2>2. TypeOK' /\ SingleOwner' /\ NoReleaseWhileOwned' /\ SecondReleaseOnlyAtFailure'
    BY <1>1, <1>2, <2>1 DEF IInv, TypeOK, SingleOwner, NoReleaseWhileOwned, SecondReleaseOnlyAtFailure
  <2>3. NeedInputLeavesFiles' /\ OutcomeByPlace' /\ OwnersByPlace'
    BY <1>1, <1>2, <2>1 DEF IInv, NeedInputLeavesFiles, OutcomeByPlace, OwnersByPlace,
                            Owned, Killed, BeforeCommit, AfterTake
  <2>4. Owned' = Owned \cup {node}
    BY <1>1, <1>2, <2>1 DEF Owned
  <2>5. CountsByOwner'
    BY <1>1, <1>2, <2>1, <2>4 DEF IInv, CountsByOwner
  <2>6. SessionsSoFar'
    BY <1>1, <1>2, <2>1, <2>4 DEF IInv, TypeOK, Node, SessionsSoFar
  <2> QED
    BY <2>2, <2>3, <2>5, <2>6 DEF IInv
<1> QED
  BY <1>3, <1>4, <1>5 DEF JoinWarm

\* End of phases 2 and 3, with the hand-over of a pending question.
LEMMA JoinPhase2KeepsIInv == IInv /\ JoinPhase2 => IInv'
<1> SUFFICES ASSUME IInv, JoinPhase2 PROVE IInv'
  OBVIOUS
<1>1. /\ pc = "phase2" /\ outcome = "running" /\ ~Killed /\ disk = "untouched" /\ cleans = 0
      /\ warmed = {node} /\ run = {} /\ node \in Node /\ node \in acquired
      /\ exec \notin {"created", "ok"}
  BY DEF JoinPhase2, IInv, TypeOK, OwnersByPlace, CountsByOwner, SessionsSoFar, OutcomeByPlace,
         Owned, Killed, BeforeCommit
<1>2. /\ boot' = "idle" /\ qna' = "idle"
      /\ UNCHANGED <<headless, node, tmpl, exec, live, released, acquired, lost, missed, disk>>
  BY DEF JoinPhase2, server
<1>3. CASE boot # "ok" \/ qna = "err"
  <2>1. FailAndClean(1) /\ UNCHANGED <<comp, batch, run>>
    BY <1>3 DEF JoinPhase2, HandOverNeedInput
  <2>2. acquired' = acquired \cup {node} /\ exec' \in {"idle", "running", "err"}
    BY <1>1, <1>2 DEF IInv, TypeOK
  <2> QED
    BY <1>1, <1>2, <2>1, <2>2, FailAndCleanKeepsIInv DEF IInv, TypeOK
<1>4. CASE boot = "ok" /\ qna = "need"
  <2>1. /\ run' = batch \cup comp \cup {node} /\ batch' = {} /\ comp' = {} /\ warmed' = {}
        /\ pc' = "boundary" /\ outcome' = "need_input" /\ UNCHANGED cleans
    BY <1>1, <1>4 DEF JoinPhase2, HandOverNeedInput
  <2>2. Owned' = Owned
    BY <1>1, <2>1 DEF Owned
  <2>3. TypeOK' /\ SingleOwner'
    BY <1>1, <1>2, <2>1 DEF IInv, TypeOK, SingleOwner
  <2>4. NoReleaseWhileOwned' /\ SecondReleaseOnlyAtFailure'
    BY <1>1, <1>2, <2>1 DEF IInv, NoReleaseWhileOwned, SecondReleaseOnlyAtFailure
  <2>5. NeedInputLeavesFiles' /\ OutcomeByPlace' /\ OwnersByPlace'
    BY <1>1, <1>2, <2>1 DEF IInv, NeedInputLeavesFiles, OutcomeByPlace, OwnersByPlace,
                            Owned, Killed, BeforeCommit, AfterTake
  <2>6. CountsByOwner' /\ SessionsSoFar'
    BY <1>1, <1>2, <2>1, <2>2 DEF IInv, CountsByOwner, SessionsSoFar
  <2> QED
    BY <2>3, <2>4, <2>5, <2>6 DEF IInv
<1>5. CASE boot = "ok" /\ qna = "complete"
  <2>1. pc' = "build" /\ UNCHANGED <<cleans, warmed, comp, batch, run, outcome>>
    BY <1>5 DEF JoinPhase2, owners
  <2>2. TypeOK' /\ SingleOwner' /\ NoReleaseWhileOwned' /\ SecondReleaseOnlyAtFailure'
    BY <1>1, <1>2, <2>1 DEF IInv, TypeOK, SingleOwner, NoReleaseWhileOwned, SecondReleaseOnlyAtFailure
  <2>3. NeedInputLeavesFiles' /\ OutcomeByPlace' /\ OwnersByPlace'
    BY <1>1, <1>2, <2>1 DEF IInv, NeedInputLeavesFiles, OutcomeByPlace, OwnersByPlace,
                            Owned, Killed, BeforeCommit, AfterTake
  <2>4. CountsByOwner' /\ SessionsSoFar'
    BY <1>1, <1>2, <2>1 DEF IInv, CountsByOwner, SessionsSoFar, Owned
  <2> QED
    BY <2>2, <2>3, <2>4 DEF IInv
<1> QED
  BY <1>3, <1>4, <1>5 DEF JoinPhase2, HandOverNeedInput

\* The build request.
LEMMA BuildKeepsIInv == IInv /\ Build => IInv'
<1> SUFFICES ASSUME IInv, Build PROVE IInv'
  OBVIOUS
<1>1. /\ pc = "build" /\ outcome = "running" /\ ~Killed /\ disk = "untouched" /\ cleans = 0
      /\ warmed = {node} /\ run = {} /\ node \in Node /\ node \in acquired
      /\ exec \in {"idle", "running", "err"} /\ released[node] = 0
  BY DEF Build, IInv, TypeOK, OwnersByPlace, CountsByOwner, SessionsSoFar, OutcomeByPlace,
         NoReleaseWhileOwned, Owned, Killed, BeforeCommit
<1>2. UNCHANGED <<headless, node, tmpl, exec, boot, qna, batch, run, live, released, acquired,
                  lost, missed, disk>>
  BY DEF Build, threads, server
<1>3. CASE pc' = "absorb"
  <2>1. comp' = comp \cup {node} /\ warmed' = {} /\ UNCHANGED <<cleans, outcome>>
    BY <1>1, <1>3 DEF Build, FailAndClean
  <2>2. Owned' = Owned
    BY <1>1, <1>2, <2>1 DEF Owned
  <2>3. TypeOK' /\ SingleOwner'
    BY <1>1, <1>2, <1>3, <2>1 DEF IInv, TypeOK, SingleOwner
  <2>4. NoReleaseWhileOwned' /\ SecondReleaseOnlyAtFailure'
    BY <1>1, <1>2, <1>3, <2>1 DEF IInv, NoReleaseWhileOwned, SecondReleaseOnlyAtFailure
  <2>5. NeedInputLeavesFiles' /\ OutcomeByPlace' /\ OwnersByPlace'
    BY <1>1, <1>2, <1>3, <2>1 DEF IInv, NeedInputLeavesFiles, OutcomeByPlace, OwnersByPlace,
                                  Owned, Killed, BeforeCommit, AfterTake
  <2>6. CountsByOwner' /\ SessionsSoFar'
    BY <1>1, <1>2, <1>3, <2>1, <2>2 DEF IInv, CountsByOwner, SessionsSoFar
  <2> QED
    BY <2>3, <2>4, <2>5, <2>6 DEF IInv
<1>4. CASE pc' # "absorb"
  <2>1. PICK k \in {1, 2} : FailAndClean(k) /\ UNCHANGED comp
    BY <1>4 DEF Build
  <2>2. acquired' = acquired \cup {node}
    BY <1>1, <1>2
  <2> QED
    BY <1>1, <1>2, <2>1, <2>2, FailAndCleanKeepsIInv DEF IInv, TypeOK
<1> QED
  BY <1>3, <1>4

\* The hand-over from execute_composition to batch_process.
LEMMA LayerCompositionKeepsIInv == IInv /\ LayerComposition => IInv'
<1> SUFFICES ASSUME IInv, LayerComposition PROVE IInv'
  OBVIOUS
<1>1. /\ pc = "layer" /\ outcome = "running" /\ ~Killed /\ disk = "untouched" /\ cleans = 0
      /\ warmed = {} /\ run = {} /\ node \in Node /\ exec \notin {"created", "ok"}
  BY DEF LayerComposition, IInv, TypeOK, OwnersByPlace, SessionsSoFar, OutcomeByPlace, Killed,
         BeforeCommit
<1>2. UNCHANGED <<headless, tmpl, exec, boot, qna, cleans, warmed, run, live, released, acquired,
                  lost, missed, disk>>
  BY DEF LayerComposition, threads, server
<1>3. CASE pc' = "unwind"
  <2>1. outcome' = "error" /\ UNCHANGED <<node, comp, batch>>
    BY <1>3 DEF LayerComposition, Fail
  <2>2. TypeOK' /\ SingleOwner' /\ NoReleaseWhileOwned' /\ SecondReleaseOnlyAtFailure'
    BY <1>1, <1>2, <1>3, <2>1 DEF IInv, TypeOK, SingleOwner, NoReleaseWhileOwned, SecondReleaseOnlyAtFailure
  <2>3. NeedInputLeavesFiles' /\ OutcomeByPlace' /\ OwnersByPlace'
    BY <1>1, <1>2, <1>3, <2>1 DEF IInv, NeedInputLeavesFiles, OutcomeByPlace, OwnersByPlace,
                                  Owned, Killed, BeforeCommit, AfterTake
  <2>4. CountsByOwner' /\ SessionsSoFar'
    BY <1>1, <1>2, <1>3, <2>1 DEF IInv, CountsByOwner, SessionsSoFar, Owned
  <2> QED
    BY <2>2, <2>3, <2>4 DEF IInv
<1>4. CASE pc' # "unwind"
  <2>1. /\ batch' = batch \cup comp /\ comp' = {} /\ UNCHANGED outcome
        /\ \/ node = NumNodes /\ pc' = "merge" /\ node' = node
           \/ node # NumNodes /\ pc' = "resolve" /\ node' = node + 1
    BY <1>4 DEF LayerComposition, Fail
  <2>2. Owned' = Owned
    BY <1>2, <2>1 DEF Owned
  <2>3. node' \in Node /\ \A s \in acquired : s <= node /\ (node' # node => s # node')
    BY <1>1, <2>1, NumNodesAssumption DEF IInv, TypeOK, SessionsSoFar, Node
  <2>4. TypeOK' /\ SingleOwner'
    BY <1>1, <1>2, <2>1, <2>3 DEF IInv, TypeOK, SingleOwner
  <2>5. NoReleaseWhileOwned' /\ SecondReleaseOnlyAtFailure'
    BY <1>1, <1>2, <2>1 DEF IInv, NoReleaseWhileOwned, SecondReleaseOnlyAtFailure
  <2>6. NeedInputLeavesFiles' /\ OutcomeByPlace' /\ OwnersByPlace'
    BY <1>1, <1>2, <2>1 DEF IInv, NeedInputLeavesFiles, OutcomeByPlace, OwnersByPlace,
                            Owned, Killed, BeforeCommit, AfterTake
  <2>7. CountsByOwner'
    BY <1>1, <1>2, <2>1, <2>2 DEF IInv, CountsByOwner
  <2>8. SessionsSoFar'
    <3>1. \A s \in acquired' : s <= node'
      BY <1>1, <1>2, <2>1, <2>3 DEF IInv, TypeOK, Node
    <3>2. pc' = "resolve" => node' \notin acquired'
      BY <1>1, <1>2, <2>1, <2>3 DEF Node
    <3> QED
      BY <1>1, <1>2, <2>1, <2>2, <3>1, <3>2 DEF IInv, SessionsSoFar
  <2> QED
    BY <2>4, <2>5, <2>6, <2>7, <2>8 DEF IInv
<1> QED
  BY <1>3, <1>4

\* The hand-over from batch_process to its caller.
LEMMA SaveMetadataKeepsIInv == IInv /\ SaveMetadata => IInv'
<1> SUFFICES ASSUME IInv, SaveMetadata PROVE IInv'
  OBVIOUS
<1>1. /\ pc = "metadata" /\ outcome = "running" /\ ~Killed /\ cleans = 0
      /\ warmed = {} /\ comp = {} /\ run = {} /\ exec \notin {"created", "ok"}
  BY DEF SaveMetadata, IInv, TypeOK, OwnersByPlace, SessionsSoFar, OutcomeByPlace, Killed,
         BeforeCommit
<1>2. UNCHANGED <<headless, node, tmpl, exec, boot, qna, cleans, warmed, comp, live, released,
                  acquired, lost, missed, disk>>
  BY DEF SaveMetadata, threads, server
<1>3. \/ pc' = "save" /\ run' = batch /\ batch' = {} /\ outcome' = "running"
      \/ pc' = "unwind" /\ run' = {} /\ batch' = batch /\ outcome' = "error"
  BY <1>1 DEF SaveMetadata, Fail
<1>4. Owned' = Owned
  BY <1>1, <1>2, <1>3 DEF Owned
<1>5. TypeOK'
  BY <1>1, <1>2, <1>3 DEF IInv, TypeOK
<1>6. SingleOwner' /\ NoReleaseWhileOwned' /\ SecondReleaseOnlyAtFailure'
  BY <1>1, <1>2, <1>3 DEF IInv, SingleOwner, NoReleaseWhileOwned, SecondReleaseOnlyAtFailure
<1>7. NeedInputLeavesFiles' /\ OutcomeByPlace' /\ OwnersByPlace'
  BY <1>1, <1>2, <1>3 DEF IInv, NeedInputLeavesFiles, OutcomeByPlace, OwnersByPlace,
                          Owned, Killed, BeforeCommit, AfterTake
<1>8. CountsByOwner' /\ SessionsSoFar'
  BY <1>1, <1>2, <1>3, <1>4 DEF IInv, CountsByOwner, SessionsSoFar
<1> QED
  BY <1>5, <1>6, <1>7, <1>8 DEF IInv

\* Every step keeps the inductive invariant.
LEMMA StepKeepsIInv == IInv /\ [Next]_vars => IInv'
<1> SUFFICES ASSUME IInv, [Next]_vars PROVE IInv'
  OBVIOUS
<1>1. CASE ResolveSpec
  <2>1. TypeOK' /\ SingleOwner'
    BY <1>1 DEF IInv, TypeOK, SingleOwner, OwnersByPlace, OutcomeByPlace, Killed, BeforeCommit,
                  ResolveSpec, Fail, threads, owners, server
  <2>2. NoReleaseWhileOwned' /\ SecondReleaseOnlyAtFailure'
    BY <1>1 DEF IInv, NoReleaseWhileOwned, SecondReleaseOnlyAtFailure, OutcomeByPlace, BeforeCommit,
                  ResolveSpec, Fail, threads, owners, server
  <2>3. NeedInputLeavesFiles' /\ OutcomeByPlace' /\ OwnersByPlace'
    BY <1>1 DEF IInv, TypeOK, NeedInputLeavesFiles, OutcomeByPlace, OwnersByPlace, Owned, Killed,
                  BeforeCommit, AfterTake, ResolveSpec, Fail, threads, owners, server
  <2>4. CountsByOwner' /\ SessionsSoFar'
    BY <1>1 DEF IInv, TypeOK, Node, CountsByOwner, SessionsSoFar, OwnersByPlace, OutcomeByPlace,
                  Owned, Killed, BeforeCommit, AfterTake, ResolveSpec, Fail, threads, owners, server
  <2> QED
    BY <2>1, <2>2, <2>3, <2>4 DEF IInv
<1>2. CASE SkipGroup
  <2>1. TypeOK' /\ SingleOwner'
    BY <1>2, NumNodesAssumption DEF IInv, TypeOK, SingleOwner, Node, OwnersByPlace,
           OutcomeByPlace, Killed, BeforeCommit, SkipGroup, Advance, LastOfSpec, threads, owners, server
  <2>2. NoReleaseWhileOwned' /\ SecondReleaseOnlyAtFailure'
    BY <1>2 DEF IInv, NoReleaseWhileOwned, SecondReleaseOnlyAtFailure, OutcomeByPlace, BeforeCommit,
                  SkipGroup, Advance, LastOfSpec, threads, owners, server
  <2>3. NeedInputLeavesFiles' /\ OutcomeByPlace' /\ OwnersByPlace'
    BY <1>2 DEF IInv, TypeOK, NeedInputLeavesFiles, OutcomeByPlace, OwnersByPlace, Owned, Killed,
                  BeforeCommit, AfterTake, SkipGroup, Advance, LastOfSpec, threads, owners, server
  <2>4. CountsByOwner' /\ SessionsSoFar'
    BY <1>2 DEF IInv, TypeOK, Node, CountsByOwner, SessionsSoFar, OwnersByPlace, OutcomeByPlace,
                  Owned, Killed, BeforeCommit, AfterTake, SkipGroup, Advance, LastOfSpec, threads, owners, server
  <2> QED
    BY <2>1, <2>2, <2>3, <2>4 DEF IInv
<1>3. CASE ServeFromCache
  <2>1. TypeOK' /\ SingleOwner'
    BY <1>3, NumNodesAssumption DEF IInv, TypeOK, SingleOwner, Node, OwnersByPlace,
           OutcomeByPlace, Killed, BeforeCommit, ServeFromCache, Advance, LastOfSpec, Fail, threads, owners, server
  <2>2. NoReleaseWhileOwned' /\ SecondReleaseOnlyAtFailure'
    BY <1>3 DEF IInv, NoReleaseWhileOwned, SecondReleaseOnlyAtFailure, OutcomeByPlace, BeforeCommit,
                  ServeFromCache, Advance, LastOfSpec, Fail, threads, owners, server
  <2>3. NeedInputLeavesFiles' /\ OutcomeByPlace' /\ OwnersByPlace'
    BY <1>3 DEF IInv, TypeOK, NeedInputLeavesFiles, OutcomeByPlace, OwnersByPlace, Owned, Killed,
                  BeforeCommit, AfterTake, ServeFromCache, Advance, LastOfSpec, Fail, threads, owners, server
  <2>4. CountsByOwner' /\ SessionsSoFar'
    BY <1>3 DEF IInv, TypeOK, Node, CountsByOwner, SessionsSoFar, OwnersByPlace, OutcomeByPlace,
                  Owned, Killed, BeforeCommit, AfterTake, ServeFromCache, Advance, LastOfSpec, Fail, threads, owners, server
  <2> QED
    BY <2>1, <2>2, <2>3, <2>4 DEF IInv
<1>4. CASE StartWarm
  <2>1. TypeOK' /\ SingleOwner'
    BY <1>4 DEF IInv, TypeOK, SingleOwner, OwnersByPlace, OutcomeByPlace, Killed, BeforeCommit,
                  StartWarm, threads, owners, server
  <2>2. NoReleaseWhileOwned' /\ SecondReleaseOnlyAtFailure'
    BY <1>4 DEF IInv, NoReleaseWhileOwned, SecondReleaseOnlyAtFailure, OutcomeByPlace, BeforeCommit,
                  StartWarm, threads, owners, server
  <2>3. NeedInputLeavesFiles' /\ OutcomeByPlace' /\ OwnersByPlace'
    BY <1>4 DEF IInv, TypeOK, NeedInputLeavesFiles, OutcomeByPlace, OwnersByPlace, Owned, Killed,
                  BeforeCommit, AfterTake, StartWarm, threads, owners, server
  <2>4. CountsByOwner' /\ SessionsSoFar'
    BY <1>4 DEF IInv, TypeOK, Node, CountsByOwner, SessionsSoFar, OwnersByPlace, OutcomeByPlace,
                  Owned, Killed, BeforeCommit, AfterTake, StartWarm, threads, owners, server
  <2> QED
    BY <2>1, <2>2, <2>3, <2>4 DEF IInv
<1>5. CASE WarmTemplate
  <2>1. TypeOK' /\ SingleOwner'
    BY <1>5 DEF IInv, TypeOK, SingleOwner, OwnersByPlace, OutcomeByPlace, Killed, BeforeCommit,
                  WarmTemplate, threads, owners, server
  <2>2. NoReleaseWhileOwned' /\ SecondReleaseOnlyAtFailure'
    BY <1>5 DEF IInv, NoReleaseWhileOwned, SecondReleaseOnlyAtFailure, OutcomeByPlace, BeforeCommit,
                  WarmTemplate, threads, owners, server
  <2>3. NeedInputLeavesFiles' /\ OutcomeByPlace' /\ OwnersByPlace'
    BY <1>5 DEF IInv, TypeOK, NeedInputLeavesFiles, OutcomeByPlace, OwnersByPlace, Owned, Killed,
                  BeforeCommit, AfterTake, WarmTemplate, threads, owners, server
  <2>4. CountsByOwner' /\ SessionsSoFar'
    BY <1>5 DEF IInv, TypeOK, Node, CountsByOwner, SessionsSoFar, OwnersByPlace, OutcomeByPlace,
                  Owned, Killed, BeforeCommit, AfterTake, WarmTemplate, threads, owners, server
  <2> QED
    BY <2>1, <2>2, <2>3, <2>4 DEF IInv
<1>6. CASE CreateSession
  <2>1. TypeOK' /\ SingleOwner'
    BY <1>6 DEF IInv, TypeOK, SingleOwner, OwnersByPlace, OutcomeByPlace, Killed, BeforeCommit,
                  CreateSession, threads, owners, server
  <2>2. NoReleaseWhileOwned' /\ SecondReleaseOnlyAtFailure'
    BY <1>6 DEF IInv, NoReleaseWhileOwned, SecondReleaseOnlyAtFailure, OutcomeByPlace, BeforeCommit,
                  CreateSession, threads, owners, server
  <2>3. NeedInputLeavesFiles' /\ OutcomeByPlace' /\ OwnersByPlace'
    BY <1>6 DEF IInv, TypeOK, NeedInputLeavesFiles, OutcomeByPlace, OwnersByPlace, Owned, Killed,
                  BeforeCommit, AfterTake, CreateSession, threads, owners, server
  <2>4. CountsByOwner' /\ SessionsSoFar'
    BY <1>6 DEF IInv, TypeOK, Node, CountsByOwner, SessionsSoFar, OwnersByPlace, OutcomeByPlace,
                  Owned, Killed, BeforeCommit, AfterTake, CreateSession, threads, owners, server
  <2> QED
    BY <2>1, <2>2, <2>3, <2>4 DEF IInv
<1>7. CASE WarmExecutor
  <2>1. TypeOK' /\ SingleOwner'
    BY <1>7 DEF IInv, TypeOK, SingleOwner, OwnersByPlace, OutcomeByPlace, Killed, BeforeCommit,
                  WarmExecutor, threads, owners, server
  <2>2. NoReleaseWhileOwned' /\ SecondReleaseOnlyAtFailure'
    BY <1>7 DEF IInv, NoReleaseWhileOwned, SecondReleaseOnlyAtFailure, OutcomeByPlace, BeforeCommit,
                  WarmExecutor, threads, owners, server
  <2>3. NeedInputLeavesFiles' /\ OutcomeByPlace' /\ OwnersByPlace'
    BY <1>7 DEF IInv, TypeOK, NeedInputLeavesFiles, OutcomeByPlace, OwnersByPlace, Owned, Killed,
                  BeforeCommit, AfterTake, WarmExecutor, threads, owners, server
  <2>4. CountsByOwner' /\ SessionsSoFar'
    BY <1>7 DEF IInv, TypeOK, Node, CountsByOwner, SessionsSoFar, OwnersByPlace, OutcomeByPlace,
                  Owned, Killed, BeforeCommit, AfterTake, WarmExecutor, threads, owners, server
  <2> QED
    BY <2>1, <2>2, <2>3, <2>4 DEF IInv
<1>8. CASE Bootstrap
  <2>1. TypeOK' /\ SingleOwner'
    BY <1>8 DEF IInv, TypeOK, SingleOwner, OwnersByPlace, OutcomeByPlace, Killed, BeforeCommit,
                  Bootstrap, threads, owners, server
  <2>2. NoReleaseWhileOwned' /\ SecondReleaseOnlyAtFailure'
    BY <1>8 DEF IInv, NoReleaseWhileOwned, SecondReleaseOnlyAtFailure, OutcomeByPlace, BeforeCommit,
                  Bootstrap, threads, owners, server
  <2>3. NeedInputLeavesFiles' /\ OutcomeByPlace' /\ OwnersByPlace'
    BY <1>8 DEF IInv, TypeOK, NeedInputLeavesFiles, OutcomeByPlace, OwnersByPlace, Owned, Killed,
                  BeforeCommit, AfterTake, Bootstrap, threads, owners, server
  <2>4. CountsByOwner' /\ SessionsSoFar'
    BY <1>8 DEF IInv, TypeOK, Node, CountsByOwner, SessionsSoFar, OwnersByPlace, OutcomeByPlace,
                  Owned, Killed, BeforeCommit, AfterTake, Bootstrap, threads, owners, server
  <2> QED
    BY <2>1, <2>2, <2>3, <2>4 DEF IInv
<1>9. CASE AnswerQuestions
  <2>1. TypeOK' /\ SingleOwner'
    BY <1>9 DEF IInv, TypeOK, SingleOwner, OwnersByPlace, OutcomeByPlace, Killed, BeforeCommit,
                  AnswerQuestions, threads, owners, server
  <2>2. NoReleaseWhileOwned' /\ SecondReleaseOnlyAtFailure'
    BY <1>9 DEF IInv, NoReleaseWhileOwned, SecondReleaseOnlyAtFailure, OutcomeByPlace, BeforeCommit,
                  AnswerQuestions, threads, owners, server
  <2>3. NeedInputLeavesFiles' /\ OutcomeByPlace' /\ OwnersByPlace'
    BY <1>9 DEF IInv, TypeOK, NeedInputLeavesFiles, OutcomeByPlace, OwnersByPlace, Owned, Killed,
                  BeforeCommit, AfterTake, AnswerQuestions, threads, owners, server
  <2>4. CountsByOwner' /\ SessionsSoFar'
    BY <1>9 DEF IInv, TypeOK, Node, CountsByOwner, SessionsSoFar, OwnersByPlace, OutcomeByPlace,
                  Owned, Killed, BeforeCommit, AfterTake, AnswerQuestions, threads, owners, server
  <2> QED
    BY <2>1, <2>2, <2>3, <2>4 DEF IInv
<1>10. CASE QuitPrompt
  <2>1. TypeOK' /\ SingleOwner'
    BY <1>10 DEF IInv, TypeOK, SingleOwner, OwnersByPlace, OutcomeByPlace, Killed, BeforeCommit,
                  QuitPrompt, threads, owners, server
  <2>2. NoReleaseWhileOwned' /\ SecondReleaseOnlyAtFailure'
    BY <1>10 DEF IInv, NoReleaseWhileOwned, SecondReleaseOnlyAtFailure, OutcomeByPlace, BeforeCommit,
                  QuitPrompt, threads, owners, server
  <2>3. NeedInputLeavesFiles' /\ OutcomeByPlace' /\ OwnersByPlace'
    BY <1>10 DEF IInv, TypeOK, NeedInputLeavesFiles, OutcomeByPlace, OwnersByPlace, Owned, Killed,
                  BeforeCommit, AfterTake, QuitPrompt, threads, owners, server
  <2>4. CountsByOwner' /\ SessionsSoFar'
    BY <1>10 DEF IInv, TypeOK, Node, CountsByOwner, SessionsSoFar, OwnersByPlace, OutcomeByPlace,
                  Owned, Killed, BeforeCommit, AfterTake, QuitPrompt, threads, owners, server
  <2> QED
    BY <2>1, <2>2, <2>3, <2>4 DEF IInv
<1>11. CASE AbsorbOutput
  <2>1. TypeOK' /\ SingleOwner'
    BY <1>11, NumNodesAssumption DEF IInv, TypeOK, SingleOwner, Node, OwnersByPlace,
           OutcomeByPlace, Killed, BeforeCommit, AbsorbOutput, Advance, LastOfSpec, Fail, threads, owners, server
  <2>2. NoReleaseWhileOwned' /\ SecondReleaseOnlyAtFailure'
    BY <1>11 DEF IInv, NoReleaseWhileOwned, SecondReleaseOnlyAtFailure, OutcomeByPlace, BeforeCommit,
                  AbsorbOutput, Advance, LastOfSpec, Fail, threads, owners, server
  <2>3. NeedInputLeavesFiles' /\ OutcomeByPlace' /\ OwnersByPlace'
    BY <1>11 DEF IInv, TypeOK, NeedInputLeavesFiles, OutcomeByPlace, OwnersByPlace, Owned, Killed,
                  BeforeCommit, AfterTake, AbsorbOutput, Advance, LastOfSpec, Fail, threads, owners, server
  <2>4. CountsByOwner' /\ SessionsSoFar'
    BY <1>11 DEF IInv, TypeOK, Node, CountsByOwner, SessionsSoFar, OwnersByPlace, OutcomeByPlace,
                  Owned, Killed, BeforeCommit, AfterTake, AbsorbOutput, Advance, LastOfSpec, Fail, threads, owners, server
  <2> QED
    BY <2>1, <2>2, <2>3, <2>4 DEF IInv
<1>12. CASE MergeProject
  <2>1. TypeOK' /\ SingleOwner'
    BY <1>12 DEF IInv, TypeOK, SingleOwner, OwnersByPlace, OutcomeByPlace, Killed, BeforeCommit,
                  MergeProject, Fail, threads, owners, server
  <2>2. NoReleaseWhileOwned' /\ SecondReleaseOnlyAtFailure'
    BY <1>12 DEF IInv, NoReleaseWhileOwned, SecondReleaseOnlyAtFailure, OutcomeByPlace, BeforeCommit,
                  MergeProject, Fail, threads, owners, server
  <2>3. NeedInputLeavesFiles' /\ OutcomeByPlace' /\ OwnersByPlace'
    BY <1>12 DEF IInv, TypeOK, NeedInputLeavesFiles, OutcomeByPlace, OwnersByPlace, Owned, Killed,
                  BeforeCommit, AfterTake, MergeProject, Fail, threads, owners, server
  <2>4. CountsByOwner' /\ SessionsSoFar'
    BY <1>12 DEF IInv, TypeOK, Node, CountsByOwner, SessionsSoFar, OwnersByPlace, OutcomeByPlace,
                  Owned, Killed, BeforeCommit, AfterTake, MergeProject, Fail, threads, owners, server
  <2> QED
    BY <2>1, <2>2, <2>3, <2>4 DEF IInv
<1>13. CASE WriteProject
  <2>1. TypeOK' /\ SingleOwner'
    BY <1>13 DEF IInv, TypeOK, SingleOwner, OwnersByPlace, OutcomeByPlace, Killed, BeforeCommit,
                  WriteProject, Fail, threads, owners, server
  <2>2. NoReleaseWhileOwned' /\ SecondReleaseOnlyAtFailure'
    BY <1>13 DEF IInv, NoReleaseWhileOwned, SecondReleaseOnlyAtFailure, OutcomeByPlace, BeforeCommit,
                  WriteProject, Fail, threads, owners, server
  <2>3. NeedInputLeavesFiles' /\ OutcomeByPlace' /\ OwnersByPlace'
    BY <1>13 DEF IInv, TypeOK, NeedInputLeavesFiles, OutcomeByPlace, OwnersByPlace, Owned, Killed,
                  BeforeCommit, AfterTake, WriteProject, Fail, threads, owners, server
  <2>4. CountsByOwner' /\ SessionsSoFar'
    BY <1>13 DEF IInv, TypeOK, Node, CountsByOwner, SessionsSoFar, OwnersByPlace, OutcomeByPlace,
                  Owned, Killed, BeforeCommit, AfterTake, WriteProject, Fail, threads, owners, server
  <2> QED
    BY <2>1, <2>2, <2>3, <2>4 DEF IInv
<1>14. CASE SaveState
  <2>1. TypeOK' /\ SingleOwner'
    BY <1>14 DEF IInv, TypeOK, SingleOwner, OwnersByPlace, OutcomeByPlace, Killed, BeforeCommit,
                  SaveState, Fail, threads, owners, server
  <2>2. NoReleaseWhileOwned' /\ SecondReleaseOnlyAtFailure'
    BY <1>14 DEF IInv, NoReleaseWhileOwned, SecondReleaseOnlyAtFailure, OutcomeByPlace, BeforeCommit,
                  SaveState, Fail, threads, owners, server
  <2>3. NeedInputLeavesFiles' /\ OutcomeByPlace' /\ OwnersByPlace'
    BY <1>14 DEF IInv, TypeOK, NeedInputLeavesFiles, OutcomeByPlace, OwnersByPlace, Owned, Killed,
                  BeforeCommit, AfterTake, SaveState, Fail, threads, owners, server
  <2>4. CountsByOwner' /\ SessionsSoFar'
    BY <1>14 DEF IInv, TypeOK, Node, CountsByOwner, SessionsSoFar, OwnersByPlace, OutcomeByPlace,
                  Owned, Killed, BeforeCommit, AfterTake, SaveState, Fail, threads, owners, server
  <2> QED
    BY <2>1, <2>2, <2>3, <2>4 DEF IInv
<1>15. CASE RunCommands
  <2>1. TypeOK' /\ SingleOwner'
    BY <1>15 DEF IInv, TypeOK, SingleOwner, OwnersByPlace, OutcomeByPlace, Killed, BeforeCommit,
                  RunCommands, Fail, threads, owners, server
  <2>2. NoReleaseWhileOwned' /\ SecondReleaseOnlyAtFailure'
    BY <1>15 DEF IInv, NoReleaseWhileOwned, SecondReleaseOnlyAtFailure, OutcomeByPlace, BeforeCommit,
                  RunCommands, Fail, threads, owners, server
  <2>3. NeedInputLeavesFiles' /\ OutcomeByPlace' /\ OwnersByPlace'
    BY <1>15 DEF IInv, TypeOK, NeedInputLeavesFiles, OutcomeByPlace, OwnersByPlace, Owned, Killed,
                  BeforeCommit, AfterTake, RunCommands, Fail, threads, owners, server
  <2>4. CountsByOwner' /\ SessionsSoFar'
    BY <1>15 DEF IInv, TypeOK, Node, CountsByOwner, SessionsSoFar, OwnersByPlace, OutcomeByPlace,
                  Owned, Killed, BeforeCommit, AfterTake, RunCommands, Fail, threads, owners, server
  <2> QED
    BY <2>1, <2>2, <2>3, <2>4 DEF IInv
<1>16. CASE Crash
  <2>1. TypeOK' /\ SingleOwner'
    BY <1>16 DEF IInv, TypeOK, SingleOwner, OwnersByPlace, OutcomeByPlace, Killed, BeforeCommit,
                  Crash, threads, owners, server
  <2>2. NoReleaseWhileOwned' /\ SecondReleaseOnlyAtFailure'
    BY <1>16 DEF IInv, NoReleaseWhileOwned, SecondReleaseOnlyAtFailure, OutcomeByPlace, BeforeCommit,
                  Crash, threads, owners, server
  <2>3. NeedInputLeavesFiles' /\ OutcomeByPlace' /\ OwnersByPlace'
    BY <1>16 DEF IInv, TypeOK, NeedInputLeavesFiles, OutcomeByPlace, OwnersByPlace, Owned, Killed,
                  BeforeCommit, AfterTake, Crash, threads, owners, server
  <2>4. CountsByOwner' /\ SessionsSoFar'
    BY <1>16 DEF IInv, TypeOK, Node, CountsByOwner, SessionsSoFar, OwnersByPlace, OutcomeByPlace,
                  Owned, Killed, BeforeCommit, AfterTake, Crash, threads, owners, server
  <2> QED
    BY <2>1, <2>2, <2>3, <2>4 DEF IInv
<1>17. CASE Expire
  <2>1. TypeOK' /\ SingleOwner'
    BY <1>17 DEF IInv, TypeOK, SingleOwner, OwnersByPlace, OutcomeByPlace, Killed, BeforeCommit,
                  Expire, threads, owners, server
  <2>2. NoReleaseWhileOwned' /\ SecondReleaseOnlyAtFailure'
    BY <1>17 DEF IInv, NoReleaseWhileOwned, SecondReleaseOnlyAtFailure, OutcomeByPlace, BeforeCommit,
                  Expire, threads, owners, server
  <2>3. NeedInputLeavesFiles' /\ OutcomeByPlace' /\ OwnersByPlace'
    BY <1>17 DEF IInv, TypeOK, NeedInputLeavesFiles, OutcomeByPlace, OwnersByPlace, Owned, Killed,
                  BeforeCommit, AfterTake, Expire, threads, owners, server
  <2>4. CountsByOwner' /\ SessionsSoFar'
    BY <1>17 DEF IInv, TypeOK, Node, CountsByOwner, SessionsSoFar, OwnersByPlace, OutcomeByPlace,
                  Owned, Killed, BeforeCommit, AfterTake, Expire, threads, owners, server
  <2> QED
    BY <2>1, <2>2, <2>3, <2>4 DEF IInv
<1>18. CASE DropGuard
  <2>1. CASE comp \cup batch \cup run # {} /\ pc' = pc
    <3>1. PICK s \in comp \cup batch \cup run :
             /\ Release(s) /\ comp' = comp \ {s} /\ batch' = batch \ {s} /\ run' = run \ {s}
      BY <1>18, <2>1 DEF DropGuard, Oldest, IInv, SingleOwner
    <3> QED
      BY <1>18, <3>1, <2>1, GuardReleaseKeepsIInv DEF DropGuard
  <2>2. CASE pc' # pc
    <3>1. /\ pc = "unwind" /\ pc' = "ended" /\ comp = {} /\ batch = {} /\ run = {}
          /\ UNCHANGED <<headless, node, threads, cleans, owners, server, outcome, disk>>
      BY <1>18, <2>2 DEF DropGuard, owners
    <3>2. TypeOK' /\ SingleOwner' /\ NoReleaseWhileOwned' /\ SecondReleaseOnlyAtFailure'
      BY <3>1 DEF IInv, TypeOK, SingleOwner, NoReleaseWhileOwned, SecondReleaseOnlyAtFailure,
                  threads, owners, server
    <3>3. NeedInputLeavesFiles' /\ OutcomeByPlace' /\ OwnersByPlace'
      BY <3>1 DEF IInv, NeedInputLeavesFiles, OutcomeByPlace, OwnersByPlace, Owned, Killed,
                  BeforeCommit, AfterTake, owners
    <3>4. CountsByOwner' /\ SessionsSoFar'
      BY <3>1 DEF IInv, CountsByOwner, SessionsSoFar, OutcomeByPlace, Owned, Killed, threads,
                  owners, server
    <3> QED
      BY <3>2, <3>3, <3>4 DEF IInv
  <2> QED
    BY <1>18, <2>1, <2>2 DEF DropGuard, Oldest
<1>19. CASE FinishCommand
  <2>1. CASE pc' = pc
    <3>1. PICK s \in run : Release(s) /\ run' = run \ {s}
      BY <1>19, <2>1 DEF FinishCommand, Oldest
    <3>2. comp' = comp \ {s} /\ batch' = batch \ {s}
      BY <1>19, <3>1 DEF FinishCommand, IInv, SingleOwner
    <3> QED
      BY <1>19, <2>1, <3>1, <3>2, GuardReleaseKeepsIInv DEF FinishCommand
  <2>2. CASE pc' # pc
    <3>1. /\ pc = "boundary" /\ pc' = "ended" /\ run = {}
          /\ UNCHANGED <<headless, node, threads, cleans, owners, server, outcome, disk>>
      BY <1>19, <2>2 DEF FinishCommand, owners
    <3>2. TypeOK' /\ SingleOwner' /\ NoReleaseWhileOwned' /\ SecondReleaseOnlyAtFailure'
      BY <3>1 DEF IInv, TypeOK, SingleOwner, NoReleaseWhileOwned, SecondReleaseOnlyAtFailure,
                  threads, owners, server
    <3>3. NeedInputLeavesFiles' /\ OutcomeByPlace' /\ OwnersByPlace'
      BY <3>1 DEF IInv, NeedInputLeavesFiles, OutcomeByPlace, OwnersByPlace, Owned, Killed,
                  BeforeCommit, AfterTake, owners
    <3>4. CountsByOwner' /\ SessionsSoFar'
      BY <3>1 DEF IInv, CountsByOwner, SessionsSoFar, OutcomeByPlace, Owned, Killed, threads,
                  owners, server
    <3> QED
      BY <3>2, <3>3, <3>4 DEF IInv
  <2> QED
    BY <2>1, <2>2
<1>20. CASE UNCHANGED vars
  BY <1>20 DEF IInv, TypeOK, SingleOwner, NoReleaseWhileOwned, SecondReleaseOnlyAtFailure,
                NeedInputLeavesFiles, OwnersByPlace, CountsByOwner, SessionsSoFar, OutcomeByPlace,
                Owned, Killed, vars, threads, owners, server
<1> QED
  BY <1>1, <1>2, <1>3, <1>4, <1>5, <1>6, <1>7, <1>8, <1>9, <1>10, <1>11, <1>12, <1>13, <1>14, <1>15, <1>16, <1>17, <1>18, <1>19, <1>20,
     JoinWarmKeepsIInv, JoinPhase2KeepsIInv, BuildKeepsIInv, CleanWarmedKeepsIInv,
     LayerCompositionKeepsIInv, SaveMetadataKeepsIInv
  DEF Next, MainThread, Ended

\* The initial state satisfies the inductive invariant.
LEMMA InitIInv == Init => IInv
<1> SUFFICES ASSUME Init PROVE IInv
  OBVIOUS
<1>1. TypeOK
  BY NumNodesAssumption DEF Init, TypeOK, Node
<1>2. SingleOwner /\ NoReleaseWhileOwned /\ SecondReleaseOnlyAtFailure
  BY DEF Init, SingleOwner, NoReleaseWhileOwned, SecondReleaseOnlyAtFailure
<1>3. NeedInputLeavesFiles /\ OutcomeByPlace /\ OwnersByPlace
  BY DEF Init, NeedInputLeavesFiles, OutcomeByPlace, OwnersByPlace, Owned, Killed, BeforeCommit, AfterTake
<1>4. CountsByOwner /\ SessionsSoFar
  BY DEF Init, CountsByOwner, SessionsSoFar, Owned
<1> QED
  BY <1>1, <1>2, <1>3, <1>4 DEF IInv

\* IInv holds in every reachable state of every instance.
THEOREM IInvInvariant == Spec => []IInv
<1>1. Init => IInv
  BY InitIInv
<1>2. IInv /\ [Next]_vars => IInv'
  BY StepKeepsIInv
<1> QED
  BY <1>1, <1>2, PTL DEF Spec

\* Every variable keeps its type: in particular no session is released more
\* than twice, whatever fails.
THEOREM TypeCorrect == Spec => []TypeOK
<1>1. IInv => TypeOK
  BY DEF IInv
<1> QED
  BY <1>1, IInvInvariant, PTL

\* The hand-overs between the four owners move session ids and never copy
\* them, and nothing is released while a frame below still relies on it.
THEOREM OwnershipIsExclusive == Spec => [](SingleOwner /\ NoReleaseWhileOwned)
<1>1. IInv => SingleOwner /\ NoReleaseWhileOwned
  BY DEF IInv
<1> QED
  BY <1>1, IInvInvariant, PTL

\* A run that ends by itself leaks no session it knows of.
THEOREM NoLeakAtExit == Spec => []NoLeak
<1>1. IInv => NoLeak
  <2> SUFFICES ASSUME IInv, pc = "ended", ~Killed
               PROVE  (\A s \in acquired : released[s] > 0) /\ live \subseteq lost \cup missed
    BY DEF NoLeak
  <2>1. Owned = {} /\ exec \notin {"created", "ok"}
    BY DEF IInv, OwnersByPlace, SessionsSoFar
  <2> QED
    BY <2>1 DEF IInv, CountsByOwner, SessionsSoFar
<1> QED
  BY <1>1, IInvInvariant, PTL

\* A run that reports done or need_input releases each of its sessions exactly
\* once, and no other session.
THEOREM ReleasedExactlyOnce == Spec => []ExactlyOnceOnSuccess
<1>1. IInv => ExactlyOnceOnSuccess
  <2> SUFFICES ASSUME IInv, pc = "ended", outcome \in {"done", "need_input"}, NEW s \in Node
               PROVE  released[s] = IF s \in acquired THEN 1 ELSE 0
    BY DEF ExactlyOnceOnSuccess
  <2>1. Owned = {}
    BY DEF IInv, OwnersByPlace, Killed
  <2>2. released[s] \in 0..2 /\ ~(released[s] > 1)
    BY DEF IInv, TypeOK, SecondReleaseOnlyAtFailure
  <2> QED
    BY <2>1, <2>2 DEF IInv, CountsByOwner
<1> QED
  BY <1>1, IInvInvariant, PTL

\* A second request for a session is made by the executor's error path only.
THEOREM SecondReleaseIsTheBuildError == Spec => []SecondReleaseOnlyAtFailure
<1>1. IInv => SecondReleaseOnlyAtFailure
  BY DEF IInv
<1> QED
  BY <1>1, IInvInvariant, PTL

\* A run that reports a pending question has not touched the project.
THEOREM PendingQuestionLeavesFiles == Spec => []NeedInputLeavesFiles
<1>1. IInv => NeedInputLeavesFiles
  BY DEF IInv
<1> QED
  BY <1>1, IInvInvariant, PTL

-----------------------------------------------------------------------------
\* What a step does to the lease is determined by what it does to the set of
\* owned sessions, to the set of known ones and to the status.
LEMMA LeaseUnchanged ==
    ASSUME Owned' = Owned, acquired' = acquired
    PROVE  LeaseOf' = LeaseOf
BY DEF LeaseOf

\* The session of the current node is acquired.
LEMMA LeaseAcquire ==
    ASSUME IInv, node \notin acquired, Owned' = Owned \cup {node},
           acquired' = acquired \cup {node}, StatusOf = "running", StatusOf' = "running"
    PROVE  Lease!Next
<1>1. node \in Node /\ node \notin Owned
  BY DEF IInv, TypeOK, CountsByOwner
<1>2. LeaseOf[node] = "none" /\ LeaseOf' = [LeaseOf EXCEPT ![node] = "held"]
  BY <1>1 DEF LeaseOf
<1>3. Lease!Acquire(node)
  BY <1>2 DEF Lease!Acquire
<1> QED
  BY <1>1, <1>3 DEF Lease!Next

\* One owned session is given back.
LEMMA LeaseGiveBack ==
    ASSUME IInv, NEW s \in Owned, Owned' = Owned \ {s}, acquired' = acquired,
           StatusOf = "running", StatusOf' = "running"
    PROVE  Lease!Next
<1>1. s \in Node /\ s \in acquired
  BY DEF IInv, TypeOK, CountsByOwner, Owned
<1>2. LeaseOf[s] = "held" /\ LeaseOf' = [LeaseOf EXCEPT ![s] = "returned"]
  BY <1>1 DEF LeaseOf
<1>3. Lease!GiveBack(s)
  BY <1>2 DEF Lease!GiveBack
<1> QED
  BY <1>1, <1>3 DEF Lease!Next

\* The run ends by itself, with nothing left to give back.
LEMMA LeaseFinish ==
    ASSUME IInv, Owned = {}, Owned' = Owned, acquired' = acquired,
           StatusOf = "running", StatusOf' = "finished"
    PROVE  Lease!Next
<1>1. LeaseOf' = LeaseOf
  BY LeaseUnchanged
<1>2. \A s \in Node : LeaseOf[s] # "held"
  BY DEF LeaseOf
<1>3. Lease!Finish
  BY <1>1, <1>2 DEF Lease!Finish
<1> QED
  BY <1>3 DEF Lease!Next

\* Every step of the run is a step of the lease or leaves it alone.
LEMMA LeaseStep == IInv /\ [Next]_vars => [Lease!Next]_<<LeaseOf, StatusOf>>
<1> SUFFICES ASSUME IInv, [Next]_vars PROVE [Lease!Next]_<<LeaseOf, StatusOf>>
  OBVIOUS
<1>1. CASE \/ ResolveSpec \/ SkipGroup \/ ServeFromCache \/ StartWarm \/ WarmTemplate
           \/ CreateSession \/ WarmExecutor \/ Bootstrap \/ AnswerQuestions \/ AbsorbOutput
           \/ MergeProject \/ WriteProject \/ SaveState \/ RunCommands
  <2>1. Owned' = Owned /\ acquired' = acquired
    BY <1>1 DEF ResolveSpec, SkipGroup, ServeFromCache, StartWarm, WarmTemplate, CreateSession,
                WarmExecutor, Bootstrap, AnswerQuestions, AbsorbOutput, MergeProject, WriteProject,
                SaveState, RunCommands, Owned, owners, server
  <2>2. pc # "ended" /\ pc' # "ended"
    BY <1>1 DEF ResolveSpec, SkipGroup, ServeFromCache, StartWarm, WarmTemplate, CreateSession,
                WarmExecutor, Bootstrap, AnswerQuestions, AbsorbOutput, MergeProject, WriteProject,
                SaveState, RunCommands, Advance, Fail
  <2> QED
    BY <2>1, <2>2, LeaseUnchanged DEF StatusOf
<1>2. CASE JoinWarm
  <2>1. pc = "warm" /\ pc' # "ended" /\ node \notin acquired /\ warmed = {}
    BY <1>2 DEF JoinWarm, Fail, FailAndClean, IInv, OwnersByPlace, SessionsSoFar, OutcomeByPlace,
                Killed, BeforeCommit
  <2>2. \/ Owned' = Owned /\ acquired' = acquired
        \/ Owned' = Owned \cup {node} /\ acquired' = acquired \cup {node}
    BY <1>2, <2>1 DEF JoinWarm, FailAndClean, Owned
  <2> QED
    BY <2>1, <2>2, LeaseUnchanged, LeaseAcquire DEF StatusOf
<1>3. CASE JoinPhase2 \/ Build
  <2>1. warmed = {node} /\ pc # "ended" /\ pc' # "ended"
    BY <1>3 DEF JoinPhase2, Build, HandOverNeedInput, FailAndClean, IInv, OwnersByPlace,
                OutcomeByPlace, Killed, BeforeCommit
  <2>2. acquired' = acquired
    BY <1>3 DEF JoinPhase2, Build, server
  <2>3. \/ UNCHANGED <<warmed, comp, batch, run>>
        \/ run' = batch \cup comp \cup warmed /\ batch' = {} /\ comp' = {} /\ warmed' = {} /\ run = {}
        \/ comp' = comp \cup warmed /\ warmed' = {} /\ UNCHANGED <<batch, run>>
    BY <1>3, <2>1 DEF JoinPhase2, Build, HandOverNeedInput, FailAndClean, owners,
                      IInv, OwnersByPlace, OutcomeByPlace, Killed, BeforeCommit
  <2>4. Owned' = Owned
    BY <2>3 DEF Owned
  <2> QED
    BY <2>1, <2>2, <2>4, LeaseUnchanged DEF StatusOf
<1>4. CASE LayerComposition \/ SaveMetadata
  <2>1. pc # "ended" /\ pc' # "ended" /\ run = {}
    BY <1>4 DEF LayerComposition, SaveMetadata, Fail, IInv, OwnersByPlace, OutcomeByPlace,
                Killed, BeforeCommit
  <2>2. Owned' = Owned /\ acquired' = acquired
    BY <1>4, <2>1 DEF LayerComposition, SaveMetadata, Owned, server
  <2> QED
    BY <2>1, <2>2, LeaseUnchanged DEF StatusOf
<1>5. CASE CleanWarmed
  <2>1. /\ pc = "clean" /\ pc' # "ended" /\ acquired' = acquired
        /\ warmed = {node} /\ node \notin comp \cup batch \cup run
        /\ UNCHANGED <<comp, batch, run>> /\ (warmed' = {} \/ warmed' = warmed)
    BY <1>5 DEF CleanWarmed, Release, IInv, SingleOwner, OwnersByPlace, OutcomeByPlace, Killed
  <2>2. Owned' = Owned \/ Owned' = Owned \ {node}
    BY <2>1 DEF Owned
  <2>3. node \in Owned
    BY <2>1 DEF Owned
  <2> QED
    BY <2>1, <2>2, <2>3, LeaseUnchanged, LeaseGiveBack DEF StatusOf
<1>6. CASE DropGuard \/ FinishCommand
  <2>1. /\ pc \in {"unwind", "boundary"} /\ outcome' = outcome /\ outcome # "running" /\ ~Killed
        /\ warmed = {} /\ warmed' = {}
    BY <1>6 DEF DropGuard, FinishCommand, IInv, OwnersByPlace, OutcomeByPlace, Killed
  <2>2. CASE pc' = pc
    <3>1. PICK s \in comp \cup batch \cup run :
             /\ acquired' = acquired
             /\ comp' = comp \ {s} /\ batch' = batch \ {s} /\ run' = run \ {s}
      BY <1>6, <2>2 DEF DropGuard, FinishCommand, Oldest, Release, IInv, SingleOwner
    <3>2. s \in Owned /\ Owned' = Owned \ {s}
      BY <2>1, <3>1 DEF Owned
    <3> QED
      BY <2>1, <2>2, <3>1, <3>2, LeaseGiveBack DEF StatusOf
  <2>3. CASE pc' # pc
    <3>1. pc' = "ended" /\ run = {} /\ UNCHANGED <<comp, batch, run, server>>
      BY <1>6, <2>3 DEF DropGuard, FinishCommand
    <3>2. Owned = {}
      BY <1>6, <2>1, <2>3, <3>1
      DEF DropGuard, FinishCommand, Owned, IInv, OwnersByPlace, AfterTake
    <3>3. Owned' = Owned /\ acquired' = acquired
      BY <2>1, <3>1 DEF Owned, server
    <3> QED
      BY <2>1, <3>1, <3>2, <3>3, LeaseFinish DEF StatusOf, Killed
  <2> QED
    BY <2>2, <2>3
<1>7. CASE QuitPrompt \/ Crash
  <2>1. pc # "ended" /\ pc' = "ended" /\ Killed' /\ Owned' = Owned /\ acquired' = acquired
    BY <1>7 DEF QuitPrompt, Crash, Killed, Owned, owners, server
  <2>2. Lease!Killed
    BY <2>1, LeaseUnchanged DEF StatusOf, Lease!Killed
  <2> QED
    BY <2>2 DEF Lease!Next
<1>8. CASE Expire \/ UNCHANGED vars
  BY <1>8, LeaseUnchanged DEF Expire, vars, owners, server, Owned, StatusOf, Killed
<1> QED
  BY <1>1, <1>2, <1>3, <1>4, <1>5, <1>6, <1>7, <1>8 DEF Next, MainThread, Ended

\* The run, with all its error paths, implements the session lease: it finishes
\* only when it holds no session, and a session it gave back it never holds again.
THEOREM ImplementsLease == Spec => LeaseSpec
<1>1. Init => Lease!Init
  BY DEF Init, Lease!Init, LeaseOf, StatusOf, Owned
<1>2. IInv /\ [Next]_vars => [Lease!Next]_<<LeaseOf, StatusOf>>
  BY LeaseStep
<1> QED
  BY <1>1, <1>2, IInvInvariant, PTL DEF Spec, LeaseSpec, Lease!Spec

=============================================================================
