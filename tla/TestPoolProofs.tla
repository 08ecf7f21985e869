---------------------------- MODULE TestPoolProofs --------------------------
(***************************************************************************)
(* Proofs about TestPool, for every number of tests, permits, attempts and *)
(* panics: no permit is made or lost, no container is removed under a test *)
(* and a run that succeeds has run every test, each of which has passed.   *)
(***************************************************************************)
EXTENDS TestPool, Integers, TLAPS, FiniteSetTheorems

-----------------------------------------------------------------------------
(***************************************************************************)
(* The inductive invariant.                                                *)
(***************************************************************************)
UnderWay == {"setup", "warm", "call", "compare", "update", "validate", "returned"}
Holding == UnderWay \cup {"stored", "panicked"}
OfThreads == {"wanting", "asleep", "stored", "panicked"}

Early == {"blob", "image", "start", "health", "spawn"}
Late == {"cleanup", "report", "guard", "end"}

\* Where the tests are, as the main thread knows it: it goes on to the cleanup
\* when all are through, unless one has died.
PlacesByPc ==
    /\ pc \in Early => turn = 1 /\ \A t \in Test : st[t] = "new"
    /\ pc = "threads" => Parallel /\ \A t \in Test : t < turn => st[t] = "finished"
    /\ pc = "sequence" => ~Parallel /\ \A t \in Test : t # turn => st[t] \in {"new", "finished"}
    /\ outcome = "left" => pc = "end"
    /\ pc \in Late /\ outcome # "left" =>
                      \/ \E t \in Test : st[t] = "dead"
                      \/ \A t \in Test : st[t] \in {"new", "finished"}
    /\ ~Parallel => \A t \in Test : st[t] \notin OfThreads

\* The threads that have a permit; the main thread works without.
Holders == {t \in Test : Parallel /\ st[t] \in Holding}

PermitsCounted == permits + Cardinality(Holders) = Permits

\* The container runs from its health check to the end of the tests.
ServesByPc ==
    \/ pc = "health"
    \/ pc \in {"spawn", "threads", "sequence"} /\ run.kind # "composed"
    => Serves

IInv == TypeOK /\ PlacesByPc /\ PermitsCounted /\ ServesByPc

-----------------------------------------------------------------------------
LEMMA TestsFinite ==
    ASSUME NEW S \in SUBSET Test
    PROVE  IsFiniteSet(S) /\ Cardinality(S) \in Nat
<1>1. IsFiniteSet(Test)
  BY FS_Interval, TestsAssumption DEF Test
<1>2. IsFiniteSet(S)
  BY <1>1, FS_Subset
<1> QED
  BY <1>2, FS_CardinalityType

\* The invariant gives what the property asks for.
LEMMA ServedIfCalling == IInv => ContainerServesTests
<1> SUFFICES ASSUME IInv, NEW t \in Test, pc # "end", st[t] = "call", run.kind # "composed"
             PROVE  Serves \/ \E u \in Test : st[u] = "dead"
  BY DEF ContainerServesTests
<1>1. pc \in Early \/ pc \in {"threads", "sequence"} \/ pc \in Late
  BY DEF IInv, TypeOK, Early, Late
<1> QED
  BY <1>1 DEF IInv, PlacesByPc, ServesByPc

LEMMA InitIInv == Init => IInv
<1> SUFFICES ASSUME Init PROVE IInv
  OBVIOUS
<1>1. pc \in {"blob", "image"}
  BY DEF Init
<1>2. TypeOK
  BY <1>1, TestsAssumption, PermitsAssumption, AttemptsAssumption DEF Init, TypeOK, Places
<1>3. PlacesByPc
  BY <1>1 DEF Init, PlacesByPc, Early, Late, OfThreads
<1>4. PermitsCounted
  <2>1. Holders = {}
    BY DEF Init, Holders, Holding, UnderWay
  <2> QED
    BY <2>1, FS_EmptySet, PermitsAssumption DEF Init, PermitsCounted
<1>5. ServesByPc
  BY <1>1 DEF ServesByPc
<1> QED
  BY <1>2, <1>3, <1>4, <1>5 DEF IInv

-----------------------------------------------------------------------------
(***************************************************************************)
(* The main thread before and after the tests.                             *)
(***************************************************************************)
WarmUp == BuildBlob \/ BuildImage \/ StartContainer \/ OutOfAttempts \/ CheckHealth

LEMMA PutType ==
    ASSUME TypeOK, NEW c \in Container, NEW s \in {"created", "running"}
    PROVE  /\ DOMAIN Put(c, s) \subseteq Container /\ c \in DOMAIN Put(c, s) /\ Put(c, s)[c] = s
           /\ \A d \in DOMAIN Put(c, s) : Put(c, s)[d] \in {"created", "running"}
  BY DEF Put, TypeOK

LEMMA WithoutType ==
    ASSUME TypeOK, NEW c
    PROVE  /\ DOMAIN Without(c) \subseteq Container
           /\ \A d \in DOMAIN Without(c) : Without(c)[d] \in {"created", "running"}
  BY DEF Without, TypeOK

LEMMA WarmUpKeeps == IInv /\ WarmUp => IInv'
<1> SUFFICES ASSUME IInv, WarmUp PROVE IInv'
  OBVIOUS
<1> USE DEF IInv
<1>1. /\ pc \in {"blob", "image", "start", "health"} /\ pc' \in Early \cup {"guard"}
      /\ UNCHANGED <<run, st, verdict, stored, permits, sessions, turn>>
      /\ outcome' \in {outcome, "error"}
  BY DEF WarmUp, BuildBlob, BuildImage, StartContainer, OutOfAttempts, CheckHealth, GiveUp, tests, Early
<1>2. /\ DOMAIN containers' \subseteq Container
      /\ \A c \in DOMAIN containers' : containers'[c] \in {"created", "running"}
      /\ attempt' \in 1..(MaxAttempts + 1)
      /\ ServesByPc'
  <2>1. CASE BuildBlob \/ BuildImage \/ OutOfAttempts
    <3>1. UNCHANGED <<run, containers, attempt>> /\ pc' # "health"
      BY <2>1 DEF BuildBlob, BuildImage, OutOfAttempts, GiveUp
    <3>2. pc' \in {"spawn", "threads", "sequence"} => run.kind = "composed"
      BY <2>1 DEF BuildBlob, BuildImage, OutOfAttempts, GiveUp
    <3> QED
      BY <3>1, <3>2 DEF TypeOK, ServesByPc
  <2>2. CASE StartContainer
    <3>1. attempt \in Container /\ attempt + 1 \in 1..(MaxAttempts + 1)
      BY <2>2, AttemptsAssumption DEF StartContainer, TypeOK, Container
    <3>2. CASE /\ containers' \in {containers, Put(attempt, "created")}
               /\ attempt' = attempt + 1 /\ pc' = pc
      BY <2>2, <3>1, <3>2, PutType DEF StartContainer, TypeOK, ServesByPc
    <3>3. CASE /\ containers' = Put(attempt, "running") /\ pc' = "health" /\ attempt' = attempt
      BY <3>1, <3>3, PutType DEF TypeOK, ServesByPc, Serves
    <3> QED
      BY <2>2, <3>2, <3>3 DEF StartContainer
  <2>3. CASE CheckHealth
    <3>1. CASE pc' = "spawn" /\ containers' = containers
      BY <2>3, <3>1, <1>1 DEF CheckHealth, TypeOK, ServesByPc, Serves
    <3>2. CASE pc' = "guard" /\ containers' \in {containers, Without(attempt)}
      BY <2>3, <3>2, WithoutType DEF CheckHealth, TypeOK, ServesByPc
    <3> QED
      BY <2>3, <3>1, <3>2 DEF CheckHealth, GiveUp
  <2> QED
    BY <2>1, <2>2, <2>3 DEF WarmUp
<1>3. images' \subseteq {"blob", "main"}
  BY DEF WarmUp, BuildBlob, BuildImage, StartContainer, OutOfAttempts, CheckHealth, ImageRemoved, TypeOK
<1>4. TypeOK'
  BY <1>1, <1>2, <1>3 DEF TypeOK, Early
<1>5. PlacesByPc'
  BY <1>1 DEF PlacesByPc, Early, Late, Parallel
<1>6. PermitsCounted'
  BY <1>1 DEF PermitsCounted, Holders, Parallel
<1> QED
  BY <1>2, <1>4, <1>5, <1>6

LEMMA CleanupKeeps == IInv /\ (Cleanup \/ Report \/ DropRunGuard) => IInv'
<1> SUFFICES ASSUME IInv, Cleanup \/ Report \/ DropRunGuard PROVE IInv'
  OBVIOUS
<1> USE DEF IInv
<1>1. /\ pc \in {"cleanup", "report", "guard"} /\ pc' \in {"report", "guard", "end"}
      /\ UNCHANGED <<run, attempt, st, verdict, stored, permits, sessions, turn>>
      /\ outcome' \in {outcome, "ok", "error"} /\ outcome' \in {"running", "ok", "error", "left"}
  BY DEF Cleanup, Report, DropRunGuard, tests, docker, TypeOK
<1>2. /\ DOMAIN containers' \subseteq Container
      /\ \A c \in DOMAIN containers' : containers'[c] \in {"created", "running"}
      /\ images' \subseteq {"blob", "main"}
  <2>1. CASE Cleanup
    <3>1. containers' \in {containers, Without(attempt)} /\ images' \subseteq images
      BY <2>1 DEF Cleanup, RemovedInOrder, RemovedEach
    <3> QED
      BY <3>1, WithoutType DEF TypeOK
  <2>2. CASE Report
    BY <2>2 DEF Report, docker, TypeOK
  <2>3. CASE DropRunGuard
    BY <2>3 DEF DropRunGuard, Listed, TypeOK
  <2> QED
    BY <2>1, <2>2, <2>3
<1>3. TypeOK'
  BY <1>1, <1>2 DEF TypeOK
<1>4. PlacesByPc'
  BY <1>1 DEF PlacesByPc, Early, Late, Parallel
<1>5. PermitsCounted'
  BY <1>1 DEF PermitsCounted, Holders, Parallel
<1>6. ServesByPc'
  BY <1>1, <1>2 DEF ServesByPc
<1> QED
  BY <1>3, <1>4, <1>5, <1>6

-----------------------------------------------------------------------------
(***************************************************************************)
(* The tests.                                                              *)
(***************************************************************************)
LEMMA SpawnKeeps == IInv /\ Spawn => IInv'
<1> SUFFICES ASSUME IInv, Spawn PROVE IInv'
  OBVIOUS
<1> USE DEF IInv
<1>1. /\ pc = "spawn" /\ pc' = IF Parallel THEN "threads" ELSE "sequence"
      /\ st' = IF Parallel THEN [t \in Test |-> "wanting"] ELSE st
      /\ UNCHANGED <<run, attempt, containers, images, verdict, stored, permits, sessions,
                     turn, outcome>>
      /\ Parallel' = Parallel
  BY DEF Spawn, docker, Parallel
<1>2. \A t \in Test : st[t] = "new"
  BY <1>1 DEF PlacesByPc, Early
<1>3. st' \in [Test -> Places] /\ \A t \in Test : st'[t] \in {"new", "wanting"}
  BY <1>1, <1>2 DEF TypeOK, Places
<1>4. TypeOK'
  BY <1>1, <1>3 DEF TypeOK
<1>5. PlacesByPc'
  <2>1. \A t \in Test : Parallel => ~(t < turn)
    BY <1>1 DEF PlacesByPc, Early, Test
  <2> QED
    BY <1>1, <1>2, <2>1 DEF PlacesByPc, Early, Late, OfThreads
<1>6. PermitsCounted'
  BY <1>1, <1>2, <1>3 DEF PermitsCounted, Holders, Holding, UnderWay
<1>7. ServesByPc'
  BY <1>1 DEF ServesByPc, Serves
<1> QED
  BY <1>4, <1>5, <1>6, <1>7

TestStep(t) ==
    \/ TrySetup(t) \/ WarmExecutor(t)
    \/ RunTemplate(t) \/ RunComposition(t) \/ CallService(t)
    \/ Compare(t) \/ UpdateSnapshot(t) \/ Validate(t)

\* A step of a test moves it on, and keeps its permit.
LEMMA TestMoves ==
    ASSUME TypeOK, NEW t \in Test, TestStep(t)
    PROVE  /\ pc # "end" /\ st[t] \in UnderWay
           /\ \E s \in UnderWay : st' = [st EXCEPT ![t] = s]
           /\ verdict' \in [Test -> {"none", "passed", "failed", "error"}]
           /\ sessions' \in [Test -> {"none", "open", "asked"}]
           /\ UNCHANGED <<run, pc, attempt, containers, images, stored, permits, turn, outcome>>
<1> USE DEF TestStep
<1>1. pc # "end" /\ st[t] \in UnderWay
  BY DEF TrySetup, WarmExecutor, RunTemplate, RunComposition, CallService, Compare,
         UpdateSnapshot, Validate, At, UnderWay
<1>2. UNCHANGED <<run, pc, attempt, containers, images, stored, permits, turn, outcome>>
  BY DEF TrySetup, WarmExecutor, RunTemplate, RunComposition, CallService, Compare,
         UpdateSnapshot, Validate, docker
<1>3. \A s \in UnderWay : Goto(t, s) =>
         /\ \E q \in UnderWay : st' = [st EXCEPT ![t] = q]
         /\ verdict' \in [Test -> {"none", "passed", "failed", "error"}]
  BY DEF Goto, TypeOK
<1>4. \A v \in {"passed", "failed", "error"} : Return(t, v) =>
         /\ \E q \in UnderWay : st' = [st EXCEPT ![t] = q]
         /\ verdict' \in [Test -> {"none", "passed", "failed", "error"}]
  BY DEF Return, TypeOK, UnderWay
<1>5. /\ {"setup", "warm", "call", "compare", "update", "validate", "returned"} \subseteq UnderWay
      /\ sessions \in [Test -> {"none", "open", "asked"}]
      /\ Opened(t) \in [Test -> {"none", "open", "asked"}]
      /\ GuardDropped(t) => sessions' \in [Test -> {"none", "open", "asked"}]
  BY DEF UnderWay, TypeOK, Opened, GuardDropped
<1>6. CASE TrySetup(t) \/ WarmExecutor(t)
  BY <1>1, <1>2, <1>3, <1>4, <1>5, <1>6 DEF TrySetup, WarmExecutor
<1>7. CASE RunTemplate(t) \/ RunComposition(t) \/ CallService(t)
  <2>1. \/ \E s \in {"compare", "update"} : Answered(t, s)
        \/ \E v \in {"failed", "error"} : Ended(t, v)
    BY <1>7 DEF RunTemplate, RunComposition, CallService
  <2> QED
    BY <1>1, <1>2, <1>3, <1>4, <1>5, <2>1 DEF Answered, Ended
<1>8. CASE Compare(t)
  <2>1. CASE Answered(t, "validate") \/ Answered(t, "update") \/ Ended(t, "error")
    BY <1>1, <1>2, <1>3, <1>4, <1>5, <2>1 DEF Answered, Ended
  <2>2. CASE /\ st' = [st EXCEPT ![t] = "validate"]
             /\ verdict' = [verdict EXCEPT ![t] = "failed"]
             /\ UNCHANGED sessions
    <3>1. verdict' \in [Test -> {"none", "passed", "failed", "error"}]
      BY <2>2 DEF TypeOK
    <3> QED
      BY <1>1, <1>2, <1>5, <2>2, <3>1
  <2> QED
    BY <1>8, <2>1, <2>2 DEF Compare
<1>9. CASE UpdateSnapshot(t)
  BY <1>1, <1>2, <1>3, <1>4, <1>5, <1>9 DEF UpdateSnapshot, Answered, Ended
<1>10. CASE Validate(t)
  <2>1. \E v \in {"passed", "failed", "error"} : Ended(t, v)
    BY <1>10 DEF Validate
  <2> QED
    BY <1>1, <1>2, <1>4, <1>5, <2>1 DEF Ended
<1> QED
  BY <1>6, <1>7, <1>8, <1>9, <1>10

\* Who is under way runs in a thread, or in the main thread on his turn, or
\* while another has died.
LEMMA MoveKeeps ==
    ASSUME IInv, NEW t \in Test, NEW s \in UnderWay, pc # "end", st[t] \in UnderWay,
           st' = [st EXCEPT ![t] = s],
           verdict' \in [Test -> {"none", "passed", "failed", "error"}],
           sessions' \in [Test -> {"none", "open", "asked"}],
           UNCHANGED <<run, pc, attempt, containers, images, stored, permits, turn, outcome>>
    PROVE  IInv'
<1> USE DEF IInv
<1>1. /\ s \in Places /\ s \notin OfThreads /\ s \in Holding
      /\ st[t] \notin {"new", "finished", "dead", "wanting", "asleep"} /\ st[t] \in Holding
  BY DEF UnderWay, Places, OfThreads, Holding
<1>2. /\ st' \in [Test -> Places] /\ st'[t] = s
      /\ \A u \in Test : u # t => st'[u] = st[u]
  BY <1>1 DEF TypeOK
<1>3. TypeOK'
  BY <1>2 DEF TypeOK
<1>4. PlacesByPc'
  BY <1>1, <1>2 DEF PlacesByPc, Parallel
<1>5. Holders' = Holders
  BY <1>1, <1>2 DEF Holders, Parallel
<1>6. PermitsCounted' /\ ServesByPc'
  BY <1>5 DEF PermitsCounted, ServesByPc, Serves
<1> QED
  BY <1>3, <1>4, <1>6

LEMMA AcquireKeeps ==
    ASSUME IInv, NEW t \in Test, Acquire(t)
    PROVE  IInv'
<1> USE DEF IInv
<1>1. /\ pc # "end" /\ st[t] = "wanting"
      /\ UNCHANGED <<run, pc, attempt, containers, images, verdict, stored, sessions,
                     turn, outcome>>
  BY DEF Acquire, docker
<1>2. Parallel /\ Parallel' = Parallel
  BY <1>1 DEF PlacesByPc, OfThreads, Parallel
<1>3. PICK s \in {"asleep", "setup", "call"} :
         /\ st' = [st EXCEPT ![t] = s]
         /\ s = "asleep" => permits' = permits
         /\ s # "asleep" => permits # 0 /\ permits' = permits - 1
  BY DEF Acquire, FirstStep
<1>4. /\ st' \in [Test -> Places] /\ st'[t] = s
      /\ \A u \in Test : u # t => st'[u] = st[u]
  BY <1>3 DEF TypeOK, Places
<1>5. permits \in Nat /\ permits' \in 0..Permits
  BY <1>3, PermitsAssumption DEF TypeOK
<1>6. TypeOK'
  BY <1>1, <1>4, <1>5 DEF TypeOK
<1>7. PlacesByPc'
  BY <1>1, <1>2, <1>4 DEF PlacesByPc
<1>8. PermitsCounted'
  <2>1. Holders \in SUBSET Test /\ t \notin Holders
    BY <1>1 DEF Holders, Holding, UnderWay
  <2>2. IsFiniteSet(Holders) /\ Cardinality(Holders) \in Nat
    BY <2>1, TestsFinite
  <2>3. CASE s = "asleep"
    <3>1. Holders' = Holders
      BY <1>1, <1>2, <1>4, <2>3 DEF Holders, Holding, UnderWay
    <3> QED
      BY <1>3, <2>3, <3>1 DEF PermitsCounted
  <2>4. CASE s # "asleep"
    <3>1. Holders' = Holders \cup {t}
      BY <1>1, <1>2, <1>4, <2>4 DEF Holders, Holding, UnderWay
    <3>2. Cardinality(Holders') = Cardinality(Holders) + 1
      BY <2>1, <2>2, <3>1, FS_AddElement
    <3>3. permits' + Cardinality(Holders') = permits + Cardinality(Holders)
      BY <1>3, <1>5, <2>2, <2>4, <3>2
    <3> QED
      BY <3>3 DEF PermitsCounted
  <2> QED
    BY <2>3, <2>4
<1>9. ServesByPc'
  BY <1>1 DEF ServesByPc, Serves
<1> QED
  BY <1>6, <1>7, <1>8, <1>9

LEMMA TakeTurnKeeps == IInv /\ TakeTurn => IInv'
<1> SUFFICES ASSUME IInv, TakeTurn PROVE IInv'
  OBVIOUS
<1> USE DEF IInv
<1>1. /\ pc = "sequence" /\ ~Parallel /\ turn \in Test
      /\ UNCHANGED <<run, pc, attempt, containers, images, verdict, stored, permits,
                     sessions, turn, outcome>>
  BY DEF TakeTurn, docker, PlacesByPc, TypeOK, Test
<1>2. PICK s \in {"setup", "call"} : st' = [st EXCEPT ![turn] = s]
  BY DEF TakeTurn, FirstStep
<1>3. /\ st' \in [Test -> Places] /\ st'[turn] = s
      /\ \A u \in Test : u # turn => st'[u] = st[u]
  BY <1>1, <1>2 DEF TypeOK, Places
<1>4. TypeOK'
  BY <1>1, <1>3 DEF TypeOK
<1>5. PlacesByPc'
  BY <1>1, <1>3 DEF PlacesByPc, Parallel, OfThreads, Early, Late
<1>6. Holders = {} /\ Holders' = {}
  BY <1>1 DEF Holders, Parallel
<1>7. PermitsCounted' /\ ServesByPc'
  BY <1>1, <1>6 DEF PermitsCounted, ServesByPc, Serves
<1> QED
  BY <1>4, <1>5, <1>7

LEMMA PanicKeeps ==
    ASSUME IInv, NEW t \in Test, Panic(t)
    PROVE  IInv'
<1> USE DEF IInv
<1> DEFINE s == IF Parallel THEN "panicked" ELSE "dead"
<1>1. /\ pc # "end" /\ st[t] \in {"setup", "call", "compare", "update", "validate"}
      /\ st' = [st EXCEPT ![t] = s] /\ sessions' \in [Test -> {"none", "open", "asked"}]
      /\ UNCHANGED <<run, attempt, containers, images, verdict, stored, permits, turn>>
      /\ IF Parallel THEN pc' = pc /\ outcome' = outcome ELSE pc' = "guard" /\ outcome' = "error"
      /\ Parallel' = Parallel
  BY DEF Panic, Goto, GiveUp, GuardDropped, TypeOK, docker, Parallel
<1>2. /\ st' \in [Test -> Places] /\ st'[t] = s
      /\ \A u \in Test : u # t => st'[u] = st[u]
  BY <1>1 DEF TypeOK, Places
<1>3. TypeOK'
  BY <1>1, <1>2 DEF TypeOK
<1>4. PlacesByPc'
  BY <1>1, <1>2 DEF PlacesByPc, OfThreads, Early, Late
<1>5. Holders' = Holders
  BY <1>1, <1>2 DEF Holders, Holding, UnderWay
<1>6. PermitsCounted' /\ ServesByPc'
  BY <1>1, <1>5 DEF PermitsCounted, ServesByPc, Serves
<1> QED
  BY <1>3, <1>4, <1>6

LEMMA StoreKeeps ==
    ASSUME IInv, NEW t \in Test, Store(t)
    PROVE  IInv'
<1> USE DEF IInv
<1>1. /\ pc # "end" /\ Parallel /\ st[t] = "returned"
      /\ st' = [st EXCEPT ![t] = "stored"] /\ stored' = stored \cup {t}
      /\ UNCHANGED <<run, pc, attempt, containers, images, verdict, permits, sessions,
                     turn, outcome>>
      /\ Parallel' = Parallel
  BY DEF Store, Goto, docker, Parallel
<1>2. /\ st' \in [Test -> Places] /\ st'[t] = "stored"
      /\ \A u \in Test : u # t => st'[u] = st[u]
  BY <1>1 DEF TypeOK, Places
<1>3. TypeOK'
  BY <1>1, <1>2 DEF TypeOK
<1>4. PlacesByPc'
  BY <1>1, <1>2 DEF PlacesByPc
<1>5. Holders' = Holders
  BY <1>1, <1>2 DEF Holders, Holding, UnderWay
<1>6. PermitsCounted' /\ ServesByPc'
  BY <1>1, <1>5 DEF PermitsCounted, ServesByPc, Serves
<1> QED
  BY <1>3, <1>4, <1>6

\* The permit of a thread goes back, and a sleeper may wake up.
LEMMA EndThreadKeeps ==
    ASSUME IInv, NEW t \in Test, EndThread(t)
    PROVE  IInv'
<1> USE DEF IInv
<1>1. PICK to \in {"finished", "dead"} : ReturnPermit(t, to)
  BY DEF EndThread
<1>2. /\ pc # "end" /\ st[t] \in {"stored", "panicked"} /\ permits' = permits + 1
      /\ UNCHANGED <<run, pc, attempt, containers, images, verdict, stored, sessions,
                     turn, outcome>>
  BY DEF EndThread, ReturnPermit, docker
<1>3. Parallel /\ Parallel' = Parallel
  BY <1>2 DEF PlacesByPc, OfThreads, Parallel
<1>4. /\ st' \in [Test -> Places] /\ st'[t] = to
      /\ \A u \in Test : u # t => st'[u] = st[u] \/ (st[u] = "asleep" /\ st'[u] = "wanting")
  <2>1. st \in [Test -> Places] /\ to \in Places /\ "wanting" \in Places
    BY DEF TypeOK, Places
  <2>2. CASE st' = [st EXCEPT ![t] = to]
    <3>1. st' \in [Test -> Places]
      BY <2>1, <2>2
    <3>2. st'[t] = to /\ \A u \in Test : u # t => st'[u] = st[u]
      BY <2>1, <2>2
    <3> QED
      BY <3>1, <3>2
  <2>3. CASE \E w \in Asleep : st' = [st EXCEPT ![t] = to, ![w] = "wanting"]
    <3>1. PICK w \in Test : st[w] = "asleep" /\ st' = [st EXCEPT ![t] = to, ![w] = "wanting"]
      BY <2>3 DEF Asleep
    <3>2. w # t
      BY <1>2, <3>1
    <3>3. st' \in [Test -> Places]
      BY <2>1, <3>1
    <3>4. st'[t] = to /\ st'[w] = "wanting" /\ \A u \in Test : u \notin {t, w} => st'[u] = st[u]
      BY <2>1, <3>1, <3>2
    <3> QED
      BY <3>1, <3>3, <3>4
  <2> QED
    BY <1>1, <2>2, <2>3 DEF ReturnPermit
<1>5. Holders' = Holders \ {t} /\ t \in Holders /\ Holders \in SUBSET Test
  BY <1>2, <1>3, <1>4 DEF Holders, Holding, UnderWay
<1>6. /\ permits' + Cardinality(Holders') = permits + Cardinality(Holders)
      /\ permits' \in 0..Permits
  <2>1. IsFiniteSet(Holders) /\ Cardinality(Holders) \in Nat /\ Cardinality(Holders') \in Nat
    BY <1>5, TestsFinite
  <2>2. Cardinality(Holders') = Cardinality(Holders) - 1
    BY <1>5, <2>1, FS_RemoveElement
  <2>3. permits \in Nat /\ permits + Cardinality(Holders) = Permits
    BY PermitsAssumption DEF TypeOK, PermitsCounted
  <2> QED
    BY <1>2, <2>1, <2>2, <2>3, PermitsAssumption
<1>7. TypeOK'
  BY <1>2, <1>4, <1>6 DEF TypeOK
<1>8. PlacesByPc'
  BY <1>2, <1>3, <1>4 DEF PlacesByPc
<1>9. PermitsCounted' /\ ServesByPc'
  BY <1>2, <1>6 DEF PermitsCounted, ServesByPc, Serves
<1> QED
  BY <1>7, <1>8, <1>9

LEMMA LeavePromptKeeps ==
    ASSUME IInv, NEW t \in Test, LeavePrompt(t)
    PROVE  IInv'
<1>1. /\ pc' = "end" /\ outcome' = "left" /\ Parallel' = Parallel
      /\ UNCHANGED <<run, attempt, containers, images, st, verdict, stored, permits, sessions, turn>>
  BY DEF LeavePrompt, docker, tests, Parallel
<1> QED
  BY <1>1 DEF IInv, TypeOK, PlacesByPc, PermitsCounted, ServesByPc, Holders, Early

LEMMA JoinKeeps == IInv /\ Join => IInv'
<1> SUFFICES ASSUME IInv, Join PROVE IInv'
  OBVIOUS
<1> USE DEF IInv
<1>1. /\ pc = "threads" /\ Parallel /\ Parallel' = Parallel
      /\ \A t \in Test : t < turn => st[t] = "finished"
      /\ UNCHANGED <<run, attempt, containers, images, st, verdict, stored, permits, sessions>>
  BY DEF Join, PlacesByPc, docker, tests, Parallel
<1>2. turn \in 1..(NumTests + 1) /\ NumTests \in Nat
  BY TestsAssumption DEF TypeOK
<1>3. \/ turn > NumTests /\ pc' = "cleanup" /\ turn' = turn /\ outcome' = outcome
      \/ turn \in Test /\ st[turn] = "dead" /\ pc' = "cleanup" /\ outcome' = "error" /\ turn' = turn
      \/ turn \in Test /\ st[turn] = "finished" /\ turn' = turn + 1 /\ pc' = pc /\ outcome' = outcome
  <2>1. turn <= NumTests => turn \in Test
    BY <1>2 DEF Test
  <2> QED
    BY <2>1 DEF Join, HasEnded
<1>4. turn' \in 1..(NumTests + 1) /\ outcome' \in {"running", "ok", "error", "left"} /\ pc' \in {"threads", "cleanup"}
  BY <1>1, <1>2, <1>3 DEF Test, TypeOK
<1>5. TypeOK'
  BY <1>1, <1>4 DEF TypeOK
<1>6. PlacesByPc'
  <2>1. ASSUME pc' = "threads", NEW t \in Test, t < turn' PROVE st[t] = "finished"
    <3>1. turn' = turn + 1 /\ st[turn] = "finished"
      BY <1>3, <2>1
    <3>2. t < turn \/ t = turn
      BY <1>2, <2>1, <3>1 DEF Test
    <3> QED
      BY <1>1, <3>1, <3>2
  <2>2. ASSUME pc' = "cleanup"
        PROVE  (\E t \in Test : st[t] = "dead") \/ \A t \in Test : st[t] \in {"new", "finished"}
    <3>1. turn > NumTests => \A t \in Test : t < turn
      BY <1>2 DEF Test
    <3> QED
      BY <1>1, <1>3, <2>2, <3>1
  <2>3. outcome' # "left"
    BY <1>1, <1>3 DEF PlacesByPc
  <2> QED
    BY <1>1, <1>4, <2>1, <2>2, <2>3 DEF PlacesByPc, Early, Late
<1>7. PermitsCounted' /\ ServesByPc'
  BY <1>1, <1>4 DEF PermitsCounted, Holders, ServesByPc, Serves
<1> QED
  BY <1>5, <1>6, <1>7

LEMMA EndTurnKeeps == IInv /\ (EndTurn \/ EndSequence) => IInv'
<1> SUFFICES ASSUME IInv, EndTurn \/ EndSequence PROVE IInv'
  OBVIOUS
<1> USE DEF IInv
<1>1. /\ pc = "sequence" /\ ~Parallel /\ ~Parallel'
      /\ \A t \in Test : t # turn => st[t] \in {"new", "finished"}
      /\ UNCHANGED <<run, attempt, containers, images, verdict, permits, sessions>>
  BY DEF EndTurn, EndSequence, PlacesByPc, docker, tests, Parallel
<1>2. turn \in 1..(NumTests + 1) /\ NumTests \in Nat
  BY TestsAssumption DEF TypeOK
<1>3. CASE EndTurn
  <2>1. turn \in Test /\ turn + 1 \in 1..(NumTests + 1)
    BY <1>2, <1>3 DEF EndTurn, Test
  <2>2. /\ st' = [st EXCEPT ![turn] = "finished"]
        /\ \/ outcome' = "error" /\ pc' \in {"guard", "cleanup"} /\ stored' = stored /\ turn' = turn
           \/ stored' = stored \cup {turn} /\ turn' = turn + 1 /\ pc' = pc /\ outcome' = outcome
    BY <1>3 DEF EndTurn
  <2>3. st' \in [Test -> Places] /\ \A t \in Test : st'[t] \in {"new", "finished"}
    BY <1>1, <2>1, <2>2 DEF TypeOK, Places
  <2>4. TypeOK'
    BY <1>1, <2>1, <2>2, <2>3 DEF TypeOK
  <2>5. PlacesByPc'
    BY <1>1, <2>2, <2>3 DEF PlacesByPc, Early, Late, OfThreads
  <2>6. PermitsCounted' /\ ServesByPc'
    BY <1>1, <2>2 DEF PermitsCounted, Holders, ServesByPc, Serves
  <2> QED
    BY <2>4, <2>5, <2>6
<1>4. CASE EndSequence
  <2>1. pc' = "cleanup" /\ turn > NumTests /\ UNCHANGED <<st, stored, turn, outcome>>
    BY <1>4 DEF EndSequence, tests
  <2>2. \A t \in Test : t # turn
    BY <1>2, <2>1 DEF Test
  <2>3. TypeOK'
    BY <1>1, <2>1 DEF TypeOK
  <2>4. PlacesByPc'
    BY <1>1, <2>1, <2>2 DEF PlacesByPc, Early, Late
  <2>5. PermitsCounted' /\ ServesByPc'
    BY <1>1, <2>1 DEF PermitsCounted, Holders, ServesByPc, Serves
  <2> QED
    BY <2>3, <2>4, <2>5
<1> QED
  BY <1>3, <1>4

-----------------------------------------------------------------------------
LEMMA NextKeepsIInv == IInv /\ [Next]_vars => IInv'
<1> SUFFICES ASSUME IInv, [Next]_vars PROVE IInv'
  OBVIOUS
<1>1. CASE MainStep
  <2>1. CASE WarmUp
    BY <2>1, WarmUpKeeps
  <2>2. CASE Spawn
    BY <2>2, SpawnKeeps
  <2>3. CASE Join
    BY <2>3, JoinKeeps
  <2>4. CASE TakeTurn
    BY <2>4, TakeTurnKeeps
  <2>5. CASE EndTurn \/ EndSequence
    BY <2>5, EndTurnKeeps
  <2>6. CASE Cleanup \/ Report \/ DropRunGuard
    BY <2>6, CleanupKeeps
  <2> QED
    BY <1>1, <2>1, <2>2, <2>3, <2>4, <2>5, <2>6 DEF MainStep, WarmUp
<1>2. ASSUME NEW t \in Test, ThreadStep(t) \/ Panic(t) \/ LeavePrompt(t) PROVE IInv'
  <2>1. CASE TestStep(t)
    <3>1. TypeOK
      BY DEF IInv
    <3>2. /\ pc # "end" /\ st[t] \in UnderWay
          /\ \E s \in UnderWay : st' = [st EXCEPT ![t] = s]
          /\ verdict' \in [Test -> {"none", "passed", "failed", "error"}]
          /\ sessions' \in [Test -> {"none", "open", "asked"}]
          /\ UNCHANGED <<run, pc, attempt, containers, images, stored, permits, turn, outcome>>
      BY <2>1, <3>1, TestMoves
    <3> QED
      BY <3>2, MoveKeeps
  <2>2. CASE Acquire(t)
    BY <2>2, AcquireKeeps
  <2>3. CASE Store(t)
    BY <2>3, StoreKeeps
  <2>4. CASE EndThread(t)
    BY <2>4, EndThreadKeeps
  <2>5. CASE Panic(t)
    BY <2>5, PanicKeeps
  <2>6. CASE LeavePrompt(t)
    BY <2>6, LeavePromptKeeps
  <2> QED
    BY <1>2, <2>1, <2>2, <2>3, <2>4, <2>5, <2>6 DEF ThreadStep, TestStep
<1>3. CASE UNCHANGED vars
  BY <1>3 DEF vars, IInv, TypeOK, PlacesByPc, PermitsCounted, ServesByPc,
              Parallel, Holders, Serves
<1> QED
  BY <1>1, <1>2, <1>3 DEF Next, Terminated

\* The inductive invariant of a run, from the warm-up to the end of its guard.
THEOREM PoolInvariant == Spec => []IInv
  BY InitIInv, NextKeepsIInv, PTL DEF Spec

\* Every variable has its type; of the permits this says that none is given out
\* twice and none comes back twice.
THEOREM PoolTypeCorrect == Spec => []TypeOK
<1>1. IInv => TypeOK
  BY DEF IInv
<1> QED
  BY PoolInvariant, <1>1, PTL

\* No container is removed under a test, unless one has panicked.
THEOREM ContainerServesTestsAlways == Spec => []ContainerServesTests
  BY PoolInvariant, ServedIfCalling, PTL

-----------------------------------------------------------------------------
(***************************************************************************)
(* The results: a test that has ended has been stored unless the run has   *)
(* an error, and the run goes on to the cleanup without one only when all  *)
(* have ended.                                                             *)
(***************************************************************************)
Results ==
    /\ \A t \in Test : st[t] \in {"stored", "finished"} => t \in stored \/ outcome \in {"error", "left"}
    /\ pc \in {"threads", "sequence"} => \A t \in Test : t < turn => st[t] = "finished"
    /\ pc \in {"cleanup", "report"} /\ outcome = "running" => \A t \in Test : st[t] = "finished"
    /\ outcome = "ok" => /\ pc \in {"guard", "end"}
                         /\ \A t \in Test : st[t] = "finished" /\ t \in stored /\ verdict[t] = "passed"
    /\ pc = "report" => outcome = "running"
    /\ pc \in Early => outcome = "running"

\* What a test does, as far as the results go.
LEMMA ResultsOfTest ==
    ASSUME TypeOK, NEW t \in Test, ThreadStep(t) \/ Panic(t)
    PROVE  /\ st[t] \notin {"finished", "dead"} /\ stored \subseteq stored'
           /\ st'[t] \in {"stored", "finished"} => t \in stored' \/ st[t] \in {"stored", "finished"}
           /\ \A u \in Test : u # t => st'[u] = st[u] \/ (st[u] = "asleep" /\ st'[u] = "wanting")
           /\ turn' = turn
           /\ (pc' = pc /\ outcome' = outcome) \/ (pc' = "guard" /\ outcome' = "error")
<1> USE DEF TypeOK
<1>1. CASE TestStep(t)
  <2>1. st[t] \in UnderWay /\ UNCHANGED <<pc, stored, turn, outcome>>
    BY <1>1, TestMoves
  <2>2. PICK s \in UnderWay : st' = [st EXCEPT ![t] = s]
    BY <1>1, TestMoves
  <2>3. st'[t] = s /\ \A u \in Test : u # t => st'[u] = st[u]
    BY <2>2
  <2> QED
    BY <2>1, <2>3 DEF UnderWay
<1>2. CASE Acquire(t)
  <2>1. st[t] = "wanting" /\ UNCHANGED <<pc, stored, turn, outcome>>
    BY <1>2 DEF Acquire
  <2>2. PICK s \in {"asleep", "setup", "call"} : st' = [st EXCEPT ![t] = s]
    BY <1>2 DEF Acquire, FirstStep
  <2>3. st'[t] = s /\ \A u \in Test : u # t => st'[u] = st[u]
    BY <2>2
  <2> QED
    BY <2>1, <2>3
<1>3. CASE Panic(t) \/ Store(t)
  <2>1. PICK s \in {"panicked", "dead", "stored"} : st' = [st EXCEPT ![t] = s]
    BY <1>3 DEF Panic, Store, Goto
  <2>2. st'[t] = s /\ \A u \in Test : u # t => st'[u] = st[u]
    BY <2>1
  <2>3. /\ st[t] \notin {"finished", "dead"} /\ turn' = turn /\ stored \subseteq stored'
        /\ (pc' = pc /\ outcome' = outcome) \/ (pc' = "guard" /\ outcome' = "error")
    BY <1>3 DEF Panic, Store, GiveUp
  <2>4. st'[t] \in {"stored", "finished"} => t \in stored'
    BY <1>3, <2>2 DEF Panic, Store, Goto
  <2> QED
    BY <2>2, <2>3, <2>4
<1>4. CASE EndThread(t)
  <2>1. st[t] \in {"stored", "panicked"} /\ UNCHANGED <<pc, stored, turn, outcome>>
    BY <1>4 DEF EndThread
  <2>2. PICK to \in {"finished", "dead"} : ReturnPermit(t, to) /\ (to = "finished" => st[t] = "stored")
    BY <1>4 DEF EndThread
  <2>3. CASE st' = [st EXCEPT ![t] = to]
    <3>1. st'[t] = to /\ \A u \in Test : u # t => st'[u] = st[u]
      BY <2>3
    <3> QED
      BY <2>1, <2>2, <3>1
  <2>4. CASE \E w \in Asleep : st' = [st EXCEPT ![t] = to, ![w] = "wanting"]
    <3>1. PICK w \in Test : st[w] = "asleep" /\ st' = [st EXCEPT ![t] = to, ![w] = "wanting"]
      BY <2>4 DEF Asleep
    <3>2. w # t
      BY <2>1, <3>1
    <3>3. st'[t] = to /\ st'[w] = "wanting" /\ \A u \in Test : u \notin {t, w} => st'[u] = st[u]
      BY <3>1, <3>2
    <3> QED
      BY <2>1, <2>2, <3>1, <3>3
  <2> QED
    BY <2>2, <2>3, <2>4 DEF ReturnPermit
<1> QED
  BY <1>1, <1>2, <1>3, <1>4 DEF ThreadStep, TestStep

LEMMA ResultsStep == IInv /\ Results /\ [Next]_vars => Results'
<1> SUFFICES ASSUME IInv, Results, [Next]_vars PROVE Results'
  OBVIOUS
<1>0. TypeOK /\ turn \in 1..(NumTests + 1) /\ NumTests \in Nat
  BY TestsAssumption DEF IInv, TypeOK
<1>1. CASE WarmUp
  <2>1. pc \in {"blob", "image", "start", "health"} /\ UNCHANGED <<st, verdict, stored, turn>>
    BY <1>1 DEF WarmUp, BuildBlob, BuildImage, StartContainer, OutOfAttempts, CheckHealth, tests
  <2>2. \/ pc' \in Early /\ outcome' = outcome
        \/ pc' = "guard" /\ outcome' = "error"
    BY <1>1 DEF WarmUp, BuildBlob, BuildImage, StartContainer, OutOfAttempts, CheckHealth, GiveUp, Early
  <2> QED
    BY <2>1, <2>2 DEF Results, Early
<1>2. CASE Spawn
  <2>1. /\ pc = "spawn" /\ pc' \in {"threads", "sequence"} /\ UNCHANGED <<verdict, stored, turn, outcome>>
        /\ \A t \in Test : st'[t] \in {"new", "wanting"}
        /\ \A t \in Test : ~(t < turn)
    BY <1>2 DEF Spawn, IInv, PlacesByPc, Early, Test
  <2> QED
    BY <2>1 DEF Results, Early
<1>3. CASE Join
  <2>1. pc = "threads" /\ UNCHANGED <<st, verdict, stored>> /\ (turn <= NumTests => turn \in Test)
    BY <1>0, <1>3 DEF Join, tests, Test
  <2>2. CASE turn > NumTests /\ pc' = "cleanup" /\ UNCHANGED <<turn, outcome>>
    <3>1. \A t \in Test : t < turn
      BY <1>0, <2>2 DEF Test
    <3> QED
      BY <2>1, <2>2, <3>1 DEF Results, Early
  <2>3. CASE pc' = "cleanup" /\ outcome' = "error" /\ turn' = turn
    BY <2>1, <2>3 DEF Results, Early
  <2>4. CASE turn <= NumTests /\ st[turn] = "finished" /\ turn' = turn + 1 /\ UNCHANGED <<pc, outcome>>
    <3>1. \A t \in Test : t < turn' => t < turn \/ t = turn
      BY <1>0, <2>4 DEF Test
    <3> QED
      BY <2>1, <2>4, <3>1 DEF Results, Early
  <2> QED
    BY <1>3, <2>2, <2>3, <2>4 DEF Join, HasEnded
<1>4. CASE TakeTurn
  <2>1. /\ pc = "sequence" /\ turn \in Test /\ st[turn] = "new" /\ UNCHANGED <<pc, verdict, stored, turn, outcome>>
        /\ st'[turn] \in {"setup", "call"} /\ \A t \in Test : t # turn => st'[t] = st[t]
    BY <1>0, <1>4 DEF TakeTurn, FirstStep, Test, TypeOK
  <2>2. \A t \in Test : t < turn => t # turn
    BY <1>0 DEF Test
  <2> QED
    BY <2>1, <2>2 DEF Results, Early
<1>5. CASE EndTurn
  <2>1. /\ pc = "sequence" /\ turn \in Test /\ st'[turn] = "finished" /\ verdict' = verdict
        /\ \A t \in Test : t # turn => st'[t] = st[t]
    BY <1>0, <1>5 DEF EndTurn, Test, TypeOK
  <2>2. CASE outcome' = "error" /\ pc' \in {"guard", "cleanup"} /\ stored' = stored
    BY <2>1, <2>2 DEF Results, Early
  <2>3. CASE stored' = stored \cup {turn} /\ turn' = turn + 1 /\ UNCHANGED <<pc, outcome>>
    <3>1. \A t \in Test : t < turn' => t < turn \/ t = turn
      BY <1>0, <2>3 DEF Test
    <3> QED
      BY <2>1, <2>3, <3>1 DEF Results, Early
  <2> QED
    BY <1>5, <2>2, <2>3 DEF EndTurn
<1>6. CASE EndSequence
  <2>1. pc = "sequence" /\ pc' = "cleanup" /\ UNCHANGED <<st, verdict, stored, turn, outcome>>
    BY <1>6 DEF EndSequence, tests
  <2>2. \A t \in Test : t < turn
    BY <1>0, <1>6 DEF EndSequence, Test
  <2> QED
    BY <2>1, <2>2 DEF Results, Early
<1>7. CASE Cleanup \/ DropRunGuard
  <2>1. /\ UNCHANGED <<st, verdict, stored, turn, outcome>>
        /\ \/ pc = "guard" /\ pc' = "end"
           \/ pc = "cleanup" /\ pc' = IF outcome = "error" THEN "guard" ELSE "report"
    BY <1>7 DEF Cleanup, DropRunGuard, tests
  <2>2. pc = "cleanup" => outcome \in {"running", "error"}
    BY <1>0 DEF Results, IInv, PlacesByPc, TypeOK
  <2> QED
    BY <2>1, <2>2 DEF Results, Early
<1>8. CASE Report
  <2>1. /\ UNCHANGED <<st, verdict, stored, turn>> /\ pc = "report" /\ pc' = "guard"
        /\ outcome' \in {"ok", "error"} /\ (outcome' = "ok" => Failures = {})
    BY <1>8 DEF Report, tests
  <2>2. outcome = "running" /\ \A t \in Test : st[t] = "finished" /\ t \in stored
    BY <2>1 DEF Results
  <2> QED
    BY <2>1, <2>2 DEF Results, Failures, Early
<1>9. ASSUME NEW t \in Test, ThreadStep(t) \/ Panic(t) PROVE Results'
  <2>1. /\ st[t] \notin {"finished", "dead"} /\ stored \subseteq stored'
        /\ st'[t] \in {"stored", "finished"} => t \in stored' \/ st[t] \in {"stored", "finished"}
        /\ \A u \in Test : u # t => st'[u] = st[u] \/ (st[u] = "asleep" /\ st'[u] = "wanting")
        /\ turn' = turn
        /\ (pc' = pc /\ outcome' = outcome) \/ (pc' = "guard" /\ outcome' = "error")
    BY <1>0, <1>9, ResultsOfTest
  <2>2. outcome # "ok"
    BY <2>1 DEF Results
  <2> QED
    BY <2>1, <2>2 DEF Results, Early
<1>10. ASSUME NEW t \in Test, LeavePrompt(t) PROVE Results'
  BY <1>10 DEF LeavePrompt, tests, Results, Early
<1>11. CASE UNCHANGED vars
  BY <1>11 DEF vars, tests, Results
<1> QED
  BY <1>1, <1>2, <1>3, <1>4, <1>5, <1>6, <1>7, <1>8, <1>9, <1>10, <1>11
     DEF Next, MainStep, WarmUp, Terminated

\* A run that succeeds has run and stored every test, and every one has passed.
THEOREM OkMeansAllPassedAlways == Spec => []OkMeansAllPassed
<1>1. Init => Results
  BY DEF Init, Results, Early
<1>2. Results => OkMeansAllPassed
  BY DEF Results, OkMeansAllPassed
<1> QED
  BY PoolInvariant, ResultsStep, <1>1, <1>2, PTL DEF Spec

-----------------------------------------------------------------------------
(***************************************************************************)
(* Two promises that hold for a part of the runs: without threads only the *)
(* test whose turn it is is under way; and whoever ends without an error   *)
(* has closed its session.                                                 *)
(***************************************************************************)
OneAtATime ==
    ~Parallel => \A t \in Test : t # turn => st[t] \in {"new", "finished", "dead"}

Using == {"warm", "call", "compare", "update", "validate"}

\* Without threads a test that does something has its turn.
LEMMA StepOnTurn ==
    ASSUME IInv, OneAtATime, NEW t \in Test, ThreadStep(t) \/ Panic(t), ~Parallel
    PROVE  t = turn /\ turn' = turn /\ \A u \in Test : u # t => st'[u] = st[u]
<1>1. TypeOK /\ st[t] \notin OfThreads
  BY DEF IInv, PlacesByPc
<1>2. CASE TestStep(t)
  <2>1. st[t] \in UnderWay /\ turn' = turn /\ \E s \in UnderWay : st' = [st EXCEPT ![t] = s]
    BY <1>1, <1>2, TestMoves
  <2> QED
    BY <1>1, <2>1 DEF OneAtATime, UnderWay, TypeOK
<1>3. CASE Panic(t)
  BY <1>1, <1>3 DEF Panic, Goto, OneAtATime, TypeOK
<1>4. ~(Acquire(t) \/ Store(t) \/ EndThread(t))
  BY <1>1 DEF Acquire, Store, EndThread, OfThreads
<1> QED
  BY <1>2, <1>3, <1>4 DEF ThreadStep, TestStep

LEMMA OneAtATimeStep == IInv /\ OneAtATime /\ [Next]_vars => OneAtATime'
<1> SUFFICES ASSUME IInv, OneAtATime, [Next]_vars, ~Parallel' PROVE OneAtATime'
  BY DEF OneAtATime
<1>1. CASE MainStep
  <2>1. UNCHANGED run /\ ~Parallel
    BY <1>1 DEF Parallel, MainStep, BuildBlob, BuildImage, StartContainer, OutOfAttempts, CheckHealth, Spawn,
       Join, TakeTurn, EndTurn, EndSequence, Cleanup, Report, DropRunGuard
  <2>2. CASE TakeTurn \/ EndTurn
    <3>1. turn \in Test /\ st \in [Test -> Places]
      BY <2>2, TestsAssumption DEF TakeTurn, EndTurn, IInv, TypeOK, Test
    <3>2. /\ \A u \in Test : u # turn => st'[u] = st[u]
          /\ turn' = turn \/ (turn' = turn + 1 /\ st'[turn] = "finished")
      BY <2>2, <3>1 DEF TakeTurn, EndTurn
    <3> QED
      BY <2>1, <3>1, <3>2 DEF OneAtATime
  <2>3. CASE ~(TakeTurn \/ EndTurn)
    <3>1. ~Join
      BY <2>1 DEF Join, IInv, PlacesByPc
    <3>2. UNCHANGED <<st, turn>>
      BY <1>1, <2>1, <2>3, <3>1 DEF MainStep, BuildBlob, BuildImage, StartContainer, OutOfAttempts,
         CheckHealth, Spawn, EndSequence, Cleanup, Report, DropRunGuard, tests
    <3> QED
      BY <2>1, <3>2 DEF OneAtATime
  <2> QED
    BY <2>2, <2>3
<1>2. ASSUME NEW t \in Test, ThreadStep(t) \/ Panic(t) PROVE OneAtATime'
  <2>1. UNCHANGED run
    BY <1>2 DEF ThreadStep, Acquire, TrySetup, WarmExecutor, RunTemplate, RunComposition, CallService,
       Compare, UpdateSnapshot, Validate, Store, EndThread, Panic
  <2>2. ~Parallel
    BY <2>1 DEF Parallel
  <2> QED
    BY <1>2, <2>2, StepOnTurn DEF OneAtATime
<1>3. CASE UNCHANGED vars
  BY <1>3 DEF vars, tests, OneAtATime, Parallel
<1>4. ASSUME NEW t \in Test, LeavePrompt(t) PROVE OneAtATime'
  BY <1>4 DEF LeavePrompt, tests, OneAtATime, Parallel
<1> QED
  BY <1>1, <1>2, <1>3, <1>4 DEF Next, Terminated

\* The tests of a resolver that update snapshots do not disturb one another, nor
\* do any that are run one after the other.
THEOREM SequencesHaveOneWriterAlways == Spec => []SequencesHaveOneWriter
<1>1. Init => OneAtATime
  BY DEF Init, OneAtATime
<1>2. OneAtATime => SequencesHaveOneWriter
  BY DEF OneAtATime, SequencesHaveOneWriter, EverySnapshotHasOneWriter
<1> QED
  BY PoolInvariant, OneAtATimeStep, <1>1, <1>2, PTL DEF Spec

\* What a step of test t does to the sessions.
LEMMA SessionsStep ==
    ASSUME TypeOK, NEW t \in Test, ThreadStep(t) \/ Panic(t)
    PROVE  /\ sessions'[t] = "open" /\ OnlyErrorsLeaveSessions => st'[t] \in Using \/ verdict'[t] = "error"
           /\ \A u \in Test : u # t =>
                 /\ sessions'[u] = sessions[u] /\ verdict'[u] = verdict[u]
                 /\ st'[u] = st[u] \/ st[u] = "asleep"
<1> USE DEF TypeOK
<1>0. /\ GuardDropped(t) => sessions'[t] # "open" /\ \A u \in Test : u # t => sessions'[u] = sessions[u]
      /\ \A u \in Test : u # t => Opened(t)[u] = sessions[u]
  BY DEF GuardDropped, Opened
<1>1. CASE TrySetup(t) \/ WarmExecutor(t)
  <2>1. sessions' \in {sessions, Opened(t)}
    BY <1>1 DEF TrySetup, WarmExecutor
  <2>2. /\ st'[t] \in Using \/ verdict'[t] = "error"
        /\ \A u \in Test : u # t => st'[u] = st[u] /\ verdict'[u] = verdict[u]
    BY <1>1 DEF TrySetup, WarmExecutor, Goto, Return, Using
  <2> QED
    BY <1>0, <2>1, <2>2
<1>2. CASE RunTemplate(t) \/ RunComposition(t) \/ CallService(t)
  <2>1. \/ \E s \in {"compare", "update"} : Answered(t, s)
        \/ \E v : Ended(t, v)
    BY <1>2 DEF RunTemplate, RunComposition, CallService
  <2> QED
    BY <1>0, <2>1 DEF Answered, Ended, Goto, Return, Using
<1>3. CASE Compare(t) \/ UpdateSnapshot(t) \/ Validate(t)
  <2>1. \/ \E s \in {"validate", "update"} : Answered(t, s)
        \/ \E v : Ended(t, v)
        \/ /\ st' = [st EXCEPT ![t] = "validate"] /\ UNCHANGED sessions
           /\ verdict' = [verdict EXCEPT ![t] = "failed"]
    BY <1>3 DEF Compare, UpdateSnapshot, Validate
  <2> QED
    BY <1>0, <2>1 DEF Answered, Ended, Goto, Return, Using
<1>4. CASE Panic(t)
  BY <1>0, <1>4 DEF Panic, Goto
<1>5. CASE Acquire(t) \/ Store(t)
  BY <1>5 DEF Acquire, Store, Goto, OnlyErrorsLeaveSessions, Using
<1>6. CASE EndThread(t)
  <2>1. UNCHANGED <<sessions, verdict>> /\ st[t] \in {"stored", "panicked"}
    BY <1>6 DEF EndThread
  <2>2. \/ \E to : st' = [st EXCEPT ![t] = to]
        \/ \E to : \E w \in Asleep : st' = [st EXCEPT ![t] = to, ![w] = "wanting"]
    BY <1>6 DEF EndThread, ReturnPermit
  <2> QED
    BY <2>1, <2>2 DEF Asleep, OnlyErrorsLeaveSessions, Using
<1> QED
  BY <1>1, <1>2, <1>3, <1>4, <1>5, <1>6 DEF ThreadStep

\* A test that is over, and whose session nobody has asked the coordinator to remove,
\* has ended in an error, in a run of any kind; the comment says that none does.
THEOREM OnlyErrorsLeaveSessionsEver == Spec => []OnlyErrorsLeaveSessions
<1>1. Init => OnlyErrorsLeaveSessions
  BY DEF Init, OnlyErrorsLeaveSessions
<1>2. IInv /\ OnlyErrorsLeaveSessions /\ [Next]_vars => OnlyErrorsLeaveSessions'
  <2> SUFFICES ASSUME IInv, OnlyErrorsLeaveSessions, [Next]_vars, NEW u \in Test, sessions'[u] = "open"
               PROVE  st'[u] \in Using \/ verdict'[u] = "error"
    BY DEF OnlyErrorsLeaveSessions, Using
  <2>0. TypeOK
    BY DEF IInv
  <2>1. CASE MainStep
    <3>1. UNCHANGED <<sessions, verdict>>
      BY <2>1 DEF MainStep, BuildBlob, BuildImage, StartContainer, OutOfAttempts, CheckHealth, Spawn,
         Join, TakeTurn, EndTurn, EndSequence, Cleanup, Report, DropRunGuard, tests
    <3>2. st'[u] = st[u] \/ st[u] \notin Using
      <4>1. CASE Spawn
        <5>1. u \in Test /\ st[u] = "new"
          BY <2>0, <3>1, <4>1 DEF Spawn, IInv, PlacesByPc, Early, TypeOK
        <5> QED
          BY <5>1 DEF Using
      <4>2. CASE TakeTurn \/ EndTurn
        BY <2>0, <4>2 DEF TakeTurn, EndTurn, TypeOK, Using
      <4> QED
        BY <2>1, <4>1, <4>2 DEF MainStep, BuildBlob, BuildImage, StartContainer, OutOfAttempts,
           CheckHealth, Join, EndSequence, Cleanup, Report, DropRunGuard, tests
    <3> QED
      BY <3>1, <3>2 DEF OnlyErrorsLeaveSessions, Using
  <2>2. ASSUME NEW t \in Test, ThreadStep(t) \/ Panic(t) PROVE st'[u] \in Using \/ verdict'[u] = "error"
    <3>1. CASE u = t
      BY <2>0, <2>2, <3>1, SessionsStep
    <3>2. CASE u # t
      BY <2>0, <2>2, <3>2, SessionsStep DEF OnlyErrorsLeaveSessions, Using
    <3> QED
      BY <3>1, <3>2
  <2>3. ASSUME NEW t \in Test, LeavePrompt(t) PROVE st'[u] \in Using \/ verdict'[u] = "error"
    BY <2>3 DEF LeavePrompt, tests, OnlyErrorsLeaveSessions, Using
  <2>4. CASE UNCHANGED vars
    BY <2>4 DEF vars, tests, OnlyErrorsLeaveSessions, Using
  <2> QED
    BY <2>1, <2>2, <2>3, <2>4 DEF Next, Terminated
<1> QED
  BY PoolInvariant, <1>1, <1>2, PTL DEF Spec
=============================================================================
