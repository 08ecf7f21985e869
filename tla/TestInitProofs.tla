--------------------------- MODULE TestInitProofs ---------------------------
(***************************************************************************)
(* Proofs about TestInit: what it does to the files of the user and to its *)
(* container, how it names the tests, and what it tests, for every         *)
(* template, number of runs and point of failure.                          *)
(***************************************************************************)
EXTENDS TestInit, TLAPS, FiniteSetTheorems, WellFoundedInduction

Backup == [config : Artefact, fixtures : Artefact]

DiskTyped == config \in Artefact /\ fixtures \in Artefact /\ backups \in Seq(Backup)

Moving == {"copyConfig", "copyFixtures", "rmConfig", "rmFixtures"}
Later  == {"health", "mkdir", "discover", "modify", "generate", "write", "clean", "tests", "ask"}

\* A run moves the artefacts to the directory of its stamp.  Within a second the
\* next run has the same: it finds there what the one before has moved, and
\* what is left of it, or nothing, in its place.
MovedAside ==
    /\ pc \in Moving => quick
    /\ quick => Current > 0
    /\ pc \in {"images", "start"} \cup Later => config # "mine" /\ fixtures # "mine"
    /\ pc \in {"copyFixtures", "rmConfig"} /\ config = "mine" => backups[Current].config = "mine"
    /\ pc \in {"rmConfig", "rmFixtures"} /\ fixtures = "mine" => backups[Current].fixtures = "mine"
    /\ pc = "rmFixtures" => config # "mine"
    /\ pc \in Later => ~quick
    /\ quick /\ backups[Current].config = "mine" => config \in {"mine", "none"}
    /\ quick /\ backups[Current].fixtures = "mine" =>
          fixtures \in {"mine", "none", "part"}

DiskInv == DiskTyped /\ MovedAside /\ NothingIsLost

\* The container runs from the start of the template to the cleanup.
Warm ==
    /\ pc \in {"idle", "stamp", "images", "start"} \cup Moving => container = "none"
    /\ WarmupIsCleaned

LEMMA InitInitially == Init => DiskInv /\ Warm
<1> SUFFICES ASSUME Init PROVE DiskInv /\ Warm
  OBVIOUS
<1>1. DiskTyped
  BY DEF Init, DiskTyped, Artefact
<1>2. MovedAside /\ NothingIsLost
  BY DEF Init, MovedAside, NothingIsLost, Moving, Later
<1>3. Warm
  BY DEF Init, Warm, WarmupIsCleaned, Moving
<1> QED
  BY <1>1, <1>2, <1>3 DEF DiskInv

\* The steps that leave the artefacts alone.
LEMMA DiskUntouched ==
    ASSUME DiskInv, UNCHANGED <<disk, had, consent>>,
           UNCHANGED <<pc, quick>>
             \/ (UNCHANGED quick /\ pc' \in {"idle", "end"})
             \/ (UNCHANGED quick /\ pc = "idle" /\ pc' = "stamp")
             \/ (UNCHANGED quick /\ pc = "idle" /\ pc' = "images" /\ config = "none" /\ fixtures = "none")
             \/ (UNCHANGED quick /\ pc = "images" /\ pc' = "start")
             \/ (pc = "start" /\ pc' = "health" /\ ~quick')
             \/ (UNCHANGED quick /\ pc \in Later /\ pc' \in Later)
    PROVE  DiskInv'
BY DEF DiskInv, DiskTyped, MovedAside, NothingIsLost, Moving, Later, Current, disk

LEMMA StampKept == ASSUME DiskInv, MakeBackupDir PROVE DiskInv'
<1>1. /\ pc = "stamp" /\ UNCHANGED <<config, fixtures, had, consent>>
      /\ pc' \in {"copyConfig", "end"}
  BY DEF MakeBackupDir, Return
<1>2. CASE backups' = Append(backups, Empty) /\ quick' = TRUE
  <2>1. /\ backups' \in Seq(Backup) /\ Current' = Current + 1 /\ Current' > 0
        /\ backups'[Current'] = Empty
        /\ \A i \in DOMAIN backups : i \in DOMAIN backups' /\ backups'[i] = backups[i]
    BY <1>2 DEF DiskInv, DiskTyped, Backup, Empty, Artefact, Current
  <2>2. DiskTyped'
    BY <1>1, <2>1 DEF DiskInv, DiskTyped
  <2>3. MovedAside'
    <3>1. backups'[Current'].config = "none" /\ backups'[Current'].fixtures = "none"
      BY <2>1 DEF Empty
    <3>2. pc' = "copyConfig" \/ pc' = "end"
      BY <1>1
    <3> QED
      BY <1>2, <2>1, <3>1, <3>2 DEF MovedAside, Moving, Later
  <2>4. NothingIsLost'
    <3>1. NothingIsLost
      BY DEF DiskInv
    <3> QED
      BY <1>1, <2>1, <3>1 DEF NothingIsLost
  <2> QED
    BY <2>2, <2>3, <2>4 DEF DiskInv
<1>3. CASE UNCHANGED backups /\ UNCHANGED quick /\ (pc' = "end" \/ quick)
  BY <1>1, <1>3 DEF DiskInv, DiskTyped, MovedAside, NothingIsLost, Moving, Later, Current
<1> QED
  BY <1>2, <1>3 DEF MakeBackupDir, Return

\* Only the last backup is written to.
LEMMA CurrentBackup ==
    ASSUME DiskTyped, Current > 0, NEW b \in Backup, backups' = [backups EXCEPT ![Current] = b]
    PROVE  /\ backups' \in Seq(Backup) /\ Current' = Current /\ backups'[Current] = b
           /\ Current \in DOMAIN backups /\ DOMAIN backups' = DOMAIN backups
           /\ \A i \in DOMAIN backups : i # Current => backups'[i] = backups[i]
           /\ backups[Current] \in Backup
BY DEF DiskTyped, Current

\* A copy that is not of what the user had is onto no copy of it, but if what
\* she had is still in its place.
LEMMA CopyConfigKept == ASSUME DiskInv, CopyConfig PROVE DiskInv'
<1>1. /\ pc = "copyConfig" /\ quick /\ Current > 0 /\ DiskTyped
      /\ UNCHANGED <<config, fixtures, had, consent, quick>>
  BY DEF CopyConfig, DiskInv, MovedAside, Moving, past
<1>2. CASE config = "none" /\ UNCHANGED backups /\ pc' = "copyFixtures"
  BY <1>1, <1>2 DEF DiskInv, DiskTyped, MovedAside, NothingIsLost, Moving, Later, Current
<1>3. ASSUME NEW c \in Artefact, config # "none", backups' = [backups EXCEPT ![Current].config = c],
             \/ c = config /\ pc' = "copyFixtures"
             \/ c = "part" /\ pc' = "end"
      PROVE  DiskInv'
  <2> DEFINE b == [backups[Current] EXCEPT !.config = c]
  <2>1. backups[Current] \in Backup
    BY <1>1 DEF DiskTyped, Current
  <2>2. b \in Backup /\ b.config = c /\ b.fixtures = backups[Current].fixtures
    BY <2>1 DEF Backup
  <2>3. backups' = [backups EXCEPT ![Current] = b]
    BY <1>3
  <2> HIDE DEF b
  <2>4. /\ backups' \in Seq(Backup) /\ Current' = Current /\ backups'[Current] = b
        /\ Current \in DOMAIN backups /\ DOMAIN backups' = DOMAIN backups
        /\ \A i \in DOMAIN backups : i # Current => backups'[i] = backups[i]
    BY <1>1, <2>2, <2>3, CurrentBackup
  <2>5. backups[Current].config = "mine" => config = "mine"
    BY <1>1, <1>3 DEF DiskInv, MovedAside
  <2>6. DiskTyped'
    BY <1>1, <2>4 DEF DiskTyped
  <2>7. MovedAside'
    BY <1>1, <1>3, <2>2, <2>4 DEF DiskInv, MovedAside, Moving, Later
  <2>8. NothingIsLost'
    <3>1. NothingIsLost
      BY DEF DiskInv
    <3>2. \A i \in DOMAIN backups : backups[i].fixtures = "mine" => backups'[i].fixtures = "mine"
      BY <2>2, <2>4
    <3>3. \A i \in DOMAIN backups : backups[i].config = "mine" => config = "mine" \/ backups'[i].config = "mine"
      BY <2>4, <2>5
    <3> QED
      BY <1>1, <2>4, <3>1, <3>2, <3>3 DEF NothingIsLost
  <2> QED
    BY <2>6, <2>7, <2>8 DEF DiskInv
<1>4. config \in Artefact /\ "part" \in Artefact
  BY <1>1 DEF DiskTyped, Artefact
<1> QED
  BY <1>2, <1>3, <1>4 DEF CopyConfig, Return

LEMMA CopyFixturesKept == ASSUME DiskInv, CopyFixtures PROVE DiskInv'
<1>1. /\ pc = "copyFixtures" /\ quick /\ Current > 0 /\ DiskTyped
      /\ UNCHANGED <<config, fixtures, had, consent, quick>>
  BY DEF CopyFixtures, DiskInv, MovedAside, Moving, past
<1>2. CASE fixtures = "none" /\ UNCHANGED backups /\ pc' = "rmConfig"
  BY <1>1, <1>2 DEF DiskInv, DiskTyped, MovedAside, NothingIsLost, Moving, Later, Current
<1>3. ASSUME NEW c \in {fixtures, "part"}, fixtures # "none",
             backups' = [backups EXCEPT ![Current].fixtures = Copied(@, c)],
             \/ c = fixtures /\ pc' = "rmConfig"
             \/ c = "part" /\ pc' = "end"
      PROVE  DiskInv'
  <2> DEFINE f == Copied(backups[Current].fixtures, c)
             b == [backups[Current] EXCEPT !.fixtures = f]
  <2>1. backups[Current] \in Backup
    BY <1>1 DEF DiskTyped, Current
  <2>2. f \in Artefact
    BY <1>1, <2>1 DEF Copied, DiskTyped, Backup, Artefact
  <2>3. b \in Backup /\ b.fixtures = f /\ b.config = backups[Current].config
    BY <2>1, <2>2 DEF Backup
  <2>4. backups' = [backups EXCEPT ![Current] = b]
    BY <1>3
  <2>5. /\ backups[Current].fixtures = "mine" => f = "mine"
        /\ f = "mine" => backups[Current].fixtures = "mine" \/ c = "mine"
        /\ c = "mine" => f = "mine"
    BY <1>1, <1>3 DEF Copied, DiskInv, MovedAside
  <2> HIDE DEF b, f
  <2>6. /\ backups' \in Seq(Backup) /\ Current' = Current /\ backups'[Current] = b
        /\ Current \in DOMAIN backups /\ DOMAIN backups' = DOMAIN backups
        /\ \A i \in DOMAIN backups : i # Current => backups'[i] = backups[i]
    BY <1>1, <2>3, <2>4, CurrentBackup
  <2>7. DiskTyped'
    BY <1>1, <2>6 DEF DiskTyped
  <2>8. MovedAside'
    BY <1>1, <1>3, <2>3, <2>5, <2>6 DEF DiskInv, MovedAside, Moving, Later
  <2>9. NothingIsLost'
    <3>1. NothingIsLost
      BY DEF DiskInv
    <3>2. \A i \in DOMAIN backups : backups[i].config = "mine" => backups'[i].config = "mine"
      BY <2>3, <2>6
    <3>3. \A i \in DOMAIN backups : backups[i].fixtures = "mine" => backups'[i].fixtures = "mine"
      BY <2>3, <2>5, <2>6
    <3> QED
      BY <1>1, <2>6, <3>1, <3>2, <3>3 DEF NothingIsLost
  <2> QED
    BY <2>7, <2>8, <2>9 DEF DiskInv
<1> QED
  BY <1>2, <1>3 DEF CopyFixtures, Return

\* What is removed has been copied.
LEMMA RemovalsKept == ASSUME DiskInv, RemoveConfig \/ RemoveFixtures PROVE DiskInv'
<1>1. /\ quick /\ Current > 0 /\ DiskTyped /\ Current \in DOMAIN backups
      /\ UNCHANGED <<backups, had, consent, quick>> /\ Current' = Current
  BY DEF RemoveConfig, RemoveFixtures, DiskInv, DiskTyped, MovedAside, Moving, past, Current
<1>2. CASE RemoveConfig
  <2>1. pc = "rmConfig" /\ UNCHANGED fixtures /\ pc' \in {"rmFixtures", "end"}
        /\ (config' = "none" \/ (config' = config /\ pc' = "end"))
    BY <1>2 DEF RemoveConfig, Return
  <2> QED
    BY <1>1, <2>1 DEF DiskInv, DiskTyped, MovedAside, NothingIsLost, Moving, Later, Artefact
<1>3. CASE RemoveFixtures
  <2>1. pc = "rmFixtures" /\ UNCHANGED config /\ pc' \in {"images", "end"}
        /\ (fixtures' = "none" \/ (fixtures' \in {fixtures, "part"} /\ pc' = "end"))
    BY <1>3 DEF RemoveFixtures, Return
  <2> QED
    BY <1>1, <2>1 DEF DiskInv, DiskTyped, MovedAside, NothingIsLost, Moving, Later, Artefact
<1> QED
  BY <1>2, <1>3

\* What the walk and the tests make is in the place of what has been moved.
LEMMA MadeKept ==
    ASSUME DiskInv, CreateFixtures \/ WriteTestConfig \/ RunTemplateTests
    PROVE  DiskInv'
<1>1. /\ pc \in Later /\ ~quick /\ config # "mine" /\ fixtures # "mine"
      /\ UNCHANGED <<backups, had, consent, quick>> /\ pc' \in Later \cup {"end"}
  BY DEF CreateFixtures, WriteTestConfig, RunTemplateTests, DiskInv, MovedAside, Later, Return, Fail,
         static, past
<1>2. /\ config' \in {config, "made", "part"} /\ fixtures' \in {fixtures, "made", "part"}
  BY DEF CreateFixtures, WriteTestConfig, RunTemplateTests
<1> QED
  BY <1>1, <1>2 DEF DiskInv, DiskTyped, MovedAside, NothingIsLost, Moving, Later, Artefact

\* Only the user has a backup deleted.
LEMMA OfferKept == ASSUME DiskInv, OfferBackup PROVE DiskInv'
<1>1. /\ pc = "ask" /\ pc' = "end" /\ ~quick /\ UNCHANGED <<config, fixtures, had, quick>>
  BY DEF OfferBackup, Return, DiskInv, MovedAside, Later
<1>2. CASE UNCHANGED <<backups, consent>>
  BY <1>1, <1>2 DEF DiskInv, DiskTyped, MovedAside, NothingIsLost, Moving, Later
<1>3. ASSUME consent' = TRUE,
             NEW left \in {Empty, [config |-> "part", fixtures |-> "part"], backups[Current]},
             backups' = [backups EXCEPT ![Current] = left]
      PROVE  DiskInv'
  <2>1. backups \in Seq(Backup)
    BY DEF DiskInv, DiskTyped
  <2>2. backups' \in Seq(Backup)
    <3>1. CASE Current \in DOMAIN backups
      <4>1. backups[Current] \in Backup
        BY <2>1, <3>1
      <4>2. Empty \in Backup /\ [config |-> "part", fixtures |-> "part"] \in Backup
        BY DEF Backup, Empty, Artefact
      <4> HIDE DEF Backup
      <4>3. left \in Backup
        BY <4>1, <4>2
      <4>4. /\ Current \in 1..Len(backups) /\ \A i \in 1..Len(backups) : backups[i] \in Backup
            /\ backups \in [1..Len(backups) -> Backup] /\ Len(backups) \in Nat
        BY <2>1, <3>1
      <4>5. backups' \in [1..Len(backups) -> Backup]
        BY <1>3, <4>3, <4>4
      <4> QED
        BY <4>4, <4>5
    <3>2. CASE Current \notin DOMAIN backups
      <4>1. backups' = backups
        BY <1>3, <2>1, <3>2
      <4> QED
        BY <2>1, <4>1
    <3> QED
      BY <3>1, <3>2
  <2> QED
    BY <1>1, <1>3, <2>2 DEF DiskInv, DiskTyped, MovedAside, NothingIsLost, Moving, Later
<1> QED
  BY <1>2, <1>3 DEF OfferBackup

LEMMA DiskKept == ASSUME DiskInv, [Next]_vars PROVE DiskInv'
<1> USE DEF past, command, static, Later
<1>1. CASE RunInit
  BY <1>1, DiskUntouched DEF RunInit, disk
<1>2. CASE MakeBackupDir
  BY <1>2, StampKept
<1>3. CASE CopyConfig
  BY <1>3, CopyConfigKept
<1>4. CASE CopyFixtures
  BY <1>4, CopyFixturesKept
<1>5. CASE RemoveConfig \/ RemoveFixtures
  BY <1>5, RemovalsKept
<1>6. CASE BuildImages \/ OutOfAttempts
  BY <1>6, DiskUntouched DEF BuildImages, OutOfAttempts, Return
<1>7. CASE StartContainer
  BY <1>7, DiskUntouched DEF StartContainer
<1>8. CASE CheckHealth
  BY <1>8, DiskUntouched DEF CheckHealth, Return
<1>9. CASE CreateFixtures \/ WriteTestConfig \/ RunTemplateTests
  BY <1>9, MadeKept
<1>10. CASE Discover \/ DiscoverNext
  BY <1>10, DiskUntouched DEF Discover, DiscoverNext, Fail
<1>11. CASE EndDiscovery \/ EndGeneration
  BY <1>11, DiskUntouched DEF EndDiscovery, EndGeneration
<1>12. CASE InteractiveModify
  BY <1>12, DiskUntouched DEF InteractiveModify, Fail
<1>13. CASE Generate \/ GenerateNext
  BY <1>13, DiskUntouched DEF Generate, GenerateNext, Fail
<1>14. CASE CleanupQaWarmup
  BY <1>14, DiskUntouched DEF CleanupQaWarmup, Return
<1>15. CASE OfferBackup
  BY <1>15, OfferKept
<1>16. CASE StackOverflow \/ Kill \/ Exit
  BY <1>16, DiskUntouched DEF StackOverflow, Kill, Exit, Return
<1>17. CASE Finished \/ UNCHANGED vars
  BY <1>17, DiskUntouched DEF Finished, vars
<1> QED
  BY <1>1, <1>2, <1>3, <1>4, <1>5, <1>6, <1>7, <1>8, <1>9, <1>10, <1>11, <1>12, <1>13, <1>14, <1>15,
     <1>16, <1>17 DEF Next, Step

\* What the user had is never lost: whatever fails, however often the command
\* is run, also within a second, and wherever it is killed.
THEOREM NothingIsLostAlways == Spec => []NothingIsLost
<1>1. Init => DiskInv
  BY InitInitially
<1>2. DiskInv /\ [Next]_vars => DiskInv'
  BY DiskKept
<1>3. DiskInv => NothingIsLost
  BY DEF DiskInv
<1> QED
  BY <1>1, <1>2, <1>3, PTL DEF Spec

-----------------------------------------------------------------------------
LEMMA WarmKept == ASSUME Warm, [Next]_vars PROVE Warm'
<1> USE DEF Warm, WarmupIsCleaned, Moving, past, command, docker
<1>1. CASE RunInit
  BY <1>1 DEF RunInit
<1>2. CASE MakeBackupDir \/ CopyConfig \/ CopyFixtures \/ RemoveConfig \/ RemoveFixtures
  BY <1>2 DEF MakeBackupDir, CopyConfig, CopyFixtures, RemoveConfig, RemoveFixtures, Return
<1>3. CASE BuildImages \/ OutOfAttempts
  BY <1>3 DEF BuildImages, OutOfAttempts, Return
<1>4. CASE StartContainer
  BY <1>4 DEF StartContainer
<1>5. CASE CheckHealth
  BY <1>5 DEF CheckHealth, Return
<1>6. CASE CreateFixtures \/ WriteTestConfig
  BY <1>6 DEF CreateFixtures, WriteTestConfig, Fail, static
<1>7. CASE Discover \/ DiscoverNext \/ EndDiscovery
  BY <1>7 DEF Discover, DiscoverNext, EndDiscovery, Fail, static
<1>8. CASE InteractiveModify
  BY <1>8 DEF InteractiveModify, Fail, static
<1>9. CASE Generate \/ GenerateNext \/ EndGeneration
  BY <1>9 DEF Generate, GenerateNext, EndGeneration, Fail, static
<1>10. CASE CleanupQaWarmup
  BY <1>10 DEF CleanupQaWarmup, Return
<1>11. CASE RunTemplateTests \/ OfferBackup
  BY <1>11 DEF RunTemplateTests, OfferBackup, Return
<1>12. CASE StackOverflow \/ Kill \/ Exit
  BY <1>12 DEF StackOverflow, Kill, Exit, Return
<1>13. CASE Finished \/ UNCHANGED vars
  BY <1>13 DEF Finished, vars
<1> QED
  BY <1>1, <1>2, <1>3, <1>4, <1>5, <1>6, <1>7, <1>8, <1>9, <1>10, <1>11, <1>12, <1>13 DEF Next, Step

\* A container is left only where Docker refused, the template was not healthy,
\* or the command was killed.
THEOREM WarmupIsCleanedAlways == Spec => []WarmupIsCleaned
<1>1. Init => Warm
  BY InitInitially
<1>2. Warm /\ [Next]_vars => Warm'
  BY WarmKept
<1>3. Warm => WarmupIsCleaned
  BY DEF Warm
<1> QED
  BY <1>1, <1>2, <1>3, PTL DEF Spec

-----------------------------------------------------------------------------
(***************************************************************************)
(* The template: a question that the walk is at.  Position is a recursive  *)
(* function on the number of steps, so that a fact about it is shown for   *)
(* the least step at which it would fail.                                  *)
(***************************************************************************)
Steps == Cardinality(Question)

LEMMA StepsNat == Steps \in Nat
BY FiniteAssumption, FS_CardinalityType DEF Steps

\* A nonempty set of numbers has a least.
LEMMA LeastOf ==
    ASSUME NEW D \in SUBSET Nat, D # {}
    PROVE  \E m \in D : \A k \in D : m <= k
<1>1. PICK m \in D : \A k \in D : <<k, m>> \notin OpToRel(<, Nat)
  BY WFMin, NatLessThanWellFounded
<1>2. \A k \in D : ~(k < m)
  <2> SUFFICES ASSUME NEW k \in D, k < m PROVE FALSE
    OBVIOUS
  <2>1. <<k, m>> \in OpToRel(<, Nat)
    BY DEF OpToRel
  <2> QED
    BY <1>1, <2>1
<1> QED
  BY <1>2

\* The paths of m steps.
PathsOf(a, S, m) ==
    {f \in [0..m -> Question \cup {End}] :
        \A n \in 0..m : f[n] = IF n = 0 THEN First ELSE Onward(a, S, f[n - 1])}

\* A step leads to a question or to the end.
LEMMA OnwardTyped ==
    ASSUME NEW a \in Answers, NEW S, NEW q \in Question \cup {End}
    PROVE  Onward(a, S, q) \in Question \cup {End}
<1>1. a[First] \in Context
  BY TemplateAssumption DEF Answers
<1>2. CASE q # End /\ a[q] # None
  <2>1. q \in Question /\ a[q] \in Value
    BY <1>2 DEF Answers, Context
  <2>2. <<q, a[q], a[First]>> \in Question \X Value \X Context
    BY <1>1, <2>1
  <2>3. Follow[<<q, a[q], a[First]>>] \in Question \cup {End}
    BY <2>2, TemplateAssumption
  <2> QED
    BY <2>3 DEF Onward
<1>3. CASE ~(q # End /\ a[q] # None)
  BY <1>3 DEF Onward
<1> QED
  BY <1>2, <1>3

LEMMA PathsExist ==
    ASSUME NEW a \in Answers, NEW S
    PROVE  \A m \in Nat : PathsOf(a, S, m) # {}
<1> DEFINE D == {m \in Nat : PathsOf(a, S, m) = {}}
<1> SUFFICES ASSUME D # {} PROVE FALSE
  OBVIOUS
<1>1. PICK m \in D : \A k \in D : m <= k
  BY LeastOf
<1>2. CASE m = 0
  <2>1. [k \in 0..0 |-> First] \in PathsOf(a, S, 0)
    BY TemplateAssumption DEF PathsOf
  <2> QED
    BY <1>2, <2>1
<1>3. CASE m # 0
  <2>1. m - 1 \in Nat /\ m - 1 \notin D
    BY <1>1, <1>3
  <2>2. PICK f \in PathsOf(a, S, m - 1) : TRUE
    BY <2>1
  <2>3. /\ f \in [0..(m - 1) -> Question \cup {End}]
        /\ \A n \in 0..(m - 1) : f[n] = IF n = 0 THEN First ELSE Onward(a, S, f[n - 1])
    BY <2>2 DEF PathsOf
  <2>4. Onward(a, S, f[m - 1]) \in Question \cup {End}
    BY <2>1, <2>3, OnwardTyped
  <2> DEFINE g == [n \in 0..m |-> IF n = m THEN Onward(a, S, f[m - 1]) ELSE f[n]]
  <2>5. g \in [0..m -> Question \cup {End}]
    BY <2>1, <2>3, <2>4
  <2>6. /\ g[m] = Onward(a, S, f[m - 1])
        /\ \A n \in 0..(m - 1) : g[n] = f[n]
    BY <2>1
  <2> HIDE DEF g
  <2>7. ASSUME NEW n \in 0..m PROVE g[n] = IF n = 0 THEN First ELSE Onward(a, S, g[n - 1])
    <3>1. CASE n = m
      BY <1>3, <2>1, <2>6, <3>1
    <3>2. CASE n # m
      <4>1. n \in 0..(m - 1) /\ (n # 0 => n - 1 \in 0..(m - 1))
        BY <2>1, <3>2
      <4> QED
        BY <2>3, <2>6, <4>1
    <3> QED
      BY <3>1, <3>2
  <2>8. g \in PathsOf(a, S, m)
    BY <2>5, <2>7 DEF PathsOf
  <2> QED
    BY <2>8
<1> QED
  BY <1>2, <1>3

LEMMA PositionFacts ==
    ASSUME NEW a \in Answers, NEW S
    PROVE  /\ Position(a, S) \in [0..Steps -> Question \cup {End}]
           /\ Position(a, S)[0] = First
           /\ \A n \in 1..Steps : Position(a, S)[n] = Onward(a, S, Position(a, S)[n - 1])
<1> DEFINE Body(g) == [n \in 0..Steps |-> IF n = 0 THEN First ELSE Onward(a, S, g[n - 1])]
<1>1. PICK f \in PathsOf(a, S, Steps) : TRUE
  BY PathsExist, StepsNat
<1>2. f = Body(f)
  BY <1>1 DEF PathsOf
<1>3. Position(a, S) = CHOOSE g : g = Body(g)
  BY DEF Position, Steps
<1>4. Position(a, S) = Body(Position(a, S))
  BY <1>2, <1>3
<1> DEFINE P == Position(a, S)
<1> HIDE DEF P
<1>5. P = [n \in 0..Steps |-> IF n = 0 THEN First ELSE Onward(a, S, P[n - 1])]
  BY <1>4 DEF P
<1>6. P[0] = First /\ \A n \in 1..Steps : P[n] = Onward(a, S, P[n - 1])
  BY <1>5, StepsNat
<1>7. \A n \in 0..Steps : P[n] \in Question \cup {End}
  <2> DEFINE D == {n \in 0..Steps : P[n] \notin Question \cup {End}}
  <2> SUFFICES ASSUME D # {} PROVE FALSE
    OBVIOUS
  <2> D \in SUBSET Nat
    BY StepsNat
  <2>1. PICK m \in D : \A k \in D : m <= k
    BY LeastOf
  <2>2. m # 0
    BY <1>6, <2>1, TemplateAssumption
  <2>3. m - 1 \in 0..Steps /\ m - 1 \notin D /\ m \in 1..Steps
    BY <2>1, <2>2, StepsNat
  <2> QED
    BY <1>6, <2>1, <2>3, OnwardTyped
<1>8. P \in [0..Steps -> Question \cup {End}]
  BY <1>5, <1>7
<1> QED
  BY <1>6, <1>8 DEF P

\* Where the path does not go on it stays.
LEMMA PathStays ==
    ASSUME NEW a \in Answers, NEW S, NEW n \in 0..Steps,
           Onward(a, S, Position(a, S)[n]) = Position(a, S)[n],
           NEW m \in n..Steps
    PROVE  Position(a, S)[m] = Position(a, S)[n]
<1> DEFINE P == Position(a, S)
           D == {k \in n..Steps : P[k] # P[n]}
<1>1. \A k \in 1..Steps : P[k] = Onward(a, S, P[k - 1])
  BY PositionFacts
<1>2. Onward(a, S, P[n]) = P[n]
  OBVIOUS
<1> HIDE DEF P
<1> SUFFICES ASSUME D # {} PROVE FALSE
  BY DEF P
<1> D \in SUBSET Nat
  BY StepsNat
<1>3. PICK k \in D : \A j \in D : k <= j
  BY LeastOf
<1>4. k - 1 \in n..Steps /\ k - 1 \notin D /\ k \in 1..Steps
  BY <1>3, StepsNat
<1> QED
  BY <1>1, <1>2, <1>3, <1>4

\* The template replies with a question or the end, and with its first question
\* as long as it has no answer.
LEMMA ReplyTyped ==
    ASSUME NEW a \in Answers, NEW d, model \in Models
    PROVE  /\ PromptTemplate(a, d) \in Question \cup {End}
           /\ a = Nothing => PromptTemplate(a, d) = First
<1>1. model \in {"first", "sequence", "stuck"} /\ First \in Question
  BY TemplateAssumption
<1>2. ASSUME NEW S PROVE Position(a, S)[Steps] \in Question \cup {End}
  BY PositionFacts, StepsNat
<1>3. ASSUME NEW S, a = Nothing PROVE Position(a, S)[Steps] = First
  <2>1. Onward(a, S, First) = First
    BY <1>1, <1>3 DEF Onward, Nothing
  <2>2. Position(a, S)[0] = First /\ 0 \in 0..Steps /\ Steps \in 0..Steps
    BY PositionFacts, StepsNat
  <2> QED
    BY <2>1, <2>2, PathStays
<1> QED
  BY <1>1, <1>2, <1>3 DEF PromptTemplate, Steps

-----------------------------------------------------------------------------
(***************************************************************************)
(* The walk: everything has its type, a path without labels has no answers *)
(* yet, and the user is asked about a discovered question at a time.       *)
(***************************************************************************)
Path == [answers : Answers, labels : Branches, det : SUBSET Question, live : BOOLEAN]
Frame == [from : Path, q : Question, todo : Branches]
Finding == [q : Question, branches : Branches]
Stems == {PieceOf[v].stem : v \in Value} \cup {"...", "test"}
Piece == [stem : Stems, tail : Seq(Nat)]
Names == {name \in Seq(Piece) : name # <<>>}
Test == [name : Names, answers : Answers, det : SUBSET Question]

WalkTyped ==
    /\ model \in Models
    /\ path \in Path /\ stack \in Seq(Frame)
    /\ discovered \in Seq(Finding)
    /\ kept \in UNION {[Q -> Branches] : Q \in SUBSET Question}
    /\ tests \in Seq(Test)
    /\ usedNames \in UNION {[N -> Nat] : N \in SUBSET Names}

Unlabelled == path.labels = <<>> => path.answers = Nothing

Before == {"idle", "stamp", "images", "start", "health", "mkdir", "discover"} \cup Moving

\* The user has been asked about the first n questions.
AskedAbout(n) ==
    /\ n \in Nat /\ n < Len(discovered)
    /\ DOMAIN kept = {discovered[i].q : i \in 1..n}
    /\ IsFiniteSet(DOMAIN kept) /\ Cardinality(DOMAIN kept) = n

TurnByTurn ==
    /\ \A i, j \in 1..Len(discovered) : discovered[i].q = discovered[j].q => i = j
    /\ pc \in Before => DOMAIN kept = {}
    /\ pc = "modify" => \E n : AskedAbout(n)

WalkInv == WalkTyped /\ Unlabelled /\ TurnByTurn

LEMMA NothingTyped == Nothing \in Answers /\ NoPath \in Path /\ Root \in Path
<1>1. Nothing \in Answers
  BY DEF Nothing, Answers, Context
<1>2. <<>> \in Branches
  BY DEF Branches
<1>3. NoPath \in Path
  BY <1>1, <1>2 DEF NoPath, Path
<1>4. Root \in Path
  BY <1>3 DEF Root, Path
<1> QED
  BY <1>1, <1>3, <1>4

LEMMA ResetTyped == ASSUME ResetWalk, model' \in Models, pc' # "modify" PROVE WalkInv'
<1>1. kept' \in [{} -> Branches] /\ usedNames' \in [{} -> Nat]
  BY DEF ResetWalk
<1>2. WalkTyped'
  <2>1. kept' \in UNION {[Q -> Branches] : Q \in SUBSET Question}
    BY <1>1
  <2>2. usedNames' \in UNION {[N -> Nat] : N \in SUBSET Names}
    BY <1>1
  <2>3. path' \in Path /\ stack' \in Seq(Frame) /\ discovered' \in Seq(Finding) /\ tests' \in Seq(Test)
    BY NothingTyped DEF ResetWalk
  <2> QED
    BY <2>1, <2>2, <2>3 DEF WalkTyped
<1>3. Unlabelled'
  BY DEF ResetWalk, Unlabelled, NoPath
<1>4. TurnByTurn'
  BY <1>1 DEF ResetWalk, TurnByTurn
<1> QED
  BY <1>2, <1>3, <1>4 DEF WalkInv

LEMMA WalkUntouched ==
    ASSUME WalkInv, UNCHANGED walk, UNCHANGED model,
           pc' \in Before => pc \in Before, pc' = "modify" => pc = "modify"
    PROVE  WalkInv'
<1>1. UNCHANGED <<path, stack, discovered, kept, tests, usedNames, model>>
  BY DEF walk
<1>2. WalkTyped' /\ Unlabelled'
  BY <1>1 DEF WalkInv, WalkTyped, Unlabelled
<1>3. \A n : AskedAbout(n) => AskedAbout(n)'
  BY <1>1 DEF AskedAbout
<1>4. TurnByTurn'
  BY <1>1, <1>3 DEF WalkInv, TurnByTurn
<1> QED
  BY <1>2, <1>4 DEF WalkInv

\* What the user leaves a question with are values.
LEMMA ChoicesTyped ==
    ASSUME NEW q \in Question, NEW branches \in Branches
    PROVE  UserChoices(q, branches) \subseteq Branches
<1>1. ASSUME NEW S \in SUBSET Value, NEW n \in Nat, NEW t \in [1..n -> S] PROVE t \in Branches
  BY DEF Branches
<1>2. CASE branches = <<>>
  BY <1>2 DEF UserChoices, Branches
<1>3. CASE branches # <<>> /\ Kind[q] \in {"select", "confirm"}
  <2>1. ToSet(branches) \in SUBSET Value /\ Len(branches) \in Nat
    BY DEF Branches, ToSet
  <2>2. Subsequences(branches) \subseteq Branches
    <3> SUFFICES ASSUME NEW t \in Subsequences(branches) PROVE t \in Branches
      OBVIOUS
    <3>1. PICK n \in 1..Len(branches) : t \in [1..n -> ToSet(branches)]
      BY DEF Subsequences
    <3>2. n \in Nat
      BY <2>1
    <3> QED
      BY <1>1, <2>1, <3>1, <3>2
  <2> QED
    BY <1>3, <2>2 DEF UserChoices
<1>4. CASE ~(branches = <<>>) /\ ~(branches # <<>> /\ Kind[q] \in {"select", "confirm"})
  <2> DEFINE own == Typed[q] \cup {Head(branches)}
  <2>1. own \in SUBSET Value
    BY <1>4, TemplateAssumption DEF Branches
  <2>2. Cardinality(own) \in Nat
    BY <2>1, FiniteAssumption, FS_Subset, FS_CardinalityType
  <2>3. UserChoices(q, branches) \subseteq UNION {[1..n -> own] : n \in 1..Cardinality(own)}
    BY <1>4 DEF UserChoices
  <2> HIDE DEF own
  <2>4. ASSUME NEW t \in UserChoices(q, branches) PROVE t \in Branches
    <3>1. PICK n \in 1..Cardinality(own) : t \in [1..n -> own]
      BY <2>3
    <3>2. n \in Nat
      BY <2>2
    <3> QED
      BY <1>1, <2>1, <3>1, <3>2
  <2> QED
    BY <2>4
<1> QED
  BY <1>2, <1>3, <1>4

\* Following a branch, or none.
LEMMA BranchFollowed ==
    ASSUME WalkTyped, stack # <<>>, NEW more, FollowBranch(more)
    PROVE  /\ path' \in Path /\ stack' \in Seq(Frame)
           /\ path' = path \/ path'.labels # <<>>
<1> DEFINE n == Len(stack)
           top == stack[n]
<1>1. n \in Nat \ {0} /\ n \in 1..n /\ top \in Frame /\ Last(stack) = top
  BY DEF WalkTyped, Last
<1>2. /\ top.from \in Path /\ top.q \in Question /\ top.todo \in Branches
  BY <1>1 DEF Frame
<1>3. CASE top.todo = <<>> \/ ~more
  <2>1. stack' = Front(stack) /\ path' = path
    BY <1>1, <1>3 DEF FollowBranch
  <2>2. Front(stack) \in Seq(Frame)
    BY <1>1 DEF Front, WalkTyped
  <2> QED
    BY <2>1, <2>2 DEF WalkTyped
<1>4. CASE ~(top.todo = <<>> \/ ~more)
  <2>1. /\ path' = AddAnswer(top.from, top.q, Head(top.todo))
        /\ stack' = [stack EXCEPT ![n].todo = Tail(@)]
    BY <1>1, <1>4 DEF FollowBranch
  <2>2. Head(top.todo) \in Value /\ Tail(top.todo) \in Branches
    BY <1>2, <1>4 DEF Branches
  <2> DEFINE v == Head(top.todo)
  <2> HIDE DEF v
  <2>3. path' = [top.from EXCEPT !.answers[top.q] = v, !.labels = Append(@, v)]
    BY <2>1 DEF AddAnswer, v
  <2>4. [top.from.answers EXCEPT ![top.q] = v] \in Answers
    BY <1>2, <2>2 DEF Path, Answers, Context, v
  <2>5. Append(top.from.labels, v) \in Branches /\ Append(top.from.labels, v) # <<>>
    <3>1. top.from.labels \in Seq(Value) /\ v \in Value
      BY <1>2, <2>2 DEF Path, Branches, v
    <3>2. Append(top.from.labels, v) \in Seq(Value) /\ Len(Append(top.from.labels, v)) = Len(top.from.labels) + 1
      BY <3>1
    <3>3. Len(top.from.labels) \in Nat
      BY <3>1
    <3> QED
      BY <3>2, <3>3 DEF Branches
  <2>6. path' \in Path /\ path'.labels # <<>>
    BY <1>2, <2>3, <2>4, <2>5 DEF Path
  <2>7. [top EXCEPT !.todo = Tail(top.todo)] \in Frame
    BY <1>1, <2>2 DEF Frame
  <2>8. stack' = [stack EXCEPT ![n] = [top EXCEPT !.todo = Tail(top.todo)]]
    BY <1>1, <2>1
  <2>9. stack' \in Seq(Frame)
    BY <1>1, <2>7, <2>8 DEF WalkTyped
  <2> QED
    BY <2>6, <2>9
<1> QED
  BY <1>3, <1>4

\* A call is entered.
LEMMA Called ==
    ASSUME WalkTyped, NEW q \in Question, NEW branches \in Branches, Call(q, branches)
    PROVE  path' = NoPath /\ stack' \in Seq(Frame)
<1>1. [path EXCEPT !.det = @ \cup {q}] \in Path
  BY DEF WalkTyped, Path
<1> QED
  BY <1>1 DEF Call, WalkTyped, Frame

\* What the template offers for its question.
LEMMA OffersTyped ==
    ASSUME WalkTyped
    PROVE  /\ Reply \in Question \cup {End}
           /\ \A q \in Question : GetAnswerBranches(q) \in Branches
<1>1. path.answers \in Answers
  BY DEF WalkTyped, Path
<1>2. Reply \in Question \cup {End}
  BY <1>1, ReplyTyped DEF Reply, WalkTyped
<1>3. path.answers[First] \in Context
  BY <1>1, TemplateAssumption DEF Answers
<1> QED
  BY <1>2, <1>3, TemplateAssumption DEF GetAnswerBranches

LEMMA DiscoverTyped == ASSUME WalkInv, Discover PROVE WalkInv'
<1>1. pc = "discover" /\ UNCHANGED <<kept, tests, usedNames, model>>
  BY DEF Discover, static, setup
<1>2. WalkTyped /\ Reply \in Question \cup {End}
  BY OffersTyped DEF WalkInv
<1>3. CASE Reply = End /\ path' = NoPath /\ UNCHANGED <<stack, discovered, pc, failed>>
  BY <1>1, <1>3, NothingTyped DEF WalkInv, WalkTyped, Unlabelled, TurnByTurn, NoPath, Before
<1>4. CASE Fail /\ UNCHANGED <<path, stack, discovered>>
  BY <1>1, <1>4, WalkUntouched DEF Fail, walk, Before, Moving
<1>5. CASE Reply # End /\ ~(Fail /\ UNCHANGED <<path, stack, discovered>>)
  <2> DEFINE branches == GetAnswerBranches(Reply)
  <2>1. Reply \in Question /\ branches \in Branches
    BY <1>2, <1>5, OffersTyped
  <2> HIDE DEF branches
  <2>2. pc' = pc
    BY <1>5 DEF Discover
  <2>3. /\ path' = NoPath /\ stack' \in Seq(Frame)
        /\ \/ UNCHANGED discovered
           \/ Reply \notin Seen /\ discovered' = Append(discovered, [q |-> Reply, branches |-> branches])
    <3>1. CASE Reply \in Seen
      <4> DEFINE first == IF branches = <<>> THEN <<>> ELSE <<Head(branches)>>
      <4>1. first \in Branches
        BY <2>1 DEF Branches
      <4>2. Call(Reply, first) /\ UNCHANGED discovered
        BY <1>5, <3>1 DEF Discover, branches
      <4> QED
        BY <1>2, <2>1, <4>1, <4>2, Called
    <3>2. CASE Reply \notin Seen
      <4>1. Call(Reply, branches) /\ discovered' = Append(discovered, [q |-> Reply, branches |-> branches])
        BY <1>5, <3>2 DEF Discover, branches
      <4> QED
        BY <1>2, <2>1, <3>2, <4>1, Called
    <3> QED
      BY <3>1, <3>2
  <2>4. [q |-> Reply, branches |-> branches] \in Finding
    BY <2>1 DEF Finding
  <2>5. discovered' \in Seq(Finding)
    <3>1. discovered \in Seq(Finding)
      BY <1>2 DEF WalkTyped
    <3>2. Append(discovered, [q |-> Reply, branches |-> branches]) \in Seq(Finding)
      BY <2>4, <3>1
    <3> QED
      BY <2>3, <3>1, <3>2
  <2>6. WalkTyped'
    BY <1>1, <1>2, <2>3, <2>5, NothingTyped DEF WalkTyped
  <2>7. Unlabelled'
    BY <2>3 DEF Unlabelled, NoPath
  <2>8. \A i, j \in 1..Len(discovered') : discovered'[i].q = discovered'[j].q => i = j
    <3>1. \A i, j \in 1..Len(discovered) : discovered[i].q = discovered[j].q => i = j
      BY DEF WalkInv, TurnByTurn
    <3>2. CASE UNCHANGED discovered
      BY <3>1, <3>2
    <3>3. CASE Reply \notin Seen /\ discovered' = Append(discovered, [q |-> Reply, branches |-> branches])
      <4>1. Len(discovered) \in Nat /\ DOMAIN discovered = 1..Len(discovered)
        BY <1>2 DEF WalkTyped
      <4>2. \A i \in 1..Len(discovered) : discovered[i].q # Reply
        BY <3>3, <4>1 DEF Seen
      <4>3. /\ Len(discovered') = Len(discovered) + 1
            /\ \A i \in 1..Len(discovered) : discovered'[i] = discovered[i]
            /\ discovered'[Len(discovered) + 1].q = Reply
        BY <1>2, <2>4, <3>3, <4>1 DEF WalkTyped
      <4> QED
        BY <3>1, <4>1, <4>2, <4>3
    <3> QED
      BY <2>3, <3>2, <3>3
  <2>9. TurnByTurn'
    BY <1>1, <2>2, <2>8 DEF WalkInv, TurnByTurn, Before
  <2> QED
    BY <2>6, <2>7, <2>9 DEF WalkInv
<1> QED
  BY <1>3, <1>4, <1>5 DEF Discover

LEMMA BranchTyped == ASSUME WalkInv, DiscoverNext \/ GenerateNext PROVE WalkInv'
<1>1. /\ stack # <<>> /\ UNCHANGED <<discovered, kept, tests, usedNames, model, pc>>
      /\ \E more : FollowBranch(more)
  BY DEF DiscoverNext, GenerateNext, static, setup
<1>2. /\ path' \in Path /\ stack' \in Seq(Frame)
      /\ path' = path \/ path'.labels # <<>>
  BY <1>1, BranchFollowed DEF WalkInv
<1>3. WalkTyped'
  BY <1>1, <1>2 DEF WalkInv, WalkTyped
<1>4. Unlabelled'
  BY <1>2 DEF WalkInv, Unlabelled
<1>5. TurnByTurn'
  BY <1>1 DEF WalkInv, TurnByTurn, AskedAbout
<1> QED
  BY <1>3, <1>4, <1>5 DEF WalkInv

LEMMA EndDiscoveryTyped == ASSUME WalkInv, EndDiscovery PROVE WalkInv'
<1>1. /\ pc = "discover" /\ UNCHANGED <<model, stack, discovered, tests, usedNames>>
      /\ discovered \in Seq(Finding) /\ Len(discovered) \in Nat /\ DOMAIN discovered = 1..Len(discovered)
  BY DEF EndDiscovery, static, setup, WalkInv, WalkTyped
<1>2. CASE pc' = "modify" /\ discovered # <<>> /\ UNCHANGED <<kept, path>>
  <2>1. DOMAIN kept = {}
    BY <1>1 DEF WalkInv, TurnByTurn, Before
  <2>2. AskedAbout(0)'
    BY <1>1, <1>2, <2>1, FS_EmptySet DEF AskedAbout
  <2>3. TurnByTurn'
    BY <1>1, <1>2, <2>2 DEF WalkInv, TurnByTurn, Before, Moving
  <2> QED
    BY <1>1, <1>2, <2>3 DEF WalkInv, WalkTyped, Unlabelled
<1>3. CASE pc' = "generate" /\ kept' = AsDiscovered /\ path' = Root
  <2>1. Seen \subseteq Question
    <3>1. \A i \in DOMAIN discovered : discovered[i] \in Finding
      BY <1>1
    <3>2. \A i \in DOMAIN discovered : discovered[i].q \in Question
      BY <3>1 DEF Finding
    <3> QED
      BY <3>2 DEF Seen
  <2>2. ASSUME NEW q \in Seen PROVE discovered[Discovered(q)].branches \in Branches
    <3>1. \E k \in DOMAIN discovered : discovered[k].q = q
      BY <2>2 DEF Seen
    <3>2. Discovered(q) \in DOMAIN discovered
      BY <3>1 DEF Discovered
    <3>3. discovered[Discovered(q)] \in Finding
      BY <1>1, <3>2
    <3> QED
      BY <3>3 DEF Finding
  <2>3. kept' \in [Seen -> Branches]
    BY <1>3, <2>2 DEF AsDiscovered
  <2>4. kept' \in UNION {[Q -> Branches] : Q \in SUBSET Question}
    BY <2>1, <2>3
  <2>5. WalkTyped'
    BY <1>1, <1>3, <2>4, NothingTyped DEF WalkInv, WalkTyped
  <2>6. Unlabelled'
    BY <1>3 DEF Unlabelled, Root, NoPath
  <2>7. TurnByTurn'
    BY <1>1, <1>3 DEF WalkInv, TurnByTurn, Before, Moving
  <2> QED
    BY <2>5, <2>6, <2>7 DEF WalkInv
<1> QED
  BY <1>2, <1>3 DEF EndDiscovery

LEMMA ModifyTyped == ASSUME WalkInv, InteractiveModify PROVE WalkInv'
<1>1. /\ pc = "modify" /\ UNCHANGED <<model, stack, discovered, tests, usedNames>>
      /\ discovered \in Seq(Finding) /\ Len(discovered) \in Nat
  BY DEF InteractiveModify, static, setup, WalkInv, WalkTyped
<1>2. PICK n : AskedAbout(n)
  BY <1>1 DEF WalkInv, TurnByTurn
<1>3. /\ n \in Nat /\ n < Len(discovered) /\ DOMAIN kept = {discovered[i].q : i \in 1..n}
      /\ IsFiniteSet(DOMAIN kept) /\ Cardinality(DOMAIN kept) = n
  BY <1>2 DEF AskedAbout
<1> DEFINE dq == discovered[n + 1]
<1>4. n + 1 \in 1..Len(discovered) /\ dq \in Finding
  BY <1>1, <1>3
<1>5. CASE Fail /\ UNCHANGED <<kept, path>>
  BY <1>1, <1>5, WalkUntouched DEF Fail, walk, Before, Moving
<1>6. ASSUME NEW choice \in UserChoices(dq.q, dq.branches),
             kept' = [q \in DOMAIN kept \cup {dq.q} |-> IF q = dq.q THEN choice ELSE kept[q]],
             IF n + 1 = Len(discovered) THEN pc' = "generate" /\ path' = Root ELSE UNCHANGED <<pc, path>>
      PROVE  WalkInv'
  <2>1. choice \in Branches /\ dq.q \in Question
    BY <1>4, ChoicesTyped DEF Finding
  <2>2. DOMAIN kept \subseteq Question /\ \A q \in DOMAIN kept : kept[q] \in Branches
    BY DEF WalkInv, WalkTyped
  <2>3. kept' \in [DOMAIN kept \cup {dq.q} -> Branches]
    BY <1>6, <2>1, <2>2
  <2>4. kept' \in UNION {[Q -> Branches] : Q \in SUBSET Question}
    BY <2>1, <2>2, <2>3
  <2>5. path' \in {path, Root}
    BY <1>6
  <2>6. WalkTyped'
    BY <1>1, <2>4, <2>5, NothingTyped DEF WalkInv, WalkTyped
  <2>7. Unlabelled'
    BY <2>5 DEF WalkInv, Unlabelled, Root, NoPath
  <2>8. \A i, j \in 1..Len(discovered) : discovered[i].q = discovered[j].q => i = j
    BY DEF WalkInv, TurnByTurn
  <2>9. ASSUME pc' = "modify" PROVE AskedAbout(n + 1)'
    <3>1. n + 1 \in Nat /\ n + 1 < Len(discovered)
      BY <1>1, <1>3, <1>4, <1>6, <2>9
    <3>2. dq.q \notin DOMAIN kept
      BY <1>3, <1>4, <2>8
    <3>3. DOMAIN kept' = DOMAIN kept \cup {dq.q}
      BY <1>6
    <3>4. 1..(n + 1) = 1..n \cup {n + 1}
      BY <1>3
    <3>5. DOMAIN kept' = {discovered[i].q : i \in 1..(n + 1)}
      BY <1>3, <3>3, <3>4
    <3>6. IsFiniteSet(DOMAIN kept') /\ Cardinality(DOMAIN kept') = n + 1
      <4> DEFINE K == DOMAIN kept
      <4>1. IsFiniteSet(K) /\ Cardinality(K) = n /\ dq.q \notin K
        BY <1>3, <3>2
      <4> HIDE DEF K
      <4>2. IsFiniteSet(K \cup {dq.q}) /\ Cardinality(K \cup {dq.q}) = n + 1
        BY <4>1, FS_AddElement
      <4> QED
        BY <3>3, <4>2 DEF K
    <3> QED
      BY <1>1, <3>1, <3>5, <3>6 DEF AskedAbout
  <2>10. TurnByTurn'
    BY <1>1, <1>6, <2>8, <2>9 DEF TurnByTurn, Before, Moving
  <2> QED
    BY <2>6, <2>7, <2>10 DEF WalkInv
<1> QED
  BY <1>3, <1>5, <1>6 DEF InteractiveModify

LEMMA BranchesForTyped ==
    ASSUME WalkTyped, NEW q \in Question
    PROVE  BranchesFor(q) \in Branches
BY OffersTyped DEF BranchesFor, WalkTyped

-----------------------------------------------------------------------------
(***************************************************************************)
(* The names of the tests.                                                 *)
(***************************************************************************)
LEMMA TruncatedTyped ==
    ASSUME NEW name \in Names, NEW room \in Nat \ {0}
    PROVE  /\ Truncated(name, room) \in Names
           /\ Len(name) <= room => Truncated(name, room) = name
           /\ ~(Len(name) <= room) => Shortened(Truncated(name, room))
<1>1. name \in Seq(Piece) /\ Len(name) \in Nat /\ Ellipsis \in Piece
  <2>1. <<>> \in Seq(Nat)
    OBVIOUS
  <2>2. Ellipsis \in Piece
    BY <2>1 DEF Piece, Stems, Ellipsis
  <2> QED
    BY <2>2 DEF Names
<1>2. CASE Len(name) <= room
  BY <1>2 DEF Truncated
<1>3. CASE ~(Len(name) <= room)
  <2> DEFINE kept_ == SubSeq(name, 1, room - 1)
  <2>1. kept_ \in Seq(Piece) /\ Len(kept_) = room - 1
    BY <1>1, <1>3
  <2> HIDE DEF kept_
  <2>2. /\ Append(kept_, Ellipsis) \in Seq(Piece) /\ Len(Append(kept_, Ellipsis)) = room
        /\ Append(kept_, Ellipsis)[room] = Ellipsis
    BY <1>1, <2>1
  <2>3. Truncated(name, room) = Append(kept_, Ellipsis)
    BY <1>3 DEF Truncated, kept_
  <2>4. room \in DOMAIN Append(kept_, Ellipsis) /\ Append(kept_, Ellipsis) # <<>>
    BY <2>2
  <2> QED
    BY <1>3, <2>2, <2>3, <2>4 DEF Shortened, Names
<1> QED
  BY <1>2, <1>3

LEMMA SuffixTyped ==
    ASSUME NEW name \in Names, NEW n \in Nat
    PROVE  WithSuffix(name, n) \in Names
<1>1. Len(name) \in Nat \ {0} /\ name \in Seq(Piece) /\ Len(name) \in 1..Len(name)
  BY DEF Names
<1> DEFINE last == name[Len(name)]
<1>2. last \in Piece
  BY <1>1
<1> HIDE DEF last
<1>3. [name[Len(name)] EXCEPT !.tail = Append(@, n)] \in Piece
  <2>1. last.tail \in Seq(Nat)
    BY <1>2 DEF Piece
  <2>2. Append(last.tail, n) \in Seq(Nat)
    BY <2>1
  <2>3. [last EXCEPT !.tail = Append(@, n)] \in Piece
    BY <1>2, <2>2 DEF Piece
  <2> QED
    BY <2>3 DEF last
<1>4. WithSuffix(name, n) = [name EXCEPT ![Len(name)] = [name[Len(name)] EXCEPT !.tail = Append(@, n)]]
  BY <1>1 DEF WithSuffix
<1>5. WithSuffix(name, n) \in Seq(Piece) /\ Len(WithSuffix(name, n)) = Len(name)
  BY <1>1, <1>3, <1>4
<1> QED
  BY <1>1, <1>5 DEF Names

LEMMA NamesTyped ==
    ASSUME WalkTyped, NEW labels \in Branches
    PROVE  /\ FullName(labels) \in Names /\ BaseName(labels) \in Names
           /\ TimesUsed(BaseName(labels)) \in Nat
           /\ GenerateTestName(labels) \in Names
<1>1. FullName(labels) \in Names
  <2>1. CASE labels = <<>>
    <3>1. Len(tests) \in Nat
      BY DEF WalkTyped
    <3>2. <<Len(tests)>> \in Seq(Nat)
      BY <3>1
    <3>3. [stem |-> "test", tail |-> <<Len(tests)>>] \in Piece
      BY <3>2 DEF Piece, Stems
    <3> QED
      BY <2>1, <3>3 DEF FullName, Names
  <2>2. CASE labels # <<>>
    <3>1. labels \in Seq(Value) /\ Len(labels) \in Nat \ {0} /\ DOMAIN labels = 1..Len(labels)
      BY <2>2 DEF Branches
    <3>2. \A i \in DOMAIN labels : PieceOf[labels[i]] \in Piece
      <4> TAKE i \in DOMAIN labels
      <4>1. labels[i] \in Value
        BY <3>1
      <4>2. PieceOf[labels[i]].stem \in Stems
        BY <4>1 DEF Stems
      <4>3. PieceOf[labels[i]] \in [stem : STRING \ {"..."}, tail : Seq(Nat)]
        BY <4>1, PieceAssumption
      <4> QED
        BY <4>2, <4>3 DEF Piece
    <3>3. [i \in DOMAIN labels |-> PieceOf[labels[i]]] \in [1..Len(labels) -> Piece]
      BY <3>1, <3>2
    <3> QED
      BY <2>2, <3>1, <3>3 DEF FullName, Names
  <2> QED
    BY <2>1, <2>2
<1>2. MaxPieces \in Nat \ {0} /\ MaxPieces - 1 \in Nat \ {0}
  BY LimitAssumption
<1>3. BaseName(labels) \in Names
  BY <1>1, <1>2, TruncatedTyped DEF BaseName
<1>4. \A name : TimesUsed(name) \in Nat
  BY DEF TimesUsed, WalkTyped
<1>5. Truncated(FullName(labels), MaxPieces - 1) \in Names
  BY <1>1, <1>2, TruncatedTyped
<1>6. \A n \in Nat : WithSuffix(Truncated(FullName(labels), MaxPieces - 1), n) \in Names
  BY <1>5, SuffixTyped
<1> QED
  BY <1>1, <1>3, <1>4, <1>6 DEF GenerateTestName

LEMMA GenerateTyped == ASSUME WalkInv, Generate PROVE WalkInv'
<1>1. pc = "generate" /\ UNCHANGED <<discovered, kept, model>> /\ WalkTyped
  BY DEF Generate, static, setup, WalkInv
<1>2. Reply \in Question \cup {End} /\ path.answers \in Answers /\ path.labels \in Branches
      /\ path.det \in SUBSET Question
  BY <1>1, OffersTyped DEF WalkTyped, Path
<1>3. CASE path' = NoPath /\ UNCHANGED <<stack, tests, usedNames, pc, failed>>
  BY <1>1, <1>3, NothingTyped DEF WalkInv, WalkTyped, Unlabelled, TurnByTurn, NoPath, Before, Moving
<1>4. CASE Fail /\ UNCHANGED <<path, stack, tests, usedNames>>
  BY <1>1, <1>4, WalkUntouched DEF Fail, walk, Before, Moving
<1>5. CASE Reply # End /\ Call(Reply, BranchesFor(Reply)) /\ UNCHANGED <<tests, usedNames, pc, failed>>
  <2>1. path' = NoPath /\ stack' \in Seq(Frame)
    BY <1>1, <1>2, <1>5, BranchesForTyped, Called
  <2> QED
    BY <1>1, <1>5, <2>1, NothingTyped
    DEF WalkInv, WalkTyped, Unlabelled, TurnByTurn, NoPath, Before, Moving
<1>6. ASSUME UNCHANGED <<stack, pc, failed>>, path' = NoPath,
             tests' = Append(tests, [name    |-> GenerateTestName(path.labels),
                                     answers |-> path.answers,
                                     det     |-> path.det]),
             usedNames' = [n \in DOMAIN usedNames \cup {BaseName(path.labels)} |->
                              IF n = BaseName(path.labels) THEN TimesUsed(BaseName(path.labels)) + 1
                              ELSE usedNames[n]]
      PROVE  WalkInv'
  <2> DEFINE name == GenerateTestName(path.labels)
             base == BaseName(path.labels)
             count == TimesUsed(BaseName(path.labels))
  <2>1. name \in Names /\ base \in Names /\ count \in Nat
    BY <1>1, <1>2, NamesTyped
  <2> HIDE DEF name, base, count
  <2>2. tests' \in Seq(Test)
    <3>1. [name |-> name, answers |-> path.answers, det |-> path.det] \in Test
      BY <1>2, <2>1 DEF Test
    <3>2. tests' = Append(tests, [name |-> name, answers |-> path.answers, det |-> path.det])
      BY <1>6 DEF name
    <3> QED
      BY <1>1, <3>1, <3>2 DEF WalkTyped
  <2>3. usedNames' \in UNION {[N -> Nat] : N \in SUBSET Names}
    <3>1. DOMAIN usedNames \subseteq Names /\ \A n \in DOMAIN usedNames : usedNames[n] \in Nat
      BY <1>1 DEF WalkTyped
    <3>2. usedNames' = [n \in DOMAIN usedNames \cup {base} |-> IF n = base THEN count + 1 ELSE usedNames[n]]
      BY <1>6 DEF base, count
    <3>3. usedNames' \in [DOMAIN usedNames \cup {base} -> Nat]
      BY <2>1, <3>1, <3>2
    <3> QED
      BY <2>1, <3>1, <3>3
  <2>4. WalkTyped'
    BY <1>1, <1>6, <2>2, <2>3, NothingTyped DEF WalkTyped
  <2> QED
    BY <1>1, <1>6, <2>4 DEF WalkInv, Unlabelled, TurnByTurn, NoPath, Before, Moving
<1> QED
  BY <1>3, <1>4, <1>5, <1>6 DEF Generate

LEMMA WalkKept == ASSUME WalkInv, [Next]_vars PROVE WalkInv'
<1> USE DEF past, command, static, setup, walk, Before, Moving
<1>1. CASE RunInit
  <2>1. ResetWalk /\ model' \in Models /\ pc' # "modify"
    BY <1>1 DEF RunInit, WalkInv, WalkTyped
  <2> QED
    BY <2>1, ResetTyped
<1>2. CASE MakeBackupDir \/ CopyConfig \/ CopyFixtures \/ RemoveConfig \/ RemoveFixtures
  <2>1. UNCHANGED <<walk, model>> /\ pc \in Before /\ pc' # "modify"
    BY <1>2 DEF MakeBackupDir, CopyConfig, CopyFixtures, RemoveConfig, RemoveFixtures, Return
  <2> QED
    BY <2>1, WalkUntouched
<1>3. CASE BuildImages \/ StartContainer \/ OutOfAttempts \/ CheckHealth
  <2>1. UNCHANGED <<walk, model>> /\ pc \in Before /\ pc' # "modify"
    BY <1>3 DEF BuildImages, StartContainer, OutOfAttempts, CheckHealth, Return
  <2> QED
    BY <2>1, WalkUntouched
<1>4. CASE CreateFixtures
  <2>1. /\ pc = "mkdir" /\ pc' \in {"discover", "clean"} /\ path' \in {path, Root}
        /\ UNCHANGED <<model, stack, discovered, kept, tests, usedNames>>
    BY <1>4 DEF CreateFixtures, Fail
  <2>2. WalkTyped'
    BY <2>1, NothingTyped DEF WalkInv, WalkTyped
  <2>3. Unlabelled'
    BY <2>1 DEF WalkInv, Unlabelled, Root, NoPath
  <2>4. TurnByTurn'
    BY <2>1 DEF WalkInv, TurnByTurn
  <2> QED
    BY <2>2, <2>3, <2>4 DEF WalkInv
<1>5. CASE Discover \/ DiscoverNext
  BY <1>5, DiscoverTyped, BranchTyped
<1>6. CASE EndDiscovery \/ InteractiveModify
  BY <1>6, EndDiscoveryTyped, ModifyTyped
<1>7. CASE Generate \/ GenerateNext
  BY <1>7, GenerateTyped, BranchTyped
<1>8. CASE EndGeneration \/ WriteTestConfig \/ CleanupQaWarmup
  <2>1. UNCHANGED <<walk, model>> /\ pc' \in {"write", "clean", "tests", "end"}
    BY <1>8 DEF EndGeneration, WriteTestConfig, CleanupQaWarmup, Return, Fail
  <2> QED
    BY <2>1, WalkUntouched
<1>9. CASE RunTemplateTests \/ OfferBackup \/ StackOverflow \/ Kill
  <2>1. UNCHANGED <<walk, model>> /\ pc' \in {"ask", "end"}
    BY <1>9 DEF RunTemplateTests, OfferBackup, StackOverflow, Kill, Return
  <2> QED
    BY <2>1, WalkUntouched
<1>10. CASE Exit
  <2>1. ResetWalk /\ model' \in Models /\ pc' # "modify"
    BY <1>10 DEF Exit, WalkInv, WalkTyped
  <2> QED
    BY <2>1, ResetTyped
<1>11. CASE Finished \/ UNCHANGED vars
  <2>1. UNCHANGED <<walk, model, pc>>
    BY <1>11 DEF Finished, vars
  <2> QED
    BY <2>1, WalkUntouched
<1> QED
  BY <1>1, <1>2, <1>3, <1>4, <1>5, <1>6, <1>7, <1>8, <1>9, <1>10, <1>11 DEF Next, Step

LEMMA WalkInitially == Init => WalkInv
<1> SUFFICES ASSUME Init PROVE WalkInv
  OBVIOUS
<1>1. kept \in [{} -> Branches] /\ usedNames \in [{} -> Nat]
  BY DEF Init
<1>2. kept \in UNION {[Q -> Branches] : Q \in SUBSET Question}
      /\ usedNames \in UNION {[N -> Nat] : N \in SUBSET Names}
  BY <1>1
<1>3. WalkTyped
  <2>1. model \in Models /\ path = NoPath /\ stack = <<>> /\ discovered = <<>> /\ tests = <<>>
    BY DEF Init
  <2>2. path \in Path
    BY <2>1, NothingTyped
  <2>3. stack \in Seq(Frame) /\ discovered \in Seq(Finding) /\ tests \in Seq(Test)
    BY <2>1
  <2> QED
    BY <1>2, <2>1, <2>2, <2>3 DEF WalkTyped
<1>4. Unlabelled /\ TurnByTurn
  BY <1>1 DEF Init, Unlabelled, NoPath, TurnByTurn
<1> QED
  BY <1>3, <1>4 DEF WalkInv

-----------------------------------------------------------------------------
Images == {"blob", "template"}

FlagsTyped ==
    /\ failed \in BOOLEAN /\ saved \in BOOLEAN /\ interactive \in BOOLEAN
    /\ consent \in BOOLEAN /\ quick \in BOOLEAN

DockerTyped ==
    /\ container \in {"none", "running"} /\ images \subseteq Images
    /\ attempt \in 0..Attempts
    /\ outcome \in {"none", "running", "done", "error", "killed"}
    /\ leak \in {"no", "refused", "health", "killed"}

CommandTyped == FlagsTyped /\ DockerTyped

LEMMA CommandKept == ASSUME CommandTyped, [Next]_vars PROVE CommandTyped'
<1> USE DEF CommandTyped, FlagsTyped, DockerTyped, Images, Attempts, command, docker, static, setup, past
<1>1. CASE RunInit \/ Exit
  <2>1. /\ container' = "none" /\ images' = {} /\ attempt' = 0 /\ leak' = "no"
        /\ outcome' \in {"none", "running"} /\ UNCHANGED <<consent, quick>>
    BY <1>1 DEF RunInit, Exit
  <2>2. failed' = FALSE /\ saved' \in BOOLEAN /\ interactive' \in BOOLEAN
    BY <1>1 DEF RunInit, Exit
  <2>3. FlagsTyped'
    BY <2>1, <2>2
  <2>4. DockerTyped'
    BY <2>1
  <2> QED
    BY <2>3, <2>4
<1>2. CASE MakeBackupDir \/ CopyConfig \/ CopyFixtures
  <2>1. /\ quick' \in {quick, TRUE} /\ outcome' \in {outcome, "error"}
        /\ UNCHANGED <<docker, attempt, failed, saved, interactive, consent, leak>>
    BY <1>2 DEF MakeBackupDir, CopyConfig, CopyFixtures, Return
  <2>2. quick' \in BOOLEAN
    BY <2>1
  <2> QED
    BY <2>1, <2>2
<1>3. CASE RemoveConfig \/ RemoveFixtures
  <2>1. /\ outcome' \in {outcome, "error"}
        /\ UNCHANGED <<container, images, attempt, failed, saved, interactive, consent, quick, leak>>
    BY <1>3 DEF RemoveConfig, RemoveFixtures, Return
  <2> QED
    BY <2>1
<1>4. CASE BuildImages \/ OutOfAttempts
  <2>1. /\ outcome' \in {outcome, "error"} /\ images' \in {images, Images, {}, {"blob"}}
        /\ UNCHANGED <<container, attempt, failed, saved, interactive, consent, quick, leak>>
    BY <1>4 DEF BuildImages, OutOfAttempts, Return
  <2> QED
    BY <2>1
<1>5. CASE StartContainer
  <2>1. /\ attempt' \in {attempt + 1, 0} /\ attempt < Attempts /\ quick' \in {quick, FALSE}
        /\ container' \in {container, "running"}
        /\ UNCHANGED <<images, failed, outcome, saved, interactive, consent, leak>>
    BY <1>5 DEF StartContainer
  <2>2. quick' \in BOOLEAN
    BY <2>1
  <2> QED
    BY <2>1, <2>2
<1>13. CASE CheckHealth
  <2>1. /\ outcome' \in {outcome, "error"} /\ leak' \in {leak, "health"}
        /\ UNCHANGED <<container, images, attempt, failed, saved, interactive, consent, quick>>
    BY <1>13 DEF CheckHealth, Return
  <2> QED
    BY <2>1
<1>6. CASE CreateFixtures \/ WriteTestConfig
  <2>1. failed' \in {failed, TRUE} /\ UNCHANGED <<docker, attempt, saved, interactive, consent, quick, leak, outcome>>
    BY <1>6 DEF CreateFixtures, WriteTestConfig, Fail
  <2>2. failed' \in BOOLEAN
    BY <2>1
  <2> QED
    BY <2>1, <2>2
<1>7. CASE Discover \/ DiscoverNext \/ EndDiscovery \/ InteractiveModify
  <2>1. failed' \in {failed, TRUE} /\ UNCHANGED <<docker, attempt, saved, interactive, consent, quick, leak, outcome>>
    BY <1>7 DEF Discover, DiscoverNext, EndDiscovery, InteractiveModify, Fail
  <2>2. failed' \in BOOLEAN
    BY <2>1
  <2> QED
    BY <2>1, <2>2
<1>8. CASE Generate \/ GenerateNext \/ EndGeneration
  <2>1. failed' \in {failed, TRUE} /\ UNCHANGED <<docker, attempt, saved, interactive, consent, quick, leak, outcome>>
    BY <1>8 DEF Generate, GenerateNext, EndGeneration, Fail
  <2>2. failed' \in BOOLEAN
    BY <2>1
  <2> QED
    BY <2>1, <2>2
<1>9. CASE CleanupQaWarmup
  BY <1>9 DEF CleanupQaWarmup, Return
<1>10. CASE RunTemplateTests \/ OfferBackup
  <2>1. /\ outcome' \in {outcome, "done", "error"} /\ consent' \in {consent, TRUE}
        /\ UNCHANGED <<container, images, attempt, failed, saved, interactive, quick, leak>>
    BY <1>10 DEF RunTemplateTests, OfferBackup, Return
  <2>2. consent' \in BOOLEAN
    BY <2>1
  <2> QED
    BY <2>1, <2>2
<1>11. CASE StackOverflow \/ Kill
  BY <1>11 DEF StackOverflow, Kill, Return
<1>12. CASE Finished \/ UNCHANGED vars
  <2>1. UNCHANGED <<container, images, attempt, failed, outcome, saved, interactive, consent, quick, leak>>
    BY <1>12 DEF Finished, vars
  <2> QED
    BY <2>1
<1> QED
  BY <1>1, <1>2, <1>3, <1>4, <1>5, <1>6, <1>7, <1>8, <1>9, <1>10, <1>11, <1>12, <1>13
  DEF Next, Step

LEMMA TypesTogether == DiskInv /\ WalkInv /\ CommandTyped => TypeOK
<1> SUFFICES ASSUME DiskInv, WalkInv, CommandTyped PROVE TypeOK
  OBVIOUS
<1>1. path.answers \in Answers /\ path.labels \in Branches /\ path.live \in BOOLEAN
  BY DEF WalkInv, WalkTyped, Path
<1>2. \A q \in DOMAIN kept : kept[q] \in Branches
  BY DEF WalkInv, WalkTyped
<1>3. \A i \in DOMAIN tests : tests[i].answers \in Answers
  <2>1. \A i \in DOMAIN tests : tests[i] \in Test
    BY DEF WalkInv, WalkTyped
  <2> QED
    BY <2>1 DEF Test
<1>4. config \in Artefact /\ fixtures \in Artefact
      /\ backups \in Seq([config : Artefact, fixtures : Artefact])
  BY DEF DiskInv, DiskTyped, Backup
<1>5. \A v \in {failed, saved, interactive, consent, quick, path.live} : v \in BOOLEAN
  BY <1>1 DEF CommandTyped, FlagsTyped
<1> QED
  BY <1>1, <1>2, <1>3, <1>4, <1>5 DEF TypeOK, CommandTyped, DockerTyped, Images

\* Every variable keeps its type, however deep the walk and whatever the template
\* offers; what it asks next and what the user enters are among its questions and
\* values.
THEOREM TypeCorrect == Spec => []TypeOK
<1>1. Init => DiskInv /\ WalkInv /\ CommandTyped
  <2>1. Init => CommandTyped
    <3> SUFFICES ASSUME Init PROVE CommandTyped
      OBVIOUS
    <3>1. failed = FALSE /\ saved = FALSE /\ interactive = FALSE /\ consent = FALSE /\ quick = FALSE
      BY DEF Init
    <3>2. container = "none" /\ images = {} /\ attempt = 0 /\ outcome = "none" /\ leak = "no"
      BY DEF Init
    <3>3. FlagsTyped
      BY <3>1 DEF FlagsTyped
    <3>4. DockerTyped
      BY <3>2 DEF DockerTyped, Images, Attempts
    <3> QED
      BY <3>3, <3>4 DEF CommandTyped
  <2> QED
    BY <2>1, InitInitially, WalkInitially
<1>2. DiskInv /\ WalkInv /\ CommandTyped /\ [Next]_vars => (DiskInv /\ WalkInv /\ CommandTyped)'
  BY DiskKept, WalkKept, CommandKept
<1>3. DiskInv /\ WalkInv /\ CommandTyped => TypeOK
  BY TypesTogether
<1> QED
  BY <1>1, <1>2, <1>3, PTL DEF Spec

-----------------------------------------------------------------------------
(***************************************************************************)
(* No two tests have the same name.  A name that is not shortened tells    *)
(* which base it was made of and with which number, if no label of a value *)
(* reads as one with a number.                                             *)
(***************************************************************************)
PlainLabels == \A v \in Value : PieceOf[v].tail = <<>>

Plain == {name \in Names : \A i \in DOMAIN name : name[i].tail = <<>>}

Numbered(base, k) == IF k = 0 THEN base ELSE WithSuffix(base, k)

NamesInv ==
    /\ DOMAIN usedNames \subseteq Plain
    /\ \A i \in DOMAIN tests :
          \/ Shortened(tests[i].name)
          \/ \E base \in DOMAIN usedNames, k \in Nat :
                k < usedNames[base] /\ tests[i].name = Numbered(base, k)
    /\ OneSnapshotPerTest

LEMMA SuffixAdds ==
    ASSUME NEW name \in Names, NEW n \in Nat
    PROVE  LET last == Len(name)
               new  == WithSuffix(name, n)
           IN /\ last \in 1..last /\ DOMAIN name = 1..last /\ DOMAIN new = 1..last
              /\ \A i \in 1..last : new[i].stem = name[i].stem
              /\ \A i \in 1..last : i # last => new[i] = name[i]
              /\ new[last].tail = Append(name[last].tail, n)
<1> DEFINE last == Len(name)
           new  == WithSuffix(name, n)
<1>1. name \in Seq(Piece) /\ last \in Nat \ {0} /\ DOMAIN name = 1..last /\ last \in 1..last
  BY DEF Names
<1>2. name[last] \in Piece
  BY <1>1
<1>3. new = [name EXCEPT ![last] = [name[last] EXCEPT !.tail = Append(name[last].tail, n)]]
  BY <1>1 DEF WithSuffix
<1>4. DOMAIN new = 1..last /\ \A i \in 1..last : i # last => new[i] = name[i]
  BY <1>1, <1>3
<1>5. new[last] = [name[last] EXCEPT !.tail = Append(name[last].tail, n)]
  BY <1>1, <1>3
<1>6. new[last].stem = name[last].stem /\ new[last].tail = Append(name[last].tail, n)
  BY <1>2, <1>5 DEF Piece
<1> QED
  BY <1>1, <1>4, <1>6

\* A plain name and a number are read off the name made of them.
LEMMA NumberRead ==
    ASSUME NEW b \in Plain, NEW c \in Plain, NEW k \in Nat, NEW l \in Nat,
           Numbered(b, k) = Numbered(c, l)
    PROVE  b = c /\ k = l
<1>1. ASSUME NEW name \in Plain, NEW j \in Nat
      PROVE  /\ Len(name) \in 1..Len(name) /\ DOMAIN name = 1..Len(name)
             /\ DOMAIN Numbered(name, j) = 1..Len(name) /\ Len(name) \in Nat
             /\ \A i \in 1..Len(name) : Numbered(name, j)[i].stem = name[i].stem
             /\ \A i \in 1..Len(name) : name[i] \in Piece /\ name[i].tail = <<>>
             /\ Numbered(name, j)[Len(name)].tail = IF j = 0 THEN <<>> ELSE <<j>>
  <2>1. /\ name \in Names /\ name \in Seq(Piece) /\ Len(name) \in Nat \ {0}
        /\ DOMAIN name = 1..Len(name) /\ Len(name) \in 1..Len(name)
        /\ \A i \in 1..Len(name) : name[i] \in Piece /\ name[i].tail = <<>>
    BY DEF Plain, Names
  <2>2. CASE j = 0
    BY <2>1, <2>2 DEF Numbered
  <2>3. CASE j # 0
    <3>1. Append(<<>>, j) = <<j>>
      OBVIOUS
    <3> QED
      BY <2>1, <2>3, <3>1, SuffixAdds DEF Numbered
  <2> QED
    BY <2>2, <2>3
<1> DEFINE r == Numbered(b, k)
<1>2. /\ Len(b) \in 1..Len(b) /\ DOMAIN r = 1..Len(b) /\ Len(b) \in Nat
      /\ \A i \in 1..Len(b) : r[i].stem = b[i].stem /\ b[i] \in Piece /\ b[i].tail = <<>>
      /\ r[Len(b)].tail = IF k = 0 THEN <<>> ELSE <<k>>
  BY <1>1
<1>3. /\ Len(c) \in 1..Len(c) /\ DOMAIN r = 1..Len(c) /\ Len(c) \in Nat
      /\ \A i \in 1..Len(c) : r[i].stem = c[i].stem /\ c[i] \in Piece /\ c[i].tail = <<>>
      /\ r[Len(c)].tail = IF l = 0 THEN <<>> ELSE <<l>>
  <2>1. r = Numbered(c, l)
    OBVIOUS
  <2> HIDE DEF r
  <2> QED
    BY <1>1, <2>1
<1> HIDE DEF r
<1>4. Len(b) = Len(c)
  BY <1>2, <1>3
<1>5. k = l
  <2>1. (IF k = 0 THEN <<>> ELSE <<k>>) = (IF l = 0 THEN <<>> ELSE <<l>>)
    BY <1>4, <1>2, <1>3
  <2>2. \A j \in Nat : <<j>> # <<>> /\ Len(<<j>>) = 1 /\ <<j>>[1] = j
    OBVIOUS
  <2> QED
    BY <2>1, <2>2
<1>6. \A i \in 1..Len(b) : b[i] = c[i]
  <2> TAKE i \in 1..Len(b)
  <2>1. b[i].stem = c[i].stem /\ b[i].tail = c[i].tail
    BY <1>4, <1>2, <1>3
  <2>2. b[i] \in Piece /\ c[i] \in Piece
    BY <1>4, <1>2, <1>3
  <2> QED
    BY <2>1, <2>2 DEF Piece
<1>7. b \in Seq(Piece) /\ c \in Seq(Piece)
  BY DEF Plain, Names
<1>8. b = c
  BY <1>4, <1>6, <1>7
<1> QED
  BY <1>5, <1>8

\* What a test is called is shortened, or the name of its answers with the number
\* of the tests before that have the same.
LEMMA NameGiven ==
    ASSUME PlainLabels, WalkTyped, NEW labels \in Branches, labels # <<>>
    PROVE  /\ BaseName(labels) \in Plain
           /\ \/ Shortened(GenerateTestName(labels))
              \/ GenerateTestName(labels) = Numbered(BaseName(labels), TimesUsed(BaseName(labels)))
<1> DEFINE full  == FullName(labels)
           base  == BaseName(labels)
           count == TimesUsed(BaseName(labels))
           short == Truncated(full, MaxPieces - 1)
<1>1. full \in Names /\ base \in Names /\ count \in Nat /\ GenerateTestName(labels) \in Names
  BY NamesTyped
<1>2. MaxPieces \in Nat \ {0} /\ MaxPieces - 1 \in Nat \ {0}
  BY LimitAssumption
<1>3. full \in Plain
  <2>1. labels \in Seq(Value) /\ DOMAIN labels = 1..Len(labels)
    BY DEF Branches
  <2>2. full = [i \in DOMAIN labels |-> PieceOf[labels[i]]]
    BY DEF FullName
  <2> HIDE DEF full
  <2>3. ASSUME NEW i \in DOMAIN full PROVE full[i].tail = <<>>
    <3>1. i \in DOMAIN labels /\ labels[i] \in Value
      BY <2>1, <2>2, <2>3
    <3> QED
      BY <2>2, <3>1 DEF PlainLabels
  <2> QED
    BY <1>1, <2>3 DEF Plain, full
<1> HIDE DEF full
<1>4. base = Truncated(full, MaxPieces)
  BY DEF BaseName, full
<1>5. base \in Plain
  <2>1. CASE Len(full) <= MaxPieces
    BY <1>3, <1>4, <2>1 DEF Truncated
  <2>2. CASE ~(Len(full) <= MaxPieces)
    <3> DEFINE start == SubSeq(full, 1, MaxPieces - 1)
    <3>1. full \in Seq(Piece) /\ Len(full) \in Nat /\ \A i \in 1..Len(full) : full[i].tail = <<>>
      BY <1>3 DEF Plain, Names
    <3>2. /\ Len(start) = MaxPieces - 1 /\ start \in Seq(Piece)
          /\ \A i \in 1..(MaxPieces - 1) : start[i] = full[i] /\ i \in 1..Len(full)
      BY <1>2, <2>2, <3>1
    <3> HIDE DEF start
    <3>3. base = Append(start, Ellipsis)
      BY <1>4, <2>2 DEF Truncated, start
    <3>4. DOMAIN base = 1..MaxPieces /\ base[MaxPieces] = Ellipsis
          /\ \A i \in 1..(MaxPieces - 1) : base[i] = start[i]
      BY <1>2, <3>2, <3>3
    <3>5. Ellipsis.tail = <<>>
      BY DEF Ellipsis
    <3>6. ASSUME NEW i \in DOMAIN base PROVE base[i].tail = <<>>
      <4>1. i = MaxPieces \/ i \in 1..(MaxPieces - 1)
        BY <1>2, <3>4
      <4> QED
        BY <3>1, <3>2, <3>4, <3>5, <4>1
    <3> QED
      BY <1>1, <3>6 DEF Plain
  <2> QED
    BY <2>1, <2>2
<1> HIDE DEF base
<1>6. GenerateTestName(labels) = IF count = 0 THEN base ELSE WithSuffix(short, count)
  BY DEF GenerateTestName, full, base
<1>7. short \in Names
  BY <1>1, <1>2, TruncatedTyped
<1> HIDE DEF short, count
<1>8. Shortened(short) /\ count # 0 => Shortened(GenerateTestName(labels))
  <2> SUFFICES ASSUME Shortened(short), count # 0 PROVE Shortened(WithSuffix(short, count))
    BY <1>6
  <2>1. PICK i \in DOMAIN short : short[i].stem = Ellipsis.stem
    BY DEF Shortened
  <2>2. i \in DOMAIN WithSuffix(short, count) /\ WithSuffix(short, count)[i].stem = short[i].stem
    <3>1. count \in Nat
      BY <1>1 DEF count
    <3> QED
      BY <1>7, <2>1, <3>1, SuffixAdds
  <2> QED
    BY <2>1, <2>2 DEF Shortened
<1>9. \/ Shortened(GenerateTestName(labels))
      \/ GenerateTestName(labels) = Numbered(base, count)
  <2>1. CASE count = 0
    BY <1>6, <2>1 DEF Numbered
  <2>2. CASE count # 0 /\ Len(full) <= MaxPieces - 1
    <3>1. Len(full) <= MaxPieces
      BY <1>1, <1>2, <2>2 DEF Names
    <3>2. short = full /\ base = full
      BY <1>1, <1>2, <1>4, <2>2, <3>1, TruncatedTyped DEF short
    <3> QED
      BY <1>6, <2>2, <3>2 DEF Numbered
  <2>3. CASE count # 0 /\ ~(Len(full) <= MaxPieces - 1)
    <3>1. Shortened(short)
      BY <1>1, <1>2, <2>3, TruncatedTyped DEF short
    <3> QED
      BY <1>8, <2>3, <3>1
  <2> QED
    BY <2>1, <2>2, <2>3
<1> QED
  BY <1>5, <1>9 DEF base, count

\* A test that is added has a name of its own.
LEMMA NameAdded ==
    ASSUME PlainLabels, WalkInv, NamesInv, path.labels # <<>>,
           tests' = Append(tests, [name    |-> GenerateTestName(path.labels),
                                   answers |-> path.answers,
                                   det     |-> path.det]),
           usedNames' = [n \in DOMAIN usedNames \cup {BaseName(path.labels)} |->
                            IF n = BaseName(path.labels) THEN TimesUsed(BaseName(path.labels)) + 1
                            ELSE usedNames[n]]
    PROVE  NamesInv'
<1> DEFINE base  == BaseName(path.labels)
           count == TimesUsed(BaseName(path.labels))
           name  == GenerateTestName(path.labels)
           m     == Len(tests)
<1>1. WalkTyped /\ path.labels \in Branches /\ m \in Nat /\ DOMAIN tests = 1..m
  BY DEF WalkInv, WalkTyped, Path
<1>2. /\ base \in Plain /\ count \in Nat
      /\ Shortened(name) \/ name = Numbered(base, count)
  BY <1>1, NameGiven, NamesTyped
<1>3. \A n \in DOMAIN usedNames : n = base => usedNames[n] = count
  BY DEF TimesUsed
<1>4. /\ DOMAIN tests' = 1..(m + 1) /\ tests'[m + 1].name = name
      /\ \A i \in 1..m : tests'[i] = tests[i]
  <2> DEFINE t == [name |-> name, answers |-> path.answers, det |-> path.det]
  <2>1. t.name = name /\ tests' = Append(tests, t)
    OBVIOUS
  <2> HIDE DEF t, name
  <2>2. tests \in Seq(Test)
    BY <1>1 DEF WalkTyped
  <2> QED
    BY <2>1, <2>2
<1>5. /\ DOMAIN usedNames' = DOMAIN usedNames \cup {base} /\ usedNames'[base] = count + 1
      /\ \A n \in DOMAIN usedNames : n # base => usedNames'[n] = usedNames[n]
  OBVIOUS
<1> HIDE DEF base, count, name, m
<1>6. DOMAIN usedNames' \subseteq Plain
  BY <1>2, <1>5 DEF NamesInv
<1>7. ASSUME NEW i \in 1..m
      PROVE  \/ Shortened(tests[i].name)
             \/ \E n \in DOMAIN usedNames, k \in Nat : k < usedNames[n] /\ tests[i].name = Numbered(n, k)
  BY <1>1 DEF NamesInv
<1>8. ASSUME NEW i \in DOMAIN tests'
      PROVE  \/ Shortened(tests'[i].name)
             \/ \E n \in DOMAIN usedNames', k \in Nat : k < usedNames'[n] /\ tests'[i].name = Numbered(n, k)
  <2>1. CASE i = m + 1
    <3>1. count < count + 1
      BY <1>2
    <3> QED
      BY <1>2, <1>4, <1>5, <2>1, <3>1
  <2>2. CASE i \in 1..m /\ ~Shortened(tests[i].name)
    <3>1. PICK n \in DOMAIN usedNames, k \in Nat : k < usedNames[n] /\ tests[i].name = Numbered(n, k)
      BY <1>7, <2>2
    <3>2. n \in DOMAIN usedNames' /\ k < usedNames'[n]
      BY <1>2, <1>3, <1>5, <3>1
    <3> QED
      BY <1>4, <2>2, <3>1, <3>2
  <2>3. CASE i \in 1..m /\ Shortened(tests[i].name)
    BY <1>4, <2>3
  <2>4. i = m + 1 \/ i \in 1..m
    BY <1>1, <1>4 DEF m
  <2> QED
    BY <2>1, <2>2, <2>3, <2>4
<1>9. ASSUME NEW i \in 1..m, tests[i].name = name PROVE Shortened(name)
  <2> SUFFICES ASSUME ~Shortened(name) PROVE FALSE
    OBVIOUS
  <2>1. name = Numbered(base, count)
    BY <1>2
  <2>2. PICK n \in DOMAIN usedNames, k \in Nat : k < usedNames[n] /\ tests[i].name = Numbered(n, k)
    BY <1>7, <1>9
  <2>3. n \in Plain /\ Numbered(n, k) = Numbered(base, count)
    BY <1>9, <2>1, <2>2 DEF NamesInv
  <2>4. n = base /\ k = count
    BY <1>2, <2>2, <2>3, NumberRead
  <2> QED
    BY <1>2, <1>3, <2>2, <2>4
<1>10. OneSnapshotPerTest'
  <2> SUFFICES ASSUME NEW i \in DOMAIN tests', NEW j \in DOMAIN tests', i # j,
                      tests'[i].name = tests'[j].name
               PROVE  Shortened(tests'[i].name)
    BY DEF OneSnapshotPerTest, Shortened
  <2>1. CASE i \in 1..m /\ j \in 1..m
    BY <1>1, <1>4, <2>1 DEF NamesInv, OneSnapshotPerTest
  <2>2. CASE i = m + 1 \/ j = m + 1
    <3>1. i \in 1..m \/ j \in 1..m
      BY <1>1, <1>4, <2>2 DEF m
    <3> QED
      BY <1>4, <1>9, <2>2, <3>1
  <2> QED
    BY <1>1, <1>4, <2>1, <2>2
<1> QED
  BY <1>6, <1>8, <1>10 DEF NamesInv, Shortened

LEMMA NamesKept ==
    ASSUME PlainLabels, WalkInv, NamesInv, [Next]_vars
    PROVE  NamesInv'
<1> USE DEF past, command, static, setup, walk
<1>1. CASE UNCHANGED <<tests, usedNames>>
  BY <1>1 DEF NamesInv, OneSnapshotPerTest
<1>2. CASE ResetWalk
  BY <1>2 DEF ResetWalk, NamesInv, OneSnapshotPerTest
<1>3. CASE Generate /\ ~UNCHANGED <<tests, usedNames>>
  <2>1. Reply = End
    BY <1>3 DEF Generate
  <2>2. path.labels # <<>>
    <3>1. path.labels = <<>> => path.answers = Nothing
      BY DEF WalkInv, Unlabelled
    <3>2. path.answers = Nothing => Reply = First
      BY ReplyTyped, NothingTyped DEF Reply, WalkInv, WalkTyped
    <3>3. First # End
      BY TemplateAssumption
    <3> QED
      BY <2>1, <3>1, <3>2, <3>3
  <2>3. /\ tests' = Append(tests, [name    |-> GenerateTestName(path.labels),
                                   answers |-> path.answers,
                                   det     |-> path.det])
        /\ usedNames' = [n \in DOMAIN usedNames \cup {BaseName(path.labels)} |->
                            IF n = BaseName(path.labels) THEN TimesUsed(BaseName(path.labels)) + 1
                            ELSE usedNames[n]]
    BY <1>3 DEF Generate
  <2> QED
    BY <2>2, <2>3, NameAdded
<1>4. CASE RunInit \/ Exit
  BY <1>2, <1>4 DEF RunInit, Exit
<1>5. CASE MakeBackupDir \/ CopyConfig \/ CopyFixtures \/ RemoveConfig \/ RemoveFixtures
  BY <1>1, <1>5 DEF MakeBackupDir, CopyConfig, CopyFixtures, RemoveConfig, RemoveFixtures
<1>6. CASE BuildImages \/ StartContainer \/ OutOfAttempts \/ CheckHealth \/ CreateFixtures
  BY <1>1, <1>6 DEF BuildImages, StartContainer, OutOfAttempts, CheckHealth, CreateFixtures
<1>7. CASE Discover \/ DiscoverNext \/ EndDiscovery \/ InteractiveModify
  BY <1>1, <1>7 DEF Discover, DiscoverNext, EndDiscovery, InteractiveModify
<1>8. CASE GenerateNext \/ EndGeneration \/ WriteTestConfig \/ CleanupQaWarmup
  BY <1>1, <1>8 DEF GenerateNext, EndGeneration, WriteTestConfig, CleanupQaWarmup
<1>9. CASE RunTemplateTests \/ OfferBackup \/ StackOverflow \/ Kill
  BY <1>1, <1>9 DEF RunTemplateTests, OfferBackup, StackOverflow, Kill
<1>10. CASE Finished \/ UNCHANGED vars
  BY <1>1, <1>10 DEF Finished, vars
<1> QED
  BY <1>1, <1>3, <1>4, <1>5, <1>6, <1>7, <1>8, <1>9, <1>10 DEF Next, Step

\* No two tests get the same name, and so the same snapshot, but where it had to be
\* shortened, however the template is answered; as long as no label of an answer
\* reads as another with a number behind it.
THEOREM OneSnapshotPerTestAlways ==
    ASSUME PlainLabels
    PROVE  Spec => []OneSnapshotPerTest
<1>1. Init => WalkInv /\ NamesInv
  <2>1. Init => NamesInv
    BY DEF Init, NamesInv, OneSnapshotPerTest
  <2> QED
    BY <2>1, WalkInitially
<1>2. WalkInv /\ NamesInv /\ [Next]_vars => (WalkInv /\ NamesInv)'
  BY WalkKept, NamesKept
<1>3. WalkInv /\ NamesInv => OneSnapshotPerTest
  BY DEF NamesInv
<1> QED
  BY <1>1, <1>2, <1>3, PTL DEF Spec

-----------------------------------------------------------------------------
(***************************************************************************)
(* The tests are all the combinations.  First, the path that answers lead  *)
(* along, and what answers added to them do to it.                         *)
(***************************************************************************)
Answered(a) == {q \in Question : a[q] # None}
StopOf(a) == Position(a, Question)[Steps]
PathOf(a) == {Position(a, Question)[n] : n \in 0..Steps}
Partial(a) == Answered(a) \subseteq PathOf(a)
Extends(p, a) == \A q \in Question : a[q] # None => p[q] = a[q]

\* No question leads back to an earlier one.
LeadsForward ==
    \E rank \in [Question -> 1..Steps] :
        \A q \in Question, v \in Value, w \in Context :
            Follow[<<q, v, w>>] \in Question => rank[q] < rank[Follow[<<q, v, w>>]]

LEMMA StopTyped ==
    ASSUME NEW a \in Answers
    PROVE  /\ StopOf(a) \in Question \cup {End} /\ StopOf(a) \in PathOf(a)
           /\ First \in PathOf(a) /\ PathOf(a) \subseteq Question \cup {End}
<1>1. /\ Position(a, Question) \in [0..Steps -> Question \cup {End}] /\ Position(a, Question)[0] = First
      /\ 0 \in 0..Steps /\ Steps \in 0..Steps
  BY PositionFacts, StepsNat
<1> QED
  BY <1>1 DEF StopOf, PathOf

\* A question on the path that has no answer is where it stops.
LEMMA StopsWhereUnanswered ==
    ASSUME NEW a \in Answers, NEW q \in PathOf(a), q = End \/ a[q] = None
    PROVE  StopOf(a) = q
<1>1. PICK n \in 0..Steps : Position(a, Question)[n] = q
  BY DEF PathOf
<1>2. Onward(a, Question, q) = q
  BY DEF Onward
<1>3. Steps \in n..Steps
  BY StepsNat
<1> QED
  BY <1>1, <1>2, <1>3, PathStays DEF StopOf

\* Without an answer to the first question there is none to any.
LEMMA NothingYet ==
    ASSUME NEW a \in Answers, Partial(a), a[First] = None
    PROVE  a = Nothing /\ PathOf(a) = {First}
<1>1. Onward(a, Question, First) = First
  BY DEF Onward
<1>2. Position(a, Question)[0] = First /\ 0 \in 0..Steps
  BY PositionFacts, StepsNat
<1>3. \A m \in 0..Steps : Position(a, Question)[m] = First
  BY <1>1, <1>2, PathStays
<1>4. PathOf(a) = {First}
  BY <1>2, <1>3 DEF PathOf
<1>5. \A q \in Question : a[q] = None
  BY <1>4 DEF Partial, Answered
<1>6. a = Nothing
  BY <1>5 DEF Answers, Nothing
<1> QED
  BY <1>4, <1>6

\* With no way back the path stops at the end or at a question without answer.
LEMMA PathStops ==
    ASSUME LeadsForward, NEW a \in Answers, StopOf(a) # End
    PROVE  StopOf(a) \in Question /\ a[StopOf(a)] = None
<1> DEFINE P == Position(a, Question)
<1>1. /\ P \in [0..Steps -> Question \cup {End}] /\ P[0] = First
      /\ \A n \in 1..Steps : P[n] = Onward(a, Question, P[n - 1])
  BY PositionFacts
<1>2. P[Steps] # End
  BY DEF StopOf
<1>3. ASSUME NEW n \in 0..Steps, P[n] = End \/ a[P[n]] = None PROVE P[Steps] = P[n]
  <2>1. P[n] \in PathOf(a)
    BY DEF PathOf
  <2> QED
    BY <1>3, <2>1, StopsWhereUnanswered DEF StopOf
<1>4. PICK rank \in [Question -> 1..Steps] :
          \A q \in Question, v \in Value, w \in Context :
              Follow[<<q, v, w>>] \in Question => rank[q] < rank[Follow[<<q, v, w>>]]
  BY DEF LeadsForward
<1>5. ASSUME NEW q \in Question, a[q] # None, Onward(a, Question, q) \in Question
      PROVE  rank[q] < rank[Onward(a, Question, q)]
  <2>1. a[q] \in Value /\ a[First] \in Context
    BY <1>5, TemplateAssumption DEF Answers, Context
  <2>2. Onward(a, Question, q) = Follow[<<q, a[q], a[First]>>]
    BY <1>5, TemplateAssumption DEF Onward
  <2> QED
    BY <1>4, <1>5, <2>1, <2>2
<1> HIDE DEF P
<1> SUFFICES ASSUME P[Steps] = End \/ a[P[Steps]] # None PROVE FALSE
  <2>1. P[Steps] \in Question
    BY <1>1, <1>2, StepsNat
  <2> QED
    BY <1>2, <2>1 DEF StopOf, P
<1>6. \A n \in 0..Steps : P[n] \in Question /\ a[P[n]] # None
  <2> SUFFICES ASSUME NEW n \in 0..Steps PROVE P[n] \in Question /\ a[P[n]] # None
    OBVIOUS
  <2>1. P[n] \in Question \cup {End}
    BY <1>1
  <2>2. P[n] # End
    BY <1>2, <1>3
  <2>3. a[P[n]] # None
    BY <1>2, <1>3
  <2> QED
    BY ONLY <2>1, <2>2, <2>3
<1> DEFINE D == {n \in 0..Steps : rank[P[n]] < n + 1}
<1>7. D = {}
  <2> SUFFICES ASSUME D # {} PROVE FALSE
    OBVIOUS
  <2> D \in SUBSET Nat
    BY StepsNat
  <2>1. PICK n \in D : \A j \in D : n <= j
    BY LeastOf
  <2>2. n \in 0..Steps /\ P[n] \in Question /\ rank[P[n]] \in 1..Steps
    BY <1>6, <2>1
  <2>3. n # 0
    BY <2>1, <2>2, StepsNat
  <2>4. n \in 1..Steps /\ n - 1 \in 0..Steps /\ n - 1 \notin D
    BY <2>1, <2>2, <2>3, StepsNat
  <2>5. P[n - 1] \in Question /\ a[P[n - 1]] # None
    BY <1>6, <2>4
  <2>6. rank[P[n - 1]] \in 1..Steps /\ rank[P[n - 1]] >= n
    BY <2>4, <2>5, StepsNat
  <2>7. rank[P[n - 1]] < rank[P[n]]
    BY <1>1, <1>5, <2>2, <2>4, <2>5
  <2> QED
    BY <2>1, <2>2, <2>6, <2>7, StepsNat
<1>8. rank[P[Steps]] \in 1..Steps
  BY <1>6, StepsNat
<1> QED
  BY <1>7, <1>8, StepsNat

\* A template that looks only at what it has asked sees all answers if it has
\* asked for them.
LEMMA ReplyOf ==
    ASSUME NEW a \in Answers, model \in {"first", "sequence"}
    PROVE  PromptTemplate(a, Answered(a)) = StopOf(a)
<1> DEFINE S == Answered(a)
           P == Position(a, Question)
           R == Position(a, S)
           D == {n \in 0..Steps : R[n] # P[n]}
<1>1. /\ P \in [0..Steps -> Question \cup {End}] /\ P[0] = First /\ R[0] = First
      /\ \A n \in 1..Steps : P[n] = Onward(a, Question, P[n - 1]) /\ R[n] = Onward(a, S, R[n - 1])
  BY PositionFacts
<1>2. \A q \in Question \cup {End} : Onward(a, S, q) = Onward(a, Question, q)
  BY DEF Onward, Answered
<1> HIDE DEF P, R, S
<1>3. D = {}
  <2> SUFFICES ASSUME D # {} PROVE FALSE
    OBVIOUS
  <2> D \in SUBSET Nat
    BY StepsNat
  <2>1. PICK n \in D : \A j \in D : n <= j
    BY LeastOf
  <2>2. n \in 1..Steps /\ n - 1 \in 0..Steps /\ n - 1 \notin D
    BY <1>1, <2>1, StepsNat
  <2>3. R[n - 1] = P[n - 1] /\ P[n - 1] \in Question \cup {End}
    BY <1>1, <2>2
  <2> QED
    BY <1>1, <1>2, <2>1, <2>2, <2>3
<1>4. R[Steps] = P[Steps]
  BY <1>3, StepsNat
<1> QED
  BY <1>4 DEF PromptTemplate, StopOf, Steps, P, R, S

\* Where answers lead, more answers lead, too, and on from there.
LEMMA PathExtends ==
    ASSUME LeadsForward, NEW a \in Answers, NEW p \in Answers, Extends(p, a), Partial(a)
    PROVE  /\ PathOf(a) \subseteq PathOf(p)
           /\ StopOf(a) = End => StopOf(p) = End /\ PathOf(p) = PathOf(a)
<1> DEFINE P == Position(a, Question)
           R == Position(p, Question)
           L == StopOf(a)
           Hits == {n \in 0..Steps : P[n] = L}
<1>1. /\ P \in [0..Steps -> Question \cup {End}] /\ P[0] = First /\ R[0] = First
      /\ \A n \in 1..Steps : P[n] = Onward(a, Question, P[n - 1]) /\ R[n] = Onward(p, Question, R[n - 1])
  BY PositionFacts
<1>2. Hits \in SUBSET Nat /\ Hits # {}
  BY StepsNat DEF StopOf
<1>3. PICK h \in Hits : \A j \in Hits : h <= j
  BY <1>2, LeastOf
<1>4. h \in 0..Steps /\ P[h] = L /\ \A n \in 0..Steps : n < h => P[n] # L
  BY <1>3, StepsNat
<1>5. ASSUME NEW n \in 0..Steps, n < h PROVE P[n] \in Question /\ a[P[n]] # None
  <2>1. P[n] # L /\ P[n] \in PathOf(a) /\ P[n] \in Question \cup {End}
    BY <1>1, <1>4, <1>5 DEF PathOf
  <2> HIDE DEF P, L
  <2>2. P[n] # End /\ a[P[n]] # None
    BY <2>1, StopsWhereUnanswered DEF L
  <2> QED
    BY <2>1, <2>2
<1>6. ASSUME NEW n \in 0..Steps, n < h
      PROVE  Onward(p, Question, P[n]) = Onward(a, Question, P[n])
  <2>1. P[n] \in Question /\ a[P[n]] # None
    BY <1>5, <1>6
  <2>2. a[First] # None
    <3>1. 0 \in 0..Steps /\ 0 < h
      BY <1>4, <1>6, StepsNat
    <3> QED
      BY <1>1, <1>5, <3>1
  <2>3. p[P[n]] = a[P[n]] /\ p[First] = a[First]
    BY <2>1, <2>2, TemplateAssumption DEF Extends
  <2> QED
    BY <2>1, <2>3 DEF Onward
<1> DEFINE D == {n \in 0..h : R[n] # P[n]}
<1> HIDE DEF P, R, L, Hits
<1>7. D = {}
  <2> SUFFICES ASSUME D # {} PROVE FALSE
    OBVIOUS
  <2> D \in SUBSET Nat
    BY <1>4, StepsNat
  <2>1. PICK n \in D : \A j \in D : n <= j
    BY LeastOf
  <2>2. n \in 1..Steps /\ n - 1 \in 0..Steps /\ n - 1 \notin D /\ n - 1 \in 0..h /\ n - 1 < h
    BY <1>1, <1>4, <2>1, StepsNat
  <2>3. R[n - 1] = P[n - 1]
    BY <2>2
  <2> QED
    BY <1>1, <1>6, <2>1, <2>2, <2>3
<1>8. \A n \in 0..h : R[n] = P[n]
  BY <1>7
<1>9. h \in 0..h
  BY <1>4, StepsNat
<1>10. ASSUME NEW n \in 0..Steps PROVE \E m \in 0..h : P[n] = P[m]
  <2>1. CASE n <= h
    BY <1>4, <2>1, StepsNat
  <2>2. CASE ~(n <= h)
    <3>1. n \in h..Steps
      BY <1>4, <2>2, StepsNat
    <3>2. L = End \/ a[L] = None
      BY PathStops DEF L
    <3>3. Onward(a, Question, L) = L
      BY <3>2 DEF Onward
    <3>4. P[n] = L
      BY <1>4, <3>1, <3>3, PathStays DEF P
    <3> QED
      BY <1>4, <1>9, <3>4
  <2> QED
    BY <2>1, <2>2
<1>11. PathOf(a) \subseteq PathOf(p)
  <2> SUFFICES ASSUME NEW n \in 0..Steps PROVE P[n] \in PathOf(p)
    BY DEF PathOf, P
  <2>1. PICK m \in 0..h : P[n] = P[m]
    BY <1>10
  <2>2. m \in 0..Steps /\ R[m] = P[m]
    BY <1>4, <1>8, <2>1, StepsNat
  <2> QED
    BY <2>1, <2>2 DEF PathOf, R
<1>12. ASSUME L = End PROVE StopOf(p) = End /\ PathOf(p) = PathOf(a)
  <2>1. R[h] = End /\ Onward(p, Question, End) = End
    BY <1>4, <1>8, <1>9, <1>12 DEF Onward
  <2>2. \A m \in h..Steps : R[m] = End
    BY <1>4, <2>1, PathStays DEF R
  <2>3. StopOf(p) = End
    BY <1>4, <2>2, StepsNat DEF StopOf, R
  <2>4. ASSUME NEW n \in 0..Steps PROVE R[n] \in PathOf(a)
    <3>1. CASE n \in 0..h
      BY <1>8, <3>1 DEF PathOf, P
    <3>2. CASE n \in h..Steps
      BY <1>4, <1>12, <2>2, <3>2 DEF PathOf, P
    <3>3. n \in 0..h \/ n \in h..Steps
      BY <1>4, StepsNat
    <3> QED
      BY <3>1, <3>2, <3>3
  <2> QED
    BY <1>11, <2>3, <2>4 DEF PathOf, R
<1> QED
  BY <1>11, <1>12 DEF L

\* With B the values that are tried for each question: all answers to one path, and
\* answers on the way to that.
Full(B, p) ==
    /\ StopOf(p) = End /\ Answered(p) = PathOf(p) \ {End}
    /\ \A q \in Answered(p) : p[q] \in ToSet(B[q])

Led(B, a) ==
    /\ a \in Answers /\ Partial(a)
    /\ \A q \in Answered(a) : a[q] \in ToSet(B[q])

\* The answers a and one to q.
With(a, q, v) == [a EXCEPT ![q] = v]

LEMMA EndedIsFull ==
    ASSUME LeadsForward, NEW B, NEW a, Led(B, a), StopOf(a) = End
    PROVE  /\ Full(B, a)
           /\ \A p \in Answers : Full(B, p) /\ Extends(p, a) => p = a
<1>1. a \in Answers /\ Partial(a) /\ PathOf(a) \subseteq Question \cup {End}
  BY StopTyped DEF Led
<1>2. \A q \in PathOf(a) : q # End => a[q] # None
  BY <1>1, StopsWhereUnanswered
<1>3. Answered(a) = PathOf(a) \ {End}
  BY <1>1, <1>2, TemplateAssumption DEF Answered, Partial
<1>4. Full(B, a)
  BY <1>3 DEF Full, Led
<1>5. ASSUME NEW p \in Answers, Full(B, p), Extends(p, a) PROVE p = a
  <2>1. PathOf(p) = PathOf(a)
    BY <1>1, <1>5, PathExtends
  <2>2. Answered(p) = Answered(a)
    BY <1>3, <1>5, <2>1 DEF Full
  <2>3. \A q \in Question : p[q] = a[q]
    BY <1>5, <2>2 DEF Answered, Extends
  <2> QED
    BY <1>1, <2>3 DEF Answers
<1> QED
  BY <1>4, <1>5

\* An answer to the question at which they stop leads on.
LEMMA AnswerLeads ==
    ASSUME LeadsForward, NEW B, NEW a, Led(B, a), NEW q \in Question, q = StopOf(a),
           NEW v \in Value, v \in ToSet(B[q]), NEW e, e = With(a, q, v)
    PROVE  /\ Led(B, e) /\ Answered(e) = Answered(a) \cup {q} /\ Extends(e, a) /\ e[q] = v
           /\ \A r \in Question : r # q => e[r] = a[r]
<1>1. a \in Answers /\ a[q] = None /\ v # None
  BY PathStops, TemplateAssumption DEF Led
<1>2. e \in Answers /\ e[q] = v /\ \A r \in Question : r # q => e[r] = a[r]
  BY <1>1 DEF Answers, Context, With
<1>3. Answered(e) = Answered(a) \cup {q} /\ Extends(e, a)
  BY <1>1, <1>2 DEF Answered, Extends
<1>4. Partial(e)
  <2>1. PathOf(a) \subseteq PathOf(e) /\ q \in PathOf(a)
    BY <1>2, <1>3, PathExtends, StopTyped DEF Led
  <2> QED
    BY <1>3, <2>1 DEF Partial, Led
<1>5. \A r \in Answered(e) : e[r] \in ToSet(B[r])
  BY <1>2, <1>3 DEF Led, Answered
<1> QED
  BY <1>2, <1>3, <1>4, <1>5 DEF Led

\* Whoever has more answers has one to it.
LEMMA NextAnswered ==
    ASSUME LeadsForward, NEW B, NEW a, Led(B, a), NEW q \in Question, q = StopOf(a),
           NEW p \in Answers, Full(B, p), Extends(p, a)
    PROVE  \E v \in ToSet(B[q]) : Extends(p, With(a, q, v))
<1>1. a \in Answers /\ a[q] = None /\ q \in PathOf(a)
  BY PathStops, StopTyped, TemplateAssumption DEF Led
<1>2. q \in Answered(p)
  BY <1>1, PathExtends, TemplateAssumption DEF Led, Full
<1>3. p[q] \in ToSet(B[q])
  BY <1>2 DEF Full
<1>4. Extends(p, With(a, q, p[q]))
  BY <1>1 DEF Extends, Answers, With
<1> QED
  BY <1>3, <1>4

-----------------------------------------------------------------------------
(***************************************************************************)
(* What the second walk still has ahead of it, and what it has behind.     *)
(***************************************************************************)
AnswerOf(f, v) == With(f.from.answers, f.q, v)

\* A call that is under way is for the question at which its answers stop.
CallLed(B, f) ==
    /\ Led(B, f.from.answers) /\ f.from.live
    /\ f.from.det = Answered(f.from.answers) \cup {f.q}
    /\ f.q = StopOf(f.from.answers)
    /\ IsInjective(f.todo) /\ ToSet(f.todo) \subseteq ToSet(B[f.q])

\* The call f has led to the answers a by one of the branches it is through with.
Above(f, a) == a[f.q] # None /\ a[f.q] \notin ToSet(f.todo)

\* The path x and the calls s belong together.
Ordered(B, x, s) ==
    /\ x.live => /\ Led(B, x.answers) /\ x.det = Answered(x.answers)
                 /\ \A i \in DOMAIN s : Above(s[i], x.answers)
    /\ \A i \in DOMAIN s : CallLed(B, s[i])
    /\ \A i, j \in DOMAIN s : i < j => Above(s[i], s[j].from.answers)

AheadOfCalls(p, s) == \E i \in DOMAIN s : \E v \in ToSet(s[i].todo) : Extends(p, AnswerOf(s[i], v))

Ahead(p, x, s) == (x.live /\ Extends(p, x.answers)) \/ AheadOfCalls(p, s)

LEMMA HeadApart ==
    ASSUME NEW s \in Branches, s # <<>>, IsInjective(s)
    PROVE  /\ Head(s) \in Value /\ Tail(s) \in Branches /\ IsInjective(Tail(s))
           /\ ToSet(s) = {Head(s)} \cup ToSet(Tail(s)) /\ Head(s) \notin ToSet(Tail(s))
<1>1. s \in Seq(Value) /\ Len(s) \in Nat \ {0} /\ DOMAIN s = 1..Len(s)
  BY DEF Branches
<1>2. /\ Tail(s) \in Seq(Value) /\ DOMAIN Tail(s) = 1..(Len(s) - 1) /\ Head(s) = s[1]
      /\ \A i \in 1..(Len(s) - 1) : Tail(s)[i] = s[i + 1]
  BY <1>1
<1>3. \A i, j \in 1..Len(s) : s[i] = s[j] => i = j
  BY <1>1 DEF IsInjective
<1> DEFINE t == Tail(s)
<1> HIDE DEF t
<1>4. IsInjective(t)
  <2> SUFFICES ASSUME NEW i \in DOMAIN t, NEW j \in DOMAIN t, t[i] = t[j] PROVE i = j
    BY DEF IsInjective
  <2>1. i \in 1..(Len(s) - 1) /\ j \in 1..(Len(s) - 1) /\ s[i + 1] = s[j + 1]
    BY <1>2 DEF t
  <2>2. i + 1 \in 1..Len(s) /\ j + 1 \in 1..Len(s)
    BY <1>1, <2>1
  <2> QED
    BY <1>3, <2>1, <2>2
<1>5. \A i \in 1..Len(s) : i = 1 \/ (i - 1 \in 1..(Len(s) - 1) /\ s[i] = t[i - 1])
  BY <1>1, <1>2 DEF t
<1>6. ToSet(s) = {Head(s)} \cup ToSet(t)
  <2>1. \A i \in 1..(Len(s) - 1) : i + 1 \in 1..Len(s) /\ t[i] = s[i + 1]
    BY <1>1, <1>2 DEF t
  <2>2. 1 \in 1..Len(s) /\ DOMAIN t = 1..(Len(s) - 1)
    BY <1>1, <1>2 DEF t
  <2>3. ASSUME NEW v \in ToSet(s) PROVE v \in {Head(s)} \cup ToSet(t)
    <3>1. PICK i \in 1..Len(s) : v = s[i]
      BY <1>1 DEF ToSet
    <3> QED
      BY <1>2, <1>5, <2>2, <3>1 DEF ToSet
  <2>4. ASSUME NEW v \in ToSet(t) PROVE v \in ToSet(s)
    <3>1. PICK i \in 1..(Len(s) - 1) : v = t[i]
      BY <2>2 DEF ToSet
    <3> QED
      BY <1>1, <2>1, <3>1 DEF ToSet
  <2>5. Head(s) \in ToSet(s)
    BY <1>1, <1>2, <2>2 DEF ToSet
  <2> QED
    BY <2>3, <2>4, <2>5
<1>7. Head(s) \notin ToSet(t)
  <2> SUFFICES ASSUME NEW i \in 1..(Len(s) - 1), t[i] = s[1] PROVE FALSE
    BY <1>2 DEF ToSet, t
  <2>1. i + 1 \in 1..Len(s) /\ 1 \in 1..Len(s) /\ t[i] = s[i + 1] /\ i + 1 # 1
    BY <1>1, <1>2 DEF t
  <2> QED
    BY <1>3, <2>1
<1> QED
  BY <1>1, <1>2, <1>4, <1>6, <1>7 DEF Branches, t

\* The next branch is followed: what is ahead stays ahead.
LEMMA BranchAhead ==
    ASSUME LeadsForward, NEW B, NEW s \in Seq(Frame), s # <<>>, NEW x \in Path, ~x.live, Ordered(B, x, s),
           NEW top, top = s[Len(s)], top.todo # <<>>,
           NEW y, y.answers = AnswerOf(top, Head(top.todo)), y.det = top.from.det, y.live = top.from.live,
           NEW r, DOMAIN r = DOMAIN s, \A i \in DOMAIN s : i # Len(s) => r[i] = s[i],
           r[Len(s)].todo = Tail(top.todo), r[Len(s)].from = top.from, r[Len(s)].q = top.q
    PROVE  Ordered(B, y, r) /\ \A p : Ahead(p, y, r) <=> Ahead(p, x, s)
<1> DEFINE n == Len(s)
           v == Head(top.todo)
           a == top.from.answers
           e == AnswerOf(top, v)
<1>1. n \in Nat \ {0} /\ n \in 1..n /\ DOMAIN s = 1..n /\ top \in Frame
  OBVIOUS
<1>2. top.from \in Path /\ top.q \in Question /\ top.todo \in Branches /\ CallLed(B, top)
  BY <1>1 DEF Frame, Ordered
<1>3. /\ v \in Value /\ Tail(top.todo) \in Branches /\ IsInjective(Tail(top.todo))
      /\ ToSet(top.todo) = {v} \cup ToSet(Tail(top.todo)) /\ v \notin ToSet(Tail(top.todo))
  BY <1>2, HeadApart DEF CallLed
<1>4. /\ Led(B, e) /\ Answered(e) = Answered(a) \cup {top.q} /\ e[top.q] = v
      /\ \A q \in Question : q # top.q => e[q] = a[q]
  <2>1. /\ Led(B, a) /\ top.q = StopOf(a) /\ v \in ToSet(B[top.q])
        /\ top.q \in Question /\ v \in Value
    BY <1>2, <1>3 DEF CallLed
  <2> HIDE DEF a, v
  <2>2. e = With(a, top.q, v)
    BY DEF AnswerOf, a
  <2> HIDE DEF e
  <2> QED
    BY <2>1, <2>2, AnswerLeads
<1>5. y.answers = e
  OBVIOUS
<1>6. y.live /\ y.det = Answered(e)
  BY <1>2, <1>4, <1>5 DEF CallLed
<1>7. /\ DOMAIN r = 1..n /\ \A i \in 1..n : i # n => r[i] = s[i]
      /\ r[n].todo = Tail(top.todo) /\ r[n].from = top.from /\ r[n].q = top.q
  BY <1>1
<1> HIDE DEF n, v, e, a
<1>8. \A i \in 1..n : r[i].from = s[i].from /\ r[i].q = s[i].q /\ ToSet(r[i].todo) \subseteq ToSet(s[i].todo)
  BY <1>1, <1>3, <1>7 DEF n
<1>9. ASSUME NEW i \in 1..n PROVE CallLed(B, r[i])
  <2>1. CallLed(B, s[i])
    BY <1>1 DEF Ordered
  <2>2. IsInjective(r[i].todo)
    BY <1>3, <1>7, <2>1 DEF CallLed
  <2> QED
    BY <1>8, <2>1, <2>2 DEF CallLed
<1>10. ASSUME NEW i \in 1..n PROVE Above(r[i], e)
  <2>1. CASE i = n
    BY <1>3, <1>4, <1>7, <2>1, TemplateAssumption DEF Above
  <2>2. CASE i # n
    <3>1. i < n
      BY <1>1, <2>2
    <3>2. Above(s[i], a)
      BY <1>1, <3>1 DEF Ordered, a, n
    <3>3. a[top.q] = None
      BY <1>2, PathStops, TemplateAssumption DEF CallLed, Led, a
    <3>4. s[i].q \in Question /\ s[i].q # top.q
      <4>1. s[i] \in Frame
        BY <1>1
      <4> QED
        BY <3>2, <3>3, <4>1 DEF Above, Frame
    <3>5. e[s[i].q] = a[s[i].q]
      BY <1>4, <3>4
    <3> QED
      BY <1>7, <2>2, <3>2, <3>5 DEF Above
  <2> QED
    BY <2>1, <2>2
<1>11. ASSUME NEW i \in 1..n, NEW j \in 1..n, i < j PROVE Above(r[i], r[j].from.answers)
  <2>1. Above(s[i], s[j].from.answers)
    BY <1>1, <1>11 DEF Ordered
  <2> QED
    BY <1>8, <2>1 DEF Above
<1>12. Ordered(B, y, r)
  <2>1. Led(B, y.answers) /\ y.det = Answered(y.answers) /\ \A i \in DOMAIN r : Above(r[i], y.answers)
    BY <1>4, <1>5, <1>6, <1>7, <1>10
  <2>2. /\ \A i \in DOMAIN r : CallLed(B, r[i])
        /\ \A i, j \in DOMAIN r : i < j => Above(r[i], r[j].from.answers)
    BY <1>7, <1>9, <1>11
  <2> QED
    BY <2>1, <2>2 DEF Ordered
<1>13. ASSUME NEW p PROVE Ahead(p, y, r) <=> Ahead(p, x, s)
  <2>1. \A w : \A i \in 1..n : AnswerOf(r[i], w) = AnswerOf(s[i], w)
    BY <1>8 DEF AnswerOf
  <2>2. Ahead(p, y, r) <=> Extends(p, e) \/ AheadOfCalls(p, r)
    BY <1>5, <1>6 DEF Ahead
  <2>3. AheadOfCalls(p, r) => AheadOfCalls(p, s)
    BY <1>1, <1>7, <1>8, <2>1 DEF AheadOfCalls
  <2>4. Extends(p, e) => AheadOfCalls(p, s)
    BY <1>1, <1>3 DEF AheadOfCalls, e, n
  <2>5. AheadOfCalls(p, s) => Extends(p, e) \/ AheadOfCalls(p, r)
    <3> SUFFICES ASSUME NEW i \in 1..n, NEW w \in ToSet(s[i].todo), Extends(p, AnswerOf(s[i], w))
                 PROVE  Extends(p, e) \/ AheadOfCalls(p, r)
      BY <1>1 DEF AheadOfCalls
    <3>1. CASE w \in ToSet(r[i].todo)
      BY <1>7, <2>1, <3>1 DEF AheadOfCalls
    <3>2. CASE w \notin ToSet(r[i].todo)
      <4>1. i = n
        BY <1>7, <3>2
      <4>2. w = v
        BY <1>3, <1>7, <3>2, <4>1 DEF n
      <4> QED
        BY <4>1, <4>2 DEF e, n
    <3> QED
      BY <3>1, <3>2
  <2>6. Ahead(p, x, s) <=> AheadOfCalls(p, s)
    BY DEF Ahead
  <2> QED
    BY <2>2, <2>3, <2>4, <2>5, <2>6
<1> QED
  BY <1>12, <1>13

\* A call is over.
LEMMA ReturnAhead ==
    ASSUME NEW B, NEW s \in Seq(Frame), s # <<>>, NEW x \in Path, ~x.live, Ordered(B, x, s),
           NEW r, r = Front(s)
    PROVE  /\ Ordered(B, x, r)
           /\ \A p : Ahead(p, x, r) => Ahead(p, x, s)
           /\ s[Len(s)].todo = <<>> => \A p : Ahead(p, x, s) => Ahead(p, x, r)
<1> DEFINE n == Len(s)
<1>1. /\ n \in Nat \ {0} /\ DOMAIN s = 1..n /\ n \in 1..n
      /\ DOMAIN r = 1..(n - 1) /\ \A i \in 1..(n - 1) : i \in 1..n /\ r[i] = s[i]
  BY DEF Front
<1> HIDE DEF n
<1>2. Ordered(B, x, r)
  BY <1>1 DEF Ordered
<1>3. ASSUME NEW p, AheadOfCalls(p, r) PROVE AheadOfCalls(p, s)
  BY <1>1, <1>3 DEF AheadOfCalls
<1>4. ASSUME NEW p, s[n].todo = <<>>, AheadOfCalls(p, s) PROVE AheadOfCalls(p, r)
  <2>1. PICK i \in 1..n : \E v \in ToSet(s[i].todo) : Extends(p, AnswerOf(s[i], v))
    BY <1>1, <1>4 DEF AheadOfCalls
  <2>2. i # n
    BY <1>4, <2>1 DEF ToSet
  <2>3. i \in 1..(n - 1)
    BY <1>1, <2>1, <2>2
  <2> QED
    BY <1>1, <2>1, <2>3 DEF AheadOfCalls
<1> QED
  BY <1>2, <1>3, <1>4 DEF Ahead, n

\* A call is entered: what is ahead stays ahead, as it needs an answer to its question.
LEMMA CallAhead ==
    ASSUME LeadsForward, NEW B, NEW s, NEW n \in Nat, DOMAIN s = 1..n, NEW x, x.live, Ordered(B, x, s),
           NEW q \in Question, q = StopOf(x.answers), IsInjective(B[q]),
           NEW f, f.q = q, f.todo = B[q],
           f.from.answers = x.answers, f.from.live, f.from.det = x.det \cup {q},
           NEW r, DOMAIN r = 1..(n + 1), r[n + 1] = f, \A i \in 1..n : r[i] = s[i]
    PROVE  /\ Ordered(B, NoPath, r)
           /\ \A p : Ahead(p, NoPath, r) => Ahead(p, x, s)
           /\ \A p \in Answers : Full(B, p) /\ Ahead(p, x, s) => Ahead(p, NoPath, r)
<1> DEFINE a == x.answers
<1>1. n + 1 \in DOMAIN r /\ \A i \in 1..n : i \in DOMAIN r /\ i \in DOMAIN s
  OBVIOUS
<1>2. f.from.answers = a
  OBVIOUS
<1>3. Led(B, a) /\ x.det = Answered(a) /\ \A i \in 1..n : Above(s[i], a)
  BY DEF Ordered
<1>4. a[q] = None /\ a \in Answers
  BY <1>3, PathStops, TemplateAssumption DEF Led
<1>5. ~NoPath.live
  BY DEF NoPath
<1> HIDE DEF a
<1>6. CallLed(B, f)
  BY <1>2, <1>3 DEF CallLed, a
<1>7. \A i \in 1..(n + 1) : i \in 1..n \/ i = n + 1
  BY <1>1
<1>8. Ordered(B, NoPath, r)
  <2>1. \A i \in 1..(n + 1) : CallLed(B, r[i])
    BY <1>1, <1>6, <1>7 DEF Ordered
  <2>2. ASSUME NEW i \in 1..(n + 1), NEW j \in 1..(n + 1), i < j PROVE Above(r[i], r[j].from.answers)
    <3>1. i \in 1..n
      BY <1>1, <2>2
    <3>2. CASE j = n + 1
      BY <1>1, <1>2, <1>3, <3>1, <3>2
    <3>3. CASE j \in 1..n
      BY <1>1, <2>2, <3>1, <3>3 DEF Ordered
    <3> QED
      BY <1>7, <3>2, <3>3
  <2> QED
    BY <1>1, <1>5, <2>1, <2>2 DEF Ordered
<1>9. ASSUME NEW p, AheadOfCalls(p, r) PROVE Ahead(p, x, s)
  <2>1. PICK i \in 1..(n + 1) : \E v \in ToSet(r[i].todo) : Extends(p, AnswerOf(r[i], v))
    BY <1>1, <1>9 DEF AheadOfCalls
  <2>2. CASE i \in 1..n
    BY <1>1, <2>1, <2>2 DEF Ahead, AheadOfCalls
  <2>3. CASE i = n + 1
    <3>1. PICK v \in ToSet(f.todo) : Extends(p, With(a, q, v))
      BY <1>1, <1>2, <2>1, <2>3 DEF AnswerOf
    <3>2. \A t \in Question : a[t] # None => With(a, q, v)[t] = a[t]
      BY <1>4 DEF With, Answers
    <3>3. Extends(p, a)
      BY <1>4, <3>1, <3>2 DEF Extends
    <3> QED
      BY <3>3 DEF Ahead, a
  <2> QED
    BY <1>7, <2>2, <2>3
<1>10. ASSUME NEW p \in Answers, Full(B, p), Ahead(p, x, s) PROVE AheadOfCalls(p, r)
  <2>1. CASE Extends(p, a)
    <3>1. PICK v \in ToSet(B[q]) : Extends(p, With(a, q, v))
      BY <1>3, <1>10, <2>1, NextAnswered DEF a
    <3>2. n + 1 \in DOMAIN r /\ v \in ToSet(r[n + 1].todo) /\ AnswerOf(r[n + 1], v) = With(a, q, v)
      BY <1>1, <1>2 DEF AnswerOf
    <3> QED
      BY <3>1, <3>2 DEF AheadOfCalls
  <2>2. CASE AheadOfCalls(p, s)
    BY <1>1, <2>2 DEF AheadOfCalls
  <2> QED
    BY <1>10, <2>1, <2>2 DEF Ahead, a
<1> QED
  BY <1>5, <1>8, <1>9, <1>10 DEF Ahead

LEMMA GiveUp ==
    ASSUME NEW B, NEW s, NEW x, Ordered(B, x, s)
    PROVE  Ordered(B, NoPath, s) /\ \A p : Ahead(p, NoPath, s) => Ahead(p, x, s)
BY DEF Ordered, Ahead, NoPath

\* A path has come to its end: it is one of those that were ahead, and is no longer.
LEMMA EndAhead ==
    ASSUME LeadsForward, NEW B, NEW s \in Seq(Frame), NEW x \in Path, x.live, Ordered(B, x, s),
           StopOf(x.answers) = End
    PROVE  /\ Full(B, x.answers) /\ Ahead(x.answers, x, s) /\ ~Ahead(x.answers, NoPath, s)
           /\ \A p \in Answers : Full(B, p) /\ Ahead(p, x, s) => p = x.answers \/ Ahead(p, NoPath, s)
<1> DEFINE a == x.answers
<1>1. Led(B, a) /\ a \in Answers /\ \A i \in DOMAIN s : Above(s[i], a)
  BY DEF Ordered, Led
<1>2. Full(B, a) /\ \A p \in Answers : Full(B, p) /\ Extends(p, a) => p = a
  BY <1>1, EndedIsFull
<1>3. Ahead(a, x, s)
  BY DEF Ahead, Extends
<1>4. ~Ahead(a, NoPath, s)
  <2> SUFFICES ASSUME NEW i \in DOMAIN s, NEW v \in ToSet(s[i].todo), Extends(a, AnswerOf(s[i], v))
               PROVE  FALSE
    BY DEF Ahead, AheadOfCalls, NoPath
  <2>1. s[i] \in Frame
    OBVIOUS
  <2>2. s[i].from.answers \in Answers /\ s[i].q \in Question /\ v \in Value
    BY <2>1 DEF Frame, Path, Branches, ToSet
  <2>3. AnswerOf(s[i], v)[s[i].q] = v /\ v # None
    BY <2>2, TemplateAssumption DEF AnswerOf, With, Answers
  <2>4. a[s[i].q] = v
    BY <2>2, <2>3 DEF Extends
  <2> QED
    BY <1>1, <2>4 DEF Above
<1> QED
  BY <1>2, <1>3, <1>4 DEF Ahead

-----------------------------------------------------------------------------
(***************************************************************************)
(* What there is to choose from.                                           *)
(***************************************************************************)
\* Only which question comes next depends on the first answer, not what is offered.
OffersFixed == \A q \in Question, w \in Context : Offer[<<q, w>>] = Offer[<<q, None>>]

NothingOfferedTwice == \A q \in Question : IsInjective(Offer[<<q, None>>])

Choice == [q \in Question |-> IF q \in DOMAIN kept THEN kept[q] ELSE Offer[<<q, None>>]]

ChoicesInv ==
    /\ cap \in Nat
    /\ \A i \in DOMAIN discovered : discovered[i].branches = Offer[<<discovered[i].q, None>>]
    /\ \A q \in DOMAIN kept : IsInjective(kept[q]) /\ (~interactive => kept[q] = Offer[<<q, None>>])

LEMMA StruckOutApart ==
    ASSUME NEW s \in Branches, IsInjective(s), NEW t \in Subsequences(s)
    PROVE  IsInjective(t)
<1>1. PICK n \in 1..Len(s) : t \in [1..n -> ToSet(s)]
  BY DEF Subsequences
<1>2. PICK place \in [DOMAIN t -> DOMAIN s] :
          /\ \A i \in DOMAIN t : t[i] = s[place[i]]
          /\ \A i, j \in DOMAIN t : i < j => place[i] < place[j]
  BY DEF Subsequences
<1>3. DOMAIN t \subseteq Nat /\ DOMAIN s \subseteq Nat
  BY <1>1 DEF Branches
<1> SUFFICES ASSUME NEW i \in DOMAIN t, NEW j \in DOMAIN t, t[i] = t[j] PROVE i = j
  BY DEF IsInjective
<1>4. place[i] \in DOMAIN s /\ place[j] \in DOMAIN s /\ s[place[i]] = s[place[j]]
  BY <1>2
<1>5. place[i] = place[j]
  BY <1>4 DEF IsInjective
<1>6. ~(i < j) /\ ~(j < i)
  BY <1>2, <1>3, <1>4, <1>5
<1> QED
  BY <1>3, <1>6

LEMMA ChoicesApart ==
    ASSUME NEW q, NEW branches \in Branches, IsInjective(branches), NEW t \in UserChoices(q, branches)
    PROVE  IsInjective(t)
<1>1. CASE branches = <<>>
  BY <1>1 DEF UserChoices, IsInjective
<1>2. CASE branches # <<>> /\ Kind[q] \in {"select", "confirm"}
  BY <1>2, StruckOutApart DEF UserChoices
<1>3. CASE ~(branches = <<>>) /\ ~(branches # <<>> /\ Kind[q] \in {"select", "confirm"})
  BY <1>3 DEF UserChoices
<1> QED
  BY <1>1, <1>2, <1>3

\* No test has been made yet.
Unbegun ==
    /\ pc \in Before \cup {"modify"} => tests = <<>>
    /\ pc = "modify" => stack = <<>> /\ interactive

LEMMA UnbegunKept == ASSUME Unbegun, [Next]_vars PROVE Unbegun'
<1> USE DEF past, command, static, setup, walk, Before, Moving
<1>1. CASE RunInit \/ Exit
  BY <1>1 DEF RunInit, Exit, ResetWalk, Unbegun
<1>2. CASE MakeBackupDir \/ CopyConfig \/ CopyFixtures \/ RemoveConfig \/ RemoveFixtures
  BY <1>2 DEF MakeBackupDir, CopyConfig, CopyFixtures, RemoveConfig, RemoveFixtures, Return, Unbegun
<1>3. CASE BuildImages \/ StartContainer \/ OutOfAttempts \/ CheckHealth \/ CreateFixtures
  BY <1>3 DEF BuildImages, StartContainer, OutOfAttempts, CheckHealth, CreateFixtures, Return, Fail, Unbegun
<1>4. CASE Discover \/ DiscoverNext
  BY <1>4 DEF Discover, DiscoverNext, Fail, Unbegun
<1>5. CASE EndDiscovery \/ InteractiveModify
  BY <1>5 DEF EndDiscovery, InteractiveModify, Fail, Unbegun
<1>6. CASE Generate \/ GenerateNext
  BY <1>6 DEF Generate, GenerateNext, Fail, Unbegun
<1>7. CASE EndGeneration \/ WriteTestConfig \/ CleanupQaWarmup
  BY <1>7 DEF EndGeneration, WriteTestConfig, CleanupQaWarmup, Return, Fail, Unbegun
<1>8. CASE RunTemplateTests \/ OfferBackup \/ StackOverflow \/ Kill
  BY <1>8 DEF RunTemplateTests, OfferBackup, StackOverflow, Kill, Return, Unbegun
<1>9. CASE Finished \/ UNCHANGED vars
  BY <1>9 DEF Finished, vars, Unbegun
<1> QED
  BY <1>1, <1>2, <1>3, <1>4, <1>5, <1>6, <1>7, <1>8, <1>9 DEF Next, Step

LEMMA ChoicesKept ==
    ASSUME OffersFixed, NothingOfferedTwice, WalkInv, Unbegun, ChoicesInv, [Next]_vars
    PROVE  ChoicesInv'
<1> USE DEF past, command, static, setup, walk
<1>1. CASE UNCHANGED <<cap, interactive, discovered, kept>>
  BY <1>1 DEF ChoicesInv
<1>2. CASE ResetWalk /\ cap' \in Nat
  BY <1>2 DEF ResetWalk, ChoicesInv
<1>3. CASE RunInit \/ Exit
  <2>1. ResetWalk /\ cap' \in Caps \cup {0}
    BY <1>3 DEF RunInit, Exit
  <2> QED
    BY <1>2, <2>1, LimitAssumption
<1>4. CASE MakeBackupDir \/ CopyConfig \/ CopyFixtures \/ RemoveConfig \/ RemoveFixtures
  BY <1>1, <1>4 DEF MakeBackupDir, CopyConfig, CopyFixtures, RemoveConfig, RemoveFixtures
<1>5. CASE BuildImages \/ StartContainer \/ OutOfAttempts \/ CheckHealth \/ CreateFixtures
  BY <1>1, <1>5 DEF BuildImages, StartContainer, OutOfAttempts, CheckHealth, CreateFixtures
<1>6. CASE Discover
  <2>1. CASE discovered' = discovered
    BY <1>1, <1>6, <2>1 DEF Discover
  <2>2. CASE discovered' # discovered
    <3>1. /\ Reply # End /\ discovered' = Append(discovered, [q |-> Reply, branches |-> GetAnswerBranches(Reply)])
          /\ UNCHANGED <<cap, interactive, kept>>
      BY <1>6, <2>2 DEF Discover
    <3>2. path.answers[First] \in Context /\ Reply \in Question /\ discovered \in Seq(Finding)
      BY <3>1, ReplyTyped, TemplateAssumption DEF WalkInv, WalkTyped, Path, Answers, Reply
    <3>3. GetAnswerBranches(Reply) = Offer[<<Reply, None>>]
      BY <3>2 DEF OffersFixed, GetAnswerBranches
    <3>4. \A i \in DOMAIN discovered' :
              \/ i \in DOMAIN discovered /\ discovered'[i] = discovered[i]
              \/ discovered'[i] = [q |-> Reply, branches |-> Offer[<<Reply, None>>]]
      BY <3>1, <3>2, <3>3
    <3> QED
      BY <3>1, <3>4 DEF ChoicesInv
  <2> QED
    BY <2>1, <2>2
<1>7. CASE DiscoverNext \/ Generate \/ GenerateNext
  BY <1>1, <1>7 DEF DiscoverNext, Generate, GenerateNext
<1>8. CASE EndDiscovery
  <2>1. CASE kept' = kept
    BY <1>1, <1>8, <2>1 DEF EndDiscovery
  <2>2. CASE kept' = AsDiscovered /\ ~(interactive /\ discovered # <<>>)
    <3>1. UNCHANGED <<cap, interactive, discovered>>
      BY <1>8 DEF EndDiscovery
    <3>2. ASSUME NEW q \in DOMAIN kept' PROVE kept'[q] = Offer[<<q, None>>] /\ q \in Question
      <4>1. q \in Seen /\ kept'[q] = discovered[Discovered(q)].branches
        BY <2>2, <3>2 DEF AsDiscovered
      <4>2. \E i \in DOMAIN discovered : discovered[i].q = q
        BY <4>1 DEF Seen
      <4>3. Discovered(q) \in DOMAIN discovered /\ discovered[Discovered(q)].q = q
        BY <4>2 DEF Discovered
      <4>4. discovered[Discovered(q)] \in Finding
        BY <4>3 DEF WalkInv, WalkTyped
      <4> QED
        BY <4>1, <4>3, <4>4 DEF ChoicesInv, Finding
    <3> QED
      BY <3>1, <3>2 DEF ChoicesInv, NothingOfferedTwice
  <2> QED
    BY <1>8, <2>1, <2>2 DEF EndDiscovery
<1>9. CASE InteractiveModify
  <2>1. CASE kept' = kept
    BY <1>1, <1>9, <2>1 DEF InteractiveModify
  <2>2. CASE kept' # kept
    <3> DEFINE dq == discovered[Cardinality(DOMAIN kept) + 1]
    <3>1. PICK choice \in UserChoices(dq.q, dq.branches) :
              kept' = [q \in DOMAIN kept \cup {dq.q} |-> IF q = dq.q THEN choice ELSE kept[q]]
      BY <1>9, <2>2 DEF InteractiveModify
    <3>2. pc = "modify" /\ UNCHANGED <<cap, interactive, discovered>>
      BY <1>9 DEF InteractiveModify
    <3>3. Cardinality(DOMAIN kept) + 1 \in DOMAIN discovered /\ dq \in Finding
      <4>1. PICK n : AskedAbout(n)
        BY <3>2 DEF WalkInv, TurnByTurn
      <4>2. n + 1 \in DOMAIN discovered /\ discovered[n + 1] \in Finding
        BY <4>1 DEF WalkInv, WalkTyped, AskedAbout
      <4> QED
        BY <4>1, <4>2 DEF AskedAbout
    <3>4. IsInjective(choice)
      BY <3>1, <3>3, ChoicesApart DEF ChoicesInv, NothingOfferedTwice, Finding
    <3>5. interactive
      BY <3>2 DEF Unbegun
    <3> QED
      BY <3>1, <3>2, <3>4, <3>5 DEF ChoicesInv
  <2> QED
    BY <2>1, <2>2
<1>10. CASE EndGeneration \/ WriteTestConfig \/ CleanupQaWarmup
  BY <1>1, <1>10 DEF EndGeneration, WriteTestConfig, CleanupQaWarmup
<1>11. CASE RunTemplateTests \/ OfferBackup \/ StackOverflow \/ Kill
  BY <1>1, <1>11 DEF RunTemplateTests, OfferBackup, StackOverflow, Kill
<1>12. CASE Finished \/ UNCHANGED vars
  BY <1>1, <1>12 DEF Finished, vars
<1> QED
  BY <1>3, <1>4, <1>5, <1>6, <1>7, <1>8, <1>9, <1>10, <1>11, <1>12 DEF Next, Step

-----------------------------------------------------------------------------
(***************************************************************************)
(* Generation: the tests are paths, each of them once, and a path that is  *)
(* not among them is still ahead.                                          *)
(***************************************************************************)
Tested(p, t) == \E i \in DOMAIN t : t[i].answers = p

Generated(B, limit, x, s, t) ==
    /\ Ordered(B, x, s)
    /\ Len(t) <= limit
    /\ \A i \in DOMAIN t : Full(B, t[i].answers) /\ ~Ahead(t[i].answers, x, s)
    /\ \A i, j \in DOMAIN t : t[i].answers = t[j].answers => i = j
    /\ Len(t) < limit => \A p \in Answers : Full(B, p) => Tested(p, t) \/ Ahead(p, x, s)

LEMMA GenerationBegins ==
    ASSUME NEW B, NEW limit \in Nat
    PROVE  Generated(B, limit, Root, <<>>, <<>>)
<1>1. Root.live /\ Root.answers = Nothing /\ Root.det = {}
  BY DEF Root, NoPath
<1>2. Answered(Nothing) = {} /\ \A p : Extends(p, Nothing)
  BY DEF Answered, Nothing, Extends
<1>3. Led(B, Nothing)
  BY <1>2, NothingTyped DEF Led, Partial
<1>4. Ordered(B, Root, <<>>)
  BY <1>1, <1>2, <1>3 DEF Ordered
<1>5. \A p : Ahead(p, Root, <<>>)
  BY <1>1, <1>2 DEF Ahead
<1> QED
  BY <1>4, <1>5 DEF Generated

\* A step that makes no test loses nothing that is ahead of it.
LEMMA NoTestMade ==
    ASSUME NEW B, NEW limit, NEW x, NEW s, NEW t, Generated(B, limit, x, s, t),
           NEW y, NEW r, Ordered(B, y, r), \A p : Ahead(p, y, r) => Ahead(p, x, s),
           Len(t) < limit => \A p \in Answers : Full(B, p) /\ Ahead(p, x, s) => Ahead(p, y, r)
    PROVE  Generated(B, limit, y, r, t)
<1>1. \A i \in DOMAIN t : Full(B, t[i].answers) /\ ~Ahead(t[i].answers, y, r)
  BY DEF Generated
<1>2. Len(t) < limit => \A p \in Answers : Full(B, p) => Tested(p, t) \/ Ahead(p, y, r)
  BY DEF Generated
<1> QED
  BY <1>1, <1>2 DEF Generated

\* The test of a path that was ahead is a new one.
LEMMA TestMade ==
    ASSUME LeadsForward, NEW B, NEW limit \in Nat, NEW x \in Path, NEW s \in Seq(Frame), NEW t \in Seq(Test),
           Generated(B, limit, x, s, t), Len(t) < limit, x.live, StopOf(x.answers) = End,
           NEW new, new.answers = x.answers
    PROVE  Generated(B, limit, NoPath, s, Append(t, new))
<1> DEFINE n == Len(t)
           u == Append(t, new)
           a == x.answers
<1>1. /\ n \in Nat /\ DOMAIN t = 1..n /\ Len(u) = n + 1 /\ DOMAIN u = 1..(n + 1)
      /\ u[n + 1] = new /\ \A i \in 1..n : u[i] = t[i]
      /\ \A i \in 1..(n + 1) : i \in 1..n \/ i = n + 1
  OBVIOUS
<1>2. /\ Full(B, a) /\ Ahead(a, x, s) /\ ~Ahead(a, NoPath, s)
      /\ \A p \in Answers : Full(B, p) /\ Ahead(p, x, s) => p = a \/ Ahead(p, NoPath, s)
  BY EndAhead DEF Generated
<1>3. Ordered(B, NoPath, s) /\ \A p : Ahead(p, NoPath, s) => Ahead(p, x, s)
  BY GiveUp DEF Generated
<1> HIDE DEF n, u, a
<1>4. Len(u) <= limit
  BY <1>1 DEF n
<1>5. \A i \in 1..n : Full(B, u[i].answers) /\ ~Ahead(u[i].answers, x, s)
  BY <1>1 DEF Generated
<1>6. u[n + 1].answers = a
  BY <1>1 DEF a
<1>7. \A i \in DOMAIN u : Full(B, u[i].answers) /\ ~Ahead(u[i].answers, NoPath, s)
  BY <1>1, <1>2, <1>3, <1>5, <1>6
<1>8. ASSUME NEW i \in DOMAIN u, NEW j \in DOMAIN u, u[i].answers = u[j].answers PROVE i = j
  <2>1. CASE i \in 1..n /\ j \in 1..n
    BY <1>1, <1>8, <2>1 DEF Generated
  <2>2. CASE i = n + 1 \/ j = n + 1
    BY <1>1, <1>2, <1>5, <1>6, <1>8, <2>2
  <2> QED
    BY <1>1, <2>1, <2>2
<1>9. ASSUME NEW p \in Answers, Full(B, p) PROVE Tested(p, u) \/ Ahead(p, NoPath, s)
  <2>1. CASE Tested(p, t)
    BY <1>1, <2>1 DEF Tested
  <2>2. CASE Ahead(p, x, s)
    BY <1>1, <1>2, <1>6, <1>9, <2>2 DEF Tested
  <2> QED
    BY <1>9, <2>1, <2>2 DEF Generated
<1> QED
  BY <1>3, <1>4, <1>7, <1>8, <1>9 DEF Generated, u

-----------------------------------------------------------------------------
(***************************************************************************)
(* Counting.                                                               *)
(***************************************************************************)
LEMMA AnswersFinite == IsFiniteSet(Answers)
<1> DEFINE P == Question \X Context
           graph == [a \in Answers |-> {<<q, a[q]>> : q \in Question}]
<1>1. IsFiniteSet(Context)
  BY FiniteAssumption, FS_AddElement DEF Context
<1>2. IsFiniteSet(P)
  BY <1>1, FiniteAssumption, FS_Product
<1> HIDE DEF P
<1>3. IsFiniteSet(SUBSET P)
  BY <1>2, FS_SUBSET
<1>4. graph \in [Answers -> SUBSET P]
  BY DEF P, Answers
<1>5. ASSUME NEW a \in Answers, NEW b \in Answers, graph[a] = graph[b] PROVE a = b
  <2>1. ASSUME NEW q \in Question PROVE a[q] = b[q]
    <3>1. {<<r, a[r]>> : r \in Question} = {<<r, b[r]>> : r \in Question}
      BY <1>5
    <3>2. <<q, a[q]>> \in {<<r, b[r]>> : r \in Question}
      BY <3>1
    <3>3. PICK r \in Question : <<q, a[q]>> = <<r, b[r]>>
      BY <3>2
    <3> QED
      BY <3>3
  <2> QED
    BY <2>1 DEF Answers
<1> HIDE DEF graph
<1>6. graph \in Injection(Answers, SUBSET P)
  BY <1>4, <1>5 DEF Injection, IsInjective
<1> QED
  BY <1>3, <1>6, FS_Injection

\* As many different answers as tests.
LEMMA TestsCounted ==
    ASSUME NEW t \in Seq(Test), \A i, j \in DOMAIN t : t[i].answers = t[j].answers => i = j
    PROVE  LET T == {t[i].answers : i \in DOMAIN t} IN IsFiniteSet(T) /\ Cardinality(T) = Len(t)
<1> DEFINE T == {t[i].answers : i \in DOMAIN t}
           f == [i \in 1..Len(t) |-> t[i].answers]
<1>1. DOMAIN t = 1..Len(t) /\ Len(t) \in Nat
  OBVIOUS
<1>2. f \in [1..Len(t) -> T] /\ \A y \in T : \E i \in 1..Len(t) : f[i] = y
  BY <1>1
<1>3. \A i, j \in 1..Len(t) : f[i] = f[j] => i = j
  BY <1>1
<1> HIDE DEF f
<1>4. f \in Bijection(1..Len(t), T)
  BY <1>2, <1>3 DEF Bijection, Injection, Surjection, IsInjective
<1>5. IsFiniteSet(1..Len(t)) /\ Cardinality(1..Len(t)) = Len(t)
  BY <1>1, FS_Interval
<1> HIDE DEF T
<1>6. IsFiniteSet(T) /\ Cardinality(T) = Len(t)
  BY <1>4, <1>5, FS_Bijection DEF ExistsBijection
<1> QED
  BY <1>6 DEF T

\* The answers that count as a path are those that are made of the choices.
LEMMA PathsAreFull ==
    ASSUME OffersFixed, WalkInv, ChoicesInv, NEW a \in Answers
    PROVE  IsPath(a) <=> Full(Choice, a)
<1>1. ASSUME NEW q \in Question, NEW w \in Context PROVE Wanted(q, w) = ToSet(Choice[q])
  <2>1. Choice[q] = IF q \in DOMAIN kept THEN kept[q] ELSE Offer[<<q, None>>]
    BY DEF Choice
  <2>2. Offer[<<q, w>>] = Offer[<<q, None>>]
    BY DEF OffersFixed
  <2>3. q \in DOMAIN kept /\ ~interactive => kept[q] = Offer[<<q, None>>]
    BY DEF ChoicesInv
  <2> QED
    BY <2>1, <2>2, <2>3 DEF Wanted
<1>2. None \in Context /\ a[First] \in Context
  BY TemplateAssumption DEF Answers, Context
<1>3. (\A q \in Question : a[q] # None => a[q] \in Wanted(q, IF q = First THEN None ELSE a[First]))
      <=> (\A q \in Answered(a) : a[q] \in ToSet(Choice[q]))
  BY <1>1, <1>2 DEF Answered
<1> QED
  BY <1>3 DEF IsPath, Full, StopOf, PathOf, Answered, Steps

\* When nothing is ahead any more, every combination is tested, or as many as may be.
LEMMA AllTested ==
    ASSUME OffersFixed, WalkInv, ChoicesInv, NEW x, ~x.live, Generated(Choice, cap, x, <<>>, tests)
    PROVE  LET paths  == {a \in Answers : IsPath(a)}
               tested == {tests[i].answers : i \in DOMAIN tests}
           IN /\ tested \subseteq paths
              /\ Cardinality(tested) = Len(tests)
              /\ Len(tests) = IF Cardinality(paths) < cap THEN Cardinality(paths) ELSE cap
<1> DEFINE paths == {a \in Answers : IsPath(a)}
           tested == {tests[i].answers : i \in DOMAIN tests}
<1>1. tests \in Seq(Test) /\ Len(tests) \in Nat /\ cap \in Nat
  BY DEF WalkInv, WalkTyped, ChoicesInv
<1>2. \A i \in DOMAIN tests : tests[i].answers \in Answers /\ Full(Choice, tests[i].answers)
  <2>1. \A i \in DOMAIN tests : tests[i] \in Test
    BY <1>1
  <2>2. \A i \in DOMAIN tests : tests[i].answers \in Answers
    BY <2>1 DEF Test
  <2> QED
    BY <2>2 DEF Generated
<1>3. tested \subseteq paths
  BY <1>2, PathsAreFull
<1>4. IsFiniteSet(tested) /\ Cardinality(tested) = Len(tests)
  BY <1>1, TestsCounted DEF Generated
<1>5. IsFiniteSet(paths)
  BY AnswersFinite, FS_Subset
<1>6. Len(tests) < cap => paths \subseteq tested
  <2>1. \A p : ~Ahead(p, x, <<>>)
    BY DEF Ahead, AheadOfCalls
  <2>2. Len(tests) < cap => \A p \in Answers : Full(Choice, p) => Tested(p, tests)
    BY <2>1 DEF Generated
  <2> QED
    BY <2>2, PathsAreFull DEF Tested
<1>7. Len(tests) <= cap
  BY DEF Generated
<1> HIDE DEF paths, tested
<1>8. Cardinality(paths) \in Nat /\ Cardinality(tested) <= Cardinality(paths)
  BY <1>3, <1>5, FS_Subset, FS_CardinalityType
<1>9. Len(tests) < cap => Cardinality(paths) = Len(tests)
  <2>1. Len(tests) < cap => paths = tested
    BY <1>3, <1>6
  <2> QED
    BY <1>4, <2>1
<1>10. Len(tests) = IF Cardinality(paths) < cap THEN Cardinality(paths) ELSE cap
  BY <1>1, <1>4, <1>7, <1>8, <1>9
<1> QED
  BY <1>3, <1>4, <1>10 DEF paths, tested

\* A template that always asks its first question makes no test, and does not get to
\* the end unless none is wanted.
StuckAtFirst ==
    /\ tests = <<>>
    /\ \A i \in DOMAIN stack : stack[i].from.live
    /\ 0 < cap /\ Choice[First] # <<>> => path.live \/ (stack # <<>> /\ stack[Len(stack)].todo # <<>>)

AheadInv ==
    pc = "generate" =>
        IF model = "stuck" THEN StuckAtFirst ELSE Generated(Choice, cap, path, stack, tests)

LEMMA NoneTested ==
    ASSUME OffersFixed, WalkInv, ChoicesInv, tests = <<>>, cap = 0 \/ Choice[First] = <<>>
    PROVE  LET paths  == {a \in Answers : IsPath(a)}
               tested == {tests[i].answers : i \in DOMAIN tests}
           IN /\ tested \subseteq paths
              /\ Cardinality(tested) = Len(tests)
              /\ Len(tests) = IF Cardinality(paths) < cap THEN Cardinality(paths) ELSE cap
<1> DEFINE paths == {a \in Answers : IsPath(a)}
           tested == {tests[i].answers : i \in DOMAIN tests}
<1>1. tested = {} /\ Len(tests) = 0 /\ cap \in Nat
  BY DEF ChoicesInv
<1>2. Cardinality(paths) \in Nat
  BY AnswersFinite, FS_Subset, FS_CardinalityType
<1>3. Choice[First] = <<>> => paths = {}
  <2> SUFFICES ASSUME Choice[First] = <<>>, NEW a \in Answers, IsPath(a) PROVE FALSE
    OBVIOUS
  <2>1. Full(Choice, a) /\ First \in PathOf(a) /\ First # End
    BY PathsAreFull, StopTyped, TemplateAssumption
  <2>2. a[First] \in ToSet(Choice[First])
    BY <2>1 DEF Full
  <2> QED
    BY <2>2 DEF ToSet
<1> HIDE DEF paths, tested
<1>4. Cardinality({}) = 0
  BY FS_EmptySet
<1>5. tested \subseteq paths /\ Cardinality(tested) = Len(tests)
  BY <1>1, <1>4
<1>6. cap = 0 \/ Cardinality(paths) = 0
  BY <1>3, <1>4
<1>7. Len(tests) = IF Cardinality(paths) < cap THEN Cardinality(paths) ELSE cap
  BY <1>1, <1>2, <1>6
<1> QED
  BY <1>5, <1>7 DEF paths, tested

LEMMA EndTested ==
    ASSUME OffersFixed, WalkInv, ChoicesInv, AheadInv, EndGeneration
    PROVE  EveryCombinationIsTested'
<1>1. /\ pc = "generate" /\ ~path.live /\ stack = <<>> /\ UNCHANGED <<tests, cap, kept, interactive>>
  BY DEF EndGeneration, static, setup, walk
<1>2. LET paths  == {a \in Answers : IsPath(a)}
          tested == {tests[i].answers : i \in DOMAIN tests}
      IN /\ tested \subseteq paths
         /\ Cardinality(tested) = Len(tests)
         /\ Len(tests) = IF Cardinality(paths) < cap THEN Cardinality(paths) ELSE cap
  <2>1. CASE model = "stuck"
    <3>1. tests = <<>> /\ (cap = 0 \/ Choice[First] = <<>>)
      BY <1>1, <2>1 DEF AheadInv, StuckAtFirst, ChoicesInv
    <3> QED
      BY <3>1, NoneTested
  <2>2. CASE model # "stuck"
    <3>1. Generated(Choice, cap, path, <<>>, tests)
      BY <1>1, <2>2 DEF AheadInv
    <3> QED
      BY <1>1, <3>1, AllTested
  <2> QED
    BY <2>1, <2>2
<1>3. \A a : IsPath(a)' <=> IsPath(a)
  BY <1>1 DEF IsPath, Wanted
<1> QED
  BY <1>1, <1>2, <1>3 DEF EveryCombinationIsTested

LEMMA WalkBegins ==
    ASSUME cap \in Nat, cap' = cap, path' = Root, stack' = <<>>, tests' = <<>>
    PROVE  AheadInv'
<1>1. Generated(Choice', cap', path', stack', tests')
  BY GenerationBegins
<1>2. StuckAtFirst'
  BY DEF StuckAtFirst, Root, NoPath
<1> QED
  BY <1>1, <1>2 DEF AheadInv

LEMMA BranchesChosen ==
    ASSUME OffersFixed, WalkInv, NEW q \in Question
    PROVE  BranchesFor(q) = Choice[q]
<1>1. path.answers[First] \in Context
  BY TemplateAssumption DEF WalkInv, WalkTyped, Path, Answers
<1> QED
  BY <1>1 DEF BranchesFor, Choice, GetAnswerBranches, OffersFixed

LEMMA GenerateAhead ==
    ASSUME LeadsForward, OffersFixed, NothingOfferedTwice, WalkInv, ChoicesInv, AheadInv, Generate
    PROVE  AheadInv'
<1>1. /\ pc = "generate" /\ path.live /\ UNCHANGED <<model, cap, kept>> /\ Choice' = Choice
      /\ path \in Path /\ stack \in Seq(Frame) /\ tests \in Seq(Test) /\ cap \in Nat /\ model \in Models
  BY DEF Generate, static, setup, Choice, WalkInv, WalkTyped, ChoicesInv
<1> SUFFICES ASSUME pc' = "generate"
             PROVE  IF model = "stuck" THEN StuckAtFirst' ELSE Generated(Choice, cap, path', stack', tests')
  BY <1>1 DEF AheadInv
<1>2. NoPath \in Path /\ ~NoPath.live
  BY NothingTyped DEF NoPath
<1>3. CASE model = "stuck"
  <2>1. StuckAtFirst /\ Reply = First /\ First # End /\ First \in Question
    BY <1>1, <1>3, TemplateAssumption DEF AheadInv, Reply, PromptTemplate
  <2>2. CASE ~More /\ UNCHANGED <<stack, tests>>
    <3>1. ~(0 < cap) /\ tests' = <<>>
      BY <2>1, <2>2 DEF StuckAtFirst, More
    <3>2. \A i \in DOMAIN stack' : stack'[i].from.live
      BY <2>1, <2>2 DEF StuckAtFirst
    <3>3. ~(0 < cap')
      BY <1>1, <3>1
    <3> QED
      BY <1>3, <3>1, <3>2, <3>3 DEF StuckAtFirst
  <2>3. CASE Call(First, BranchesFor(First)) /\ UNCHANGED tests
    <3> DEFINE f == [from |-> [path EXCEPT !.det = @ \cup {First}], q |-> First, todo |-> BranchesFor(First)]
    <3>1. stack' = Append(stack, f) /\ f.from.live /\ f.todo = Choice[First]
      BY <1>1, <2>1, <2>3, BranchesChosen DEF Call, Path
    <3> HIDE DEF f
    <3>2. \A i \in DOMAIN stack' : stack'[i].from.live
      BY <1>1, <2>1, <3>1 DEF StuckAtFirst
    <3>3. stack' # <<>> /\ stack'[Len(stack')] = f
      BY <1>1, <3>1
    <3>4. tests' = <<>>
      BY <2>1, <2>3 DEF StuckAtFirst
    <3>5. (Choice[First])' = Choice[First]
      BY <1>1
    <3>6. (Choice[First])' # <<>> => stack'[Len(stack')].todo # <<>>
      BY <3>1, <3>3, <3>5
    <3> QED
      BY <1>3, <3>2, <3>3, <3>4, <3>6 DEF StuckAtFirst
  <2> QED
    BY <1>1, <1>3, <2>1, <2>2, <2>3 DEF Generate, Fail
<1>4. CASE model # "stuck"
  <2>1. /\ Generated(Choice, cap, path, stack, tests) /\ Ordered(Choice, path, stack)
        /\ Led(Choice, path.answers) /\ path.answers \in Answers /\ path.det = Answered(path.answers)
    BY <1>1, <1>4 DEF AheadInv, Generated, Ordered, Led
  <2>2. Reply = StopOf(path.answers)
    BY <1>1, <1>4, <2>1, ReplyOf, TemplateAssumption DEF Reply
  <2>3. CASE ~More /\ path' = NoPath /\ UNCHANGED <<stack, tests>>
    <3>1. Ordered(Choice, NoPath, stack) /\ \A p : Ahead(p, NoPath, stack) => Ahead(p, path, stack)
      BY <2>1, GiveUp
    <3>2. ~(Len(tests) < cap)
      BY <2>3 DEF More
    <3>3. Generated(Choice, cap, NoPath, stack, tests)
      BY <2>1, <3>1, <3>2, NoTestMade
    <3> QED
      BY <1>4, <2>3, <3>3
  <2>4. CASE /\ More /\ Reply = End /\ path' = NoPath /\ UNCHANGED stack
             /\ tests' = Append(tests, [name    |-> GenerateTestName(path.labels),
                                        answers |-> path.answers,
                                        det     |-> path.det])
    <3> DEFINE new == [name |-> GenerateTestName(path.labels), answers |-> path.answers, det |-> path.det]
    <3>1. new.answers = path.answers /\ tests' = Append(tests, new)
      BY <2>4
    <3> HIDE DEF new
    <3>2. Len(tests) < cap /\ StopOf(path.answers) = End
      BY <2>2, <2>4 DEF More
    <3>3. Generated(Choice, cap, NoPath, stack, Append(tests, new))
      BY <1>1, <2>1, <3>1, <3>2, TestMade
    <3> QED
      BY <1>4, <2>4, <3>1, <3>3
  <2>5. CASE Reply # End /\ Call(Reply, BranchesFor(Reply)) /\ UNCHANGED tests
    <3> DEFINE q == Reply
    <3>1. q \in Question /\ q = StopOf(path.answers)
      BY <2>1, <2>2, <2>5, StopTyped
    <3>f. PICK f : f = [from |-> [path EXCEPT !.det = @ \cup {q}], q |-> q, todo |-> Choice[q]]
      OBVIOUS
    <3>n. PICK n : n = Len(stack)
      OBVIOUS
    <3>2. path' = NoPath /\ stack' = Append(stack, f)
      BY <2>5, <3>1, <3>f, BranchesChosen DEF Call
    <3>3. IsInjective(Choice[q])
      BY <3>1 DEF ChoicesInv, NothingOfferedTwice, Choice
    <3> HIDE DEF q
    <3>4. /\ n \in Nat /\ DOMAIN stack = 1..n /\ DOMAIN stack' = 1..(n + 1) /\ stack'[n + 1] = f
          /\ \A i \in 1..n : stack'[i] = stack[i]
          /\ f.q = q /\ f.todo = Choice[q]
          /\ f.from.answers = path.answers /\ f.from.live /\ f.from.det = path.det \cup {q}
      <4>1. stack \in Seq(Frame) /\ path \in Path /\ path.live /\ q \in Question
        BY <1>1, <3>1
      <4>2. stack' = Append(stack, f)
        BY <3>2
      <4> QED
        BY <4>1, <4>2, <3>f, <3>n DEF Path
    <3>5. /\ Ordered(Choice, NoPath, stack')
          /\ \A p : Ahead(p, NoPath, stack') => Ahead(p, path, stack)
          /\ \A p \in Answers : Full(Choice, p) /\ Ahead(p, path, stack) => Ahead(p, NoPath, stack')
      <4>1. path.live /\ Ordered(Choice, path, stack)
        BY <1>1, <2>1
      <4> QED
        BY ONLY LeadsForward, <4>1, <3>1, <3>3, <3>4, CallAhead
    <3>6. Generated(Choice, cap, NoPath, stack', tests)
      BY <2>1, <3>5, NoTestMade
    <3> QED
      BY <1>4, <2>5, <3>2, <3>6
  <2> QED
    BY <1>1, <2>3, <2>4, <2>5 DEF Generate, Fail
<1> QED
  BY <1>3, <1>4

LEMMA GenerateNextAhead ==
    ASSUME LeadsForward, WalkInv, AheadInv, GenerateNext
    PROVE  AheadInv'
<1> DEFINE n == Len(stack)
           top == stack[n]
           y == AddAnswer(top.from, top.q, Head(top.todo))
           r == [stack EXCEPT ![Len(stack)].todo = Tail(@)]
<1>1. /\ pc = "generate" /\ pc' = pc /\ ~path.live /\ stack # <<>> /\ FollowBranch(More)
      /\ UNCHANGED <<model, cap, kept, tests>> /\ Choice' = Choice
      /\ path \in Path /\ stack \in Seq(Frame)
  BY DEF GenerateNext, static, setup, Choice, WalkInv, WalkTyped
<1>2. \/ (top.todo = <<>> \/ ~More) /\ stack' = Front(stack) /\ path' = path
      \/ top.todo # <<>> /\ More /\ path' = y /\ stack' = r
  BY <1>1 DEF FollowBranch, Last
<1>3. CASE model = "stuck"
  <2>1. StuckAtFirst
    BY <1>1, <1>3 DEF AheadInv
  <2>2. n \in Nat \ {0} /\ n \in DOMAIN stack /\ DOMAIN stack = 1..n
    BY <1>1
  <2>3. CASE (top.todo = <<>> \/ ~More) /\ stack' = Front(stack) /\ path' = path
    <3>1. \A i \in DOMAIN stack' : stack'[i].from.live
      BY <1>1, <2>1, <2>3 DEF StuckAtFirst, Front
    <3>2. ~(0 < cap /\ Choice[First] # <<>>)
      BY <1>1, <2>1, <2>3 DEF StuckAtFirst, More
    <3>3. StuckAtFirst'
      BY <1>1, <2>1, <3>1, <3>2 DEF StuckAtFirst
    <3> QED
      BY <1>1, <1>3, <3>3 DEF AheadInv
  <2>4. CASE top.todo # <<>> /\ More /\ path' = y /\ stack' = r
    <3>1. top \in Frame /\ top.from \in Path /\ top.from.live
      <4>1. top \in Frame
        BY <1>1, <2>2
      <4>2. top.from.live
        BY <2>1, <2>2 DEF StuckAtFirst
      <4> HIDE DEF top
      <4> QED
        BY <4>1, <4>2 DEF Frame
    <3>2. path'.live
      BY <2>4, <3>1 DEF AddAnswer, Path
    <3>3. \A i \in DOMAIN stack : stack[i] \in Frame
      BY <1>1
    <3>4. DOMAIN r = DOMAIN stack /\ \A i \in DOMAIN stack : r[i].from = stack[i].from
      BY <2>2, <3>3 DEF Frame
    <3>5. \A i \in DOMAIN stack' : stack'[i].from.live
      BY <2>1, <2>4, <3>4 DEF StuckAtFirst
    <3>6. StuckAtFirst'
      BY <1>1, <2>1, <3>2, <3>5 DEF StuckAtFirst
    <3> QED
      BY <1>1, <1>3, <3>6 DEF AheadInv
  <2> QED
    BY <1>2, <2>3, <2>4
<1>4. CASE model # "stuck"
  <2>1. Generated(Choice, cap, path, stack, tests) /\ Ordered(Choice, path, stack)
    BY <1>1, <1>4 DEF AheadInv, Generated
  <2>2. CASE (top.todo = <<>> \/ ~More) /\ stack' = Front(stack) /\ path' = path
    <3>1. /\ Ordered(Choice, path, stack')
          /\ \A p : Ahead(p, path, stack') => Ahead(p, path, stack)
          /\ top.todo = <<>> => \A p : Ahead(p, path, stack) => Ahead(p, path, stack')
      BY <1>1, <2>1, <2>2, ReturnAhead
    <3>2. Len(tests) < cap => \A p \in Answers : Full(Choice, p) /\ Ahead(p, path, stack) => Ahead(p, path, stack')
      BY <2>2, <3>1 DEF More
    <3>3. Generated(Choice, cap, path, stack', tests)
      BY <2>1, <3>1, <3>2, NoTestMade
    <3> QED
      BY <1>1, <1>4, <2>2, <3>3 DEF AheadInv
  <2>3. CASE top.todo # <<>> /\ More /\ path' = y /\ stack' = r
    <3>1. Ordered(Choice, y, r) /\ \A p : Ahead(p, y, r) <=> Ahead(p, path, stack)
      <4>1. stack \in Seq(Frame) /\ stack # <<>> /\ path \in Path /\ ~path.live /\ top.todo # <<>>
        BY <1>1, <2>3
      <4>2. top \in Frame /\ n \in DOMAIN stack
        BY <1>1
      <4>3. y.answers = AnswerOf(top, Head(top.todo)) /\ y.det = top.from.det /\ y.live = top.from.live
        <5> HIDE DEF top
        <5> QED
          BY <4>2 DEF AddAnswer, AnswerOf, With, Frame, Path
      <4>4. /\ DOMAIN r = DOMAIN stack /\ \A i \in DOMAIN stack : i # n => r[i] = stack[i]
            /\ r[n].todo = Tail(top.todo) /\ r[n].from = top.from /\ r[n].q = top.q
        BY <4>2 DEF Frame
      <4>5. top = stack[Len(stack)] /\ n = Len(stack)
        OBVIOUS
      <4> HIDE DEF y, r, top, n
      <4> QED
        BY <2>1, <4>1, <4>3, <4>4, <4>5, BranchAhead
    <3> HIDE DEF y, r
    <3>2. Generated(Choice, cap, y, r, tests)
      BY <2>1, <3>1, NoTestMade
    <3> QED
      BY <1>1, <1>4, <2>3, <3>2 DEF AheadInv
  <2> QED
    BY <1>2, <2>2, <2>3
<1> QED
  BY <1>3, <1>4

CombinationsInv ==
    /\ Unbegun /\ ChoicesInv /\ AheadInv
    /\ EveryCombinationIsTested

LEMMA CombinationsKept ==
    ASSUME LeadsForward, OffersFixed, NothingOfferedTwice, WalkInv, CombinationsInv, [Next]_vars
    PROVE  CombinationsInv'
<1> USE DEF past, command, static, setup, walk
<1>1. Unbegun' /\ ChoicesInv'
  BY UnbegunKept, ChoicesKept DEF CombinationsInv
<1>2. CASE pc' \notin {"generate", "write"}
  BY <1>1, <1>2 DEF CombinationsInv, AheadInv, EveryCombinationIsTested
<1>3. CASE RunInit \/ MakeBackupDir \/ CopyConfig \/ CopyFixtures \/ RemoveConfig \/ RemoveFixtures
  BY <1>2, <1>3 DEF RunInit, MakeBackupDir, CopyConfig, CopyFixtures, RemoveConfig, RemoveFixtures, Return
<1>4. CASE BuildImages \/ StartContainer \/ OutOfAttempts \/ CheckHealth \/ CreateFixtures
  BY <1>2, <1>4 DEF BuildImages, StartContainer, OutOfAttempts, CheckHealth, CreateFixtures, Return, Fail
<1>5. CASE Discover \/ DiscoverNext
  BY <1>2, <1>5 DEF Discover, DiscoverNext, Fail
<1>6. CASE EndDiscovery \/ InteractiveModify
  <2>1. CASE pc' = "generate"
    <3>1. cap \in Nat /\ cap' = cap /\ path' = Root /\ stack' = <<>> /\ tests' = <<>>
      BY <1>6, <2>1 DEF EndDiscovery, InteractiveModify, Fail, CombinationsInv, Unbegun, ChoicesInv, Before
    <3> QED
      BY <1>1, <2>1, <3>1, WalkBegins DEF CombinationsInv, EveryCombinationIsTested
  <2>2. CASE pc' # "generate"
    <3>1. pc' \in {"modify", "clean"}
      BY <1>6, <2>2 DEF EndDiscovery, InteractiveModify, Fail
    <3> QED
      BY <1>2, <3>1
  <2> QED
    BY <2>1, <2>2
<1>7. CASE Generate \/ GenerateNext
  <2>1. AheadInv'
    BY <1>7, GenerateAhead, GenerateNextAhead DEF CombinationsInv
  <2>2. pc' \in {"generate", "clean"}
    BY <1>7 DEF Generate, GenerateNext, Fail
  <2> QED
    BY <1>1, <2>1, <2>2 DEF CombinationsInv, EveryCombinationIsTested
<1>8. CASE EndGeneration
  <2>1. EveryCombinationIsTested' /\ pc' = "write"
    BY <1>8, EndTested DEF CombinationsInv, EndGeneration
  <2> QED
    BY <1>1, <2>1 DEF CombinationsInv, AheadInv
<1>9. CASE WriteTestConfig \/ CleanupQaWarmup \/ RunTemplateTests \/ OfferBackup \/ StackOverflow \/ Kill \/ Exit
  BY <1>2, <1>9 DEF WriteTestConfig, CleanupQaWarmup, RunTemplateTests, OfferBackup, StackOverflow, Kill, Exit, Return, Fail
<1>10. CASE Finished \/ UNCHANGED vars
  <2>1. AheadInv'
    BY <1>10 DEF Finished, vars, CombinationsInv, AheadInv, StuckAtFirst, Choice
  <2>2. EveryCombinationIsTested'
    <3>1. UNCHANGED <<pc, tests, cap, interactive, kept>>
      BY <1>10 DEF Finished, vars
    <3>2. \A a : IsPath(a)' <=> IsPath(a)
      BY <3>1 DEF IsPath, Wanted
    <3> QED
      BY <3>1, <3>2 DEF CombinationsInv, EveryCombinationIsTested
  <2> QED
    BY <1>1, <2>1, <2>2 DEF CombinationsInv
<1> QED
  BY <1>3, <1>4, <1>5, <1>6, <1>7, <1>8, <1>9, <1>10 DEF Next, Step

\* The tests that are written are the paths through the template, each of them once,
\* or as many as --max-combinations allows: whatever the user has changed of what the
\* first walk discovered, which misses questions, and however deep the template is. It
\* is so for a template that never asks a question again, offers nothing twice, and
\* offers the same whatever the first answer was.
THEOREM EveryCombinationIsTestedAlways ==
    ASSUME LeadsForward, OffersFixed, NothingOfferedTwice
    PROVE  Spec => []EveryCombinationIsTested
<1>1. Init => WalkInv /\ CombinationsInv
  <2>1. Init => CombinationsInv
    BY DEF Init, CombinationsInv, Unbegun, ChoicesInv, AheadInv, EveryCombinationIsTested
  <2> QED
    BY <2>1, WalkInitially
<1>2. WalkInv /\ CombinationsInv /\ [Next]_vars => (WalkInv /\ CombinationsInv)'
  BY WalkKept, CombinationsKept
<1>3. WalkInv /\ CombinationsInv => EveryCombinationIsTested
  BY DEF CombinationsInv
<1> QED
  BY <1>1, <1>2, <1>3, PTL DEF Spec

=============================================================================
