------------------------- MODULE ProjectHistoryProofs -------------------------
(***************************************************************************)
(* Theorems about ProjectHistory: a command that stops on a question leaves *)
(* the project as it was, the user's edits survive, and, while nothing goes *)
(* wrong, the base of a merge is what was generated and a command that is   *)
(* done has recorded what it executed.                                      *)
(***************************************************************************)
EXTENDS ProjectHistory, TLAPS, FiniteSetTheorems, SequenceTheorems, WellFoundedInduction

\* A spec whose questions are answered, as the history has them.
PastSpec == [t : Template, version : Version, ans : Answer, at : Nat]

\* What can be generated for a path.
Outputs == Generated \cup {Absent}

Contents == Outputs \cup {Edited, Conflict, Torn}

Busy == pc \in {"execute", "write", "record"}

-----------------------------------------------------------------------------
(***************************************************************************)
(* The invariants.                                                         *)
(***************************************************************************)
DiskType ==
    /\ dir \in BOOLEAN
    /\ files \in [Path -> Contents]
    /\ readable \in {"absent", "ok", "torn"}
    /\ history \in [Template -> Seq(Entry)]
    /\ active \subseteq Template /\ managed \subseteq Path

WorldType ==
    /\ allowed \in Scenes
    /\ latest \in [Template -> Version] /\ now \in Nat
    /\ runs \in 0..MaxRuns

CommandType ==
    /\ pc \in {"idle", "execute", "write", "record", "exit"}
    /\ kind \in {"none", "new", "upgrade", "rerun", "update"}
    /\ headless \in BOOLEAN /\ madeDir \in BOOLEAN
    /\ supplied \in Answer \cup {NoAnswer}
    /\ prev \in Seq(PastSpec) /\ curr \in Seq(TemplateSpec)
    /\ todo \in Seq(Template) /\ loaded \in [Template -> Seq(Entry)]
    /\ \A i \in DOMAIN todo : todo[i] \in Installs(curr)
    /\ pc \in {"write", "record"} => \A i \in DOMAIN curr : curr[i].ans \in Answer

TypeInv == DiskType /\ WorldType /\ CommandType

\* A project in a directory that does not exist.
NoProject ==
    /\ files = [p \in Path |-> Absent]
    /\ readable = "absent" /\ history = [t \in Template |-> <<>>]
    /\ active = {} /\ managed = {}

\* Without the directory there is nothing, and a command that executes has it.
DirInv ==
    /\ ~dir => NoProject
    /\ Busy => dir

\* Until it writes, a command has done no more than create the directory.
UntouchedInv ==
    pc = "execute" => before = <<~madeDir, files, state>> /\ (madeDir => NoProject)

\* Nobody has edited a file in a directory that the command has created.
FreshInv == Busy /\ madeDir => \A p \in Path : files[p] # Edited

DiskInv == DirInv /\ UntouchedInv /\ FreshInv /\ StoppedRunLeavesProject

-----------------------------------------------------------------------------
\* What a spec generates for its own file, and what the history says of it.
OwnFile(c) == IF <<c.t, c.version>> \in Dropped THEN Absent ELSE Content(c)

RecordedFile(t) == IF Recorded(t) THEN OwnFile(SpecOf(t)) ELSE Absent

\* The spec c is the last entry of its template.
IsRecorded(c) ==
    /\ Recorded(c.t)
    /\ Last(history[c.t]).version = c.version
    /\ Last(history[c.t]).ans = c.ans

OncePerTemplate(s) == \A i, j \in DOMAIN s : s[i].t = s[j].t => i = j

\* Every recorded template is active, and the state file can be read.
CalmState ==
    /\ readable # "torn"
    /\ \A t \in Template : (t \in active <=> Recorded(t)) /\ (Recorded(t) => readable = "ok")

\* A file that nobody has edited is what its template's last entry says or,
\* when the command has written it and not recorded, what the command made.
FilesAreKnown ==
    \A t \in Template \ Ignored :
        files[t] \in {IF pc = "record" THEN Output(curr, t) ELSE RecordedFile(t), Edited, Conflict}

\* The lists of a command that creates or upgrades one template: the base is
\* what is recorded, and so is all that is generated but the target.
CalmLists ==
    /\ Busy => kind \in {"new", "upgrade"}
    /\ pc \in {"execute", "write"} =>
          /\ OncePerTemplate(prev) /\ Installs(prev) = Installed
          /\ \A i \in DOMAIN prev : prev[i] = SpecOf(prev[i].t)
    /\ Busy =>
          /\ OncePerTemplate(curr) /\ Installed \subseteq Installs(curr)
          /\ \A i \in DOMAIN curr : IsRecorded(curr[i]) \/ todo = <<curr[i].t>>
          /\ todo = <<>> \/ \E t \in Template : todo = <<t>>

CalmInv ==
    Calm => CalmState /\ FilesAreKnown /\ CalmLists /\ DoneIsRecorded

\* Only new templates and upgrades are considered when nothing goes wrong.
CalmKinds == \A s \in Scenes : s.faults = {} => s.kinds \subseteq {"new", "upgrade"}

-----------------------------------------------------------------------------
(***************************************************************************)
(* Lists of specs.                                                         *)
(***************************************************************************)
\* A nonempty set of positions has a last one.
LEMMA LastPosition ==
    ASSUME NEW n \in Nat, NEW S \in SUBSET (1..n), S # {}
    PROVE  \E i \in S : \A j \in S : j <= i
<1> DEFINE R == OpToRel(<, Nat)
           D == {n - i : i \in S}
<1>1. \A d, e \in Nat : d < e => <<d, e>> \in R
  BY DEF OpToRel
<1>2. IsWellFoundedOn(R, Nat)
  BY NatLessThanWellFounded
<1>3. D \subseteq Nat /\ D # {}
  <2>1. \A i \in S : n - i \in Nat /\ n - i \in D
    OBVIOUS
  <2> QED
    BY <2>1
<1>4. \A i \in S : n - i \in D /\ i \in Nat
  OBVIOUS
<1>5. \A d \in D : \E i \in S : d = n - i
  OBVIOUS
<1> HIDE DEF R, D
<1>6. PICK d \in D : \A e \in D : ~(<<e, d>> \in R)
  BY <1>2, <1>3, WFMin
<1>7. PICK i \in S : d = n - i
  BY <1>5
<1>8. ASSUME NEW j \in S PROVE j <= i
  <2>1. ~(n - j < n - i)
    BY <1>1, <1>3, <1>4, <1>6, <1>7
  <2> QED
    BY <1>4, <2>1
<1> QED
  BY <1>8

\* The orders of a finite set are the sequences that list each member once.
LEMMA OrderLists ==
    ASSUME NEW S, IsFiniteSet(S), NEW s \in AnyOrder(S)
    PROVE  /\ s \in Seq(S) /\ DOMAIN s = 1..Len(s)
           /\ \A i, j \in DOMAIN s : s[i] = s[j] => i = j
           /\ {s[i] : i \in DOMAIN s} = S
<1> DEFINE n == Cardinality(S)
<1>1. n \in Nat
  BY FS_CardinalityType
<1>2. s \in [1..n -> S] /\ \A i, j \in 1..n : i # j => s[i] # s[j]
  BY DEF AnyOrder, SetToSeqs
<1>3. IsFiniteSet(1..n) /\ Cardinality(1..n) = n
  BY <1>1, FS_Interval
<1> HIDE DEF n
<1>4. s \in Injection(1..n, S)
  BY <1>2 DEF Injection, IsInjective
<1>5. s \in Surjection(1..n, S)
  BY <1>3, <1>4, FS_Injection DEF n
<1> QED
  BY <1>1, <1>2, <1>5 DEF Surjection

\* The last entry of a template that has one.
LEMMA LastEntry ==
    ASSUME DiskType, NEW t \in Template, Recorded(t)
    PROVE  Last(history[t]) \in Entry /\ SpecOf(t) \in PastSpec /\ SpecOf(t).t = t
<1>1. history[t] \in Seq(Entry) /\ history[t] # <<>>
  BY DEF DiskType, Recorded
<1>2. Len(history[t]) \in Nat \ {0}
  BY <1>1, EmptySeq
<1>3. Last(history[t]) \in Entry
  BY <1>1, <1>2, LenProperties DEF Last
<1>4. ASSUME NEW e \in Entry
      PROVE  [t |-> t, version |-> e.version, ans |-> e.ans, at |-> e.time] \in PastSpec
  BY DEF Entry, PastSpec
<1> QED
  BY <1>3, <1>4 DEF SpecOf

\* The specs of the installed templates, in any order: each once.
LEMMA InstalledSpecs ==
    ASSUME DiskType, NEW s \in AnyOrder({SpecOf(u) : u \in Installed})
    PROVE  /\ s \in Seq(PastSpec) /\ DOMAIN s = 1..Len(s)
           /\ OncePerTemplate(s) /\ Installs(s) = Installed
           /\ \A i \in DOMAIN s : s[i].t \in Installed /\ s[i] = SpecOf(s[i].t)
<1> DEFINE S == {SpecOf(u) : u \in Installed}
           f == [u \in Installed |-> SpecOf(u)]
<1>1. IsFiniteSet(Installed)
  BY TemplateAssumption, FS_Subset DEF DiskType, Installed
<1>2. f \in Surjection(Installed, S)
  BY DEF Surjection
<1>3. IsFiniteSet(S)
  BY <1>1, <1>2, FS_Surjection
<1>4. /\ s \in Seq(S) /\ DOMAIN s = 1..Len(s)
      /\ \A i, j \in DOMAIN s : s[i] = s[j] => i = j
      /\ {s[i] : i \in DOMAIN s} = S
  BY <1>3, OrderLists
<1>5. \A u \in Installed : SpecOf(u) \in PastSpec /\ SpecOf(u).t = u
  BY LastEntry DEF Installed, DiskType
<1>6. S \subseteq PastSpec
  BY <1>5
<1>7. s \in Seq(PastSpec)
  BY <1>4, <1>6, SeqMonotonic
<1>8. \A i \in DOMAIN s : s[i].t \in Installed /\ s[i] = SpecOf(s[i].t)
  BY <1>4, <1>5
<1>9. OncePerTemplate(s)
  BY <1>4, <1>8 DEF OncePerTemplate
<1>10. ASSUME NEW u \in Installed PROVE u \in Installs(s)
  <2>1. PICK i \in DOMAIN s : s[i] = SpecOf(u)
    BY <1>4
  <2> QED
    BY <1>5, <2>1 DEF Installs
<1> QED
  BY <1>4, <1>7, <1>8, <1>9, <1>10 DEF Installs

-----------------------------------------------------------------------------
(***************************************************************************)
(* What a list generates for a path.                                       *)
(***************************************************************************)
LEMMA OutputType ==
    ASSUME NEW s \in Seq(TemplateSpec), \A i \in DOMAIN s : s[i].ans \in Answer, NEW p
    PROVE  Output(s, p) \in Outputs
<1> DEFINE from == {i \in DOMAIN s : Produces(s[i], p)}
<1>1. CASE from = {}
  BY <1>1 DEF Output, Outputs
<1>2. CASE from # {}
  <2>1. Len(s) \in Nat /\ DOMAIN s = 1..Len(s)
    BY LenProperties
  <2>2. \E i \in from : \A j \in from : j <= i
    BY <1>2, <2>1, LastPosition
  <2> DEFINE i == CHOOSE i \in from : \A j \in from : j <= i
  <2>3. i \in DOMAIN s
    BY <2>2
  <2>4. s[i] \in TemplateSpec /\ s[i].ans \in Answer
    BY <2>1, <2>3, ElementOfSeq
  <2>5. Output(s, p) = Content(s[i])
    BY <1>2 DEF Output
  <2> HIDE DEF i
  <2> QED
    BY <2>4, <2>5 DEF Content, TemplateSpec, Generated, Outputs
<1> QED
  BY <1>1, <1>2

\* A template's own file is generated by its own spec only.
LEMMA OwnOutput ==
    ASSUME NEW s \in Seq(TemplateSpec), OncePerTemplate(s), NEW t \in Template
    PROVE  /\ \A i \in DOMAIN s : s[i].t = t => Output(s, t) = OwnFile(s[i])
           /\ t \notin Installs(s) => Output(s, t) = Absent
<1> DEFINE from == {i \in DOMAIN s : Produces(s[i], t)}
<1>1. t # Shared
  BY PathAssumption
<1>2. \A i \in from : s[i].t = t /\ <<s[i].t, s[i].version>> \notin Dropped
  BY <1>1 DEF Produces
<1>3. ASSUME NEW i \in DOMAIN s, s[i].t = t PROVE Output(s, t) = OwnFile(s[i])
  <2>1. \A j \in from : j = i
    BY <1>2, <1>3 DEF OncePerTemplate
  <2>2. CASE i \in from
    <3>1. from = {i}
      BY <2>1, <2>2
    <3>2. i <= i
      BY LenProperties
    <3>3. (CHOOSE k \in from : \A j \in from : j <= k) = i
      BY <3>1, <3>2
    <3>4. Output(s, t) = Content(s[CHOOSE k \in from : \A j \in from : j <= k])
      BY <3>1 DEF Output
    <3> QED
      BY <1>2, <2>2, <3>3, <3>4 DEF OwnFile
  <2>3. CASE i \notin from
    <3>1. from = {}
      BY <2>1, <2>3
    <3>2. <<s[i].t, s[i].version>> \in Dropped
      BY <1>3, <2>3 DEF Produces
    <3> QED
      BY <3>1, <3>2 DEF Output, OwnFile
  <2> QED
    BY <2>2, <2>3
<1>4. ASSUME t \notin Installs(s) PROVE Output(s, t) = Absent
  <2>1. from = {}
    BY <1>2, <1>4 DEF Installs
  <2> QED
    BY <2>1 DEF Output
<1> QED
  BY <1>3, <1>4

-----------------------------------------------------------------------------
(***************************************************************************)
(* Lists made from lists: the same templates, in the same places.          *)
(***************************************************************************)
LEMMA Relist ==
    ASSUME NEW S, NEW s \in Seq(S), NEW T, NEW r,
           r = [i \in DOMAIN s |-> r[i]], \A i \in DOMAIN s : r[i] \in T
    PROVE  r \in Seq(T) /\ DOMAIN r = DOMAIN s /\ Len(r) = Len(s)
<1>1. Len(s) \in Nat /\ DOMAIN s = 1..Len(s)
  BY LenProperties
<1>2. r \in [1..Len(s) -> T] /\ DOMAIN r = DOMAIN s
  BY <1>1
<1> QED
  BY <1>1, <1>2, LenProperties

LEMMA PastSpecs ==
    ASSUME NEW s \in Seq(PastSpec)
    PROVE  s \in Seq(TemplateSpec) /\ \A i \in DOMAIN s : s[i] \in PastSpec /\ s[i].ans \in Answer
<1>1. PastSpec \subseteq TemplateSpec
  BY DEF PastSpec, TemplateSpec
<1>2. \A i \in DOMAIN s : s[i] \in PastSpec
  BY LenProperties, ElementOfSeq
<1> QED
  BY <1>1, <1>2, SeqMonotonic DEF PastSpec

\* Supplied answers change the answers of the templates of T, and nothing else.
LEMMA Seeded ==
    ASSUME NEW s \in Seq(TemplateSpec), NEW T, supplied' \in Answer \cup {NoAnswer}
    PROVE  /\ Seed(s, T) \in Seq(TemplateSpec) /\ DOMAIN Seed(s, T) = DOMAIN s
           /\ \A i \in DOMAIN s : /\ Seed(s, T)[i].t = s[i].t
                                  /\ s[i].t \notin T => Seed(s, T)[i] = s[i]
<1> DEFINE r == Seed(s, T)
<1>1. r = [i \in DOMAIN s |-> r[i]]
  BY DEF Seed
<1>2. ASSUME NEW i \in DOMAIN s
      PROVE  /\ r[i] \in TemplateSpec /\ r[i].t = s[i].t
             /\ s[i].t \notin T => r[i] = s[i]
  <2>1. s[i] \in TemplateSpec
    BY LenProperties, ElementOfSeq
  <2>2. r[i] = s[i] \/ (s[i].t \in T /\ r[i] = [s[i] EXCEPT !.ans = supplied'])
    BY DEF Seed
  <2>3. /\ [s[i] EXCEPT !.ans = supplied'] \in TemplateSpec
        /\ [s[i] EXCEPT !.ans = supplied'].t = s[i].t
    BY <2>1 DEF TemplateSpec
  <2> QED
    BY <2>1, <2>2, <2>3
<1> HIDE DEF r
<1>3. r \in Seq(TemplateSpec) /\ DOMAIN r = DOMAIN s
  BY <1>1, <1>2, Relist
<1> QED
  BY <1>2, <1>3 DEF r

LEMMA ResetType ==
    ASSUME NEW s \in Seq(TemplateSpec)
    PROVE  /\ Reset(s) \in Seq(TemplateSpec) /\ DOMAIN Reset(s) = DOMAIN s
           /\ \A i \in DOMAIN s : Reset(s)[i].t = s[i].t
<1> DEFINE r == Reset(s)
<1>1. r = [i \in DOMAIN s |-> r[i]]
  BY DEF Reset
<1>2. ASSUME NEW i \in DOMAIN s PROVE r[i] \in TemplateSpec /\ r[i].t = s[i].t
  <2>1. s[i] \in TemplateSpec
    BY LenProperties, ElementOfSeq
  <2>2. [s[i] EXCEPT !.ans = NoAnswer] \in TemplateSpec /\ [s[i] EXCEPT !.ans = NoAnswer].t = s[i].t
    BY <2>1 DEF TemplateSpec
  <2> QED
    BY <2>2 DEF Reset
<1> HIDE DEF r
<1>3. r \in Seq(TemplateSpec) /\ DOMAIN r = DOMAIN s
  BY <1>1, <1>2, Relist
<1> QED
  BY <1>2, <1>3 DEF r

LEMMA WithVersionType ==
    ASSUME NEW s \in Seq(TemplateSpec), NEW v \in [Template -> Version]
    PROVE  /\ WithVersion(s, v) \in Seq(TemplateSpec) /\ DOMAIN WithVersion(s, v) = DOMAIN s
           /\ \A i \in DOMAIN s : WithVersion(s, v)[i].t = s[i].t
<1> DEFINE r == WithVersion(s, v)
<1>1. r = [i \in DOMAIN s |-> r[i]]
  BY DEF WithVersion
<1>2. ASSUME NEW i \in DOMAIN s PROVE r[i] \in TemplateSpec /\ r[i].t = s[i].t
  <2>1. s[i] \in TemplateSpec
    BY LenProperties, ElementOfSeq
  <2>2. v[s[i].t] \in Version
    BY <2>1 DEF TemplateSpec
  <2>3. \A w \in Version : /\ [s[i] EXCEPT !.version = w] \in TemplateSpec
                           /\ [s[i] EXCEPT !.version = w].t = s[i].t
    BY <2>1 DEF TemplateSpec
  <2> QED
    BY <2>2, <2>3 DEF WithVersion
<1> HIDE DEF r
<1>3. r \in Seq(TemplateSpec) /\ DOMAIN r = DOMAIN s
  BY <1>1, <1>2, Relist
<1> QED
  BY <1>2, <1>3 DEF r

\* The target's spec gets version v.
LEMMA UpgradedList ==
    ASSUME NEW s \in Seq(TemplateSpec), NEW t, NEW v \in Version
    PROVE  /\ Upgraded(s, t, v) \in Seq(TemplateSpec) /\ DOMAIN Upgraded(s, t, v) = DOMAIN s
           /\ \A i \in DOMAIN s : /\ Upgraded(s, t, v)[i].t = s[i].t
                                  /\ s[i].t # t => Upgraded(s, t, v)[i] = s[i]
<1> DEFINE r == Upgraded(s, t, v)
<1>1. r = [i \in DOMAIN s |-> r[i]]
  BY DEF Upgraded
<1>2. ASSUME NEW i \in DOMAIN s
      PROVE  r[i] \in TemplateSpec /\ r[i].t = s[i].t /\ (s[i].t # t => r[i] = s[i])
  <2>1. s[i] \in TemplateSpec
    BY LenProperties, ElementOfSeq
  <2>2. [s[i] EXCEPT !.version = v] \in TemplateSpec /\ [s[i] EXCEPT !.version = v].t = s[i].t
    BY <2>1 DEF TemplateSpec
  <2> QED
    BY <2>1, <2>2 DEF Upgraded
<1> HIDE DEF r
<1>3. r \in Seq(TemplateSpec) /\ DOMAIN r = DOMAIN s
  BY <1>1, <1>2, Relist
<1> QED
  BY <1>2, <1>3 DEF r

-----------------------------------------------------------------------------
(***************************************************************************)
(* Every variable has its type.                                            *)
(***************************************************************************)
LEMMA TypeInit == Init => TypeInv
<1> SUFFICES ASSUME Init PROVE TypeInv
  OBVIOUS
<1>1. DiskType
  BY EmptySeq DEF Init, DiskType, Contents, Outputs
<1>2. WorldType
  BY VersionAssumption DEF Init, WorldType, Version
<1>3. loaded \in [Template -> Seq(Entry)] /\ <<>> \in Seq(PastSpec) /\ <<>> \in Seq(TemplateSpec) /\ <<>> \in Seq(Template)
  BY <1>1, EmptySeq DEF Init, DiskType
<1>4. \A i \in DOMAIN todo : FALSE
  BY DEF Init
<1>5. CommandType
  BY <1>3, <1>4 DEF Init, CommandType
<1> QED
  BY <1>1, <1>2, <1>5 DEF TypeInv

\* The scene of a behaviour.
LEMMA AllowedScene ==
    ASSUME WorldType PROVE allowed.answers \subseteq Answer /\ allowed.kinds \subseteq {"new", "upgrade", "rerun", "update"}
BY SceneAssumption DEF WorldType, Scene

LEMMA StartType ==
    ASSUME TypeInv, NEW k, Start(k), dir' \in BOOLEAN
    PROVE  /\ DiskType' /\ WorldType'
           /\ kind' = k /\ k \in {"new", "upgrade", "rerun", "update"}
           /\ headless' \in BOOLEAN /\ supplied' \in Answer \cup {NoAnswer}
<1>1. DiskType /\ WorldType
  BY DEF TypeInv
<1>2. UNCHANGED <<files, readable, history, active, managed, allowed, latest, now>>
  BY DEF Start, state
<1>3. DiskType'
  BY <1>1, <1>2 DEF DiskType
<1>4. runs' \in 0..MaxRuns
  BY <1>1, VersionAssumption DEF Start, Idle, WorldType
<1>5. WorldType'
  BY <1>1, <1>2, <1>4 DEF WorldType
<1> QED
  BY <1>1, <1>3, <1>5, AllowedScene DEF Start

LEMMA ListsType ==
    ASSUME TypeInv, NEW k, Start(k), dir' \in BOOLEAN, madeDir' \in BOOLEAN, pc' = "execute",
           prev' \in Seq(PastSpec), curr' \in Seq(TemplateSpec),
           todo' \in Seq(Template), \A i \in DOMAIN todo' : todo'[i] \in Installs(curr'),
           loaded' \in [Template -> Seq(Entry)]
    PROVE  TypeInv'
<1>1. Installs(curr)' = Installs(curr')
  BY DEF Installs
<1> QED
  BY <1>1, StartType DEF TypeInv, CommandType

LEMMA TargetType ==
    ASSUME NEW s, NEW t \in Template
    PROVE  /\ TargetIn(s, t) \in Seq(Template)
           /\ \A i \in DOMAIN TargetIn(s, t) : TargetIn(s, t)[i] \in Installs(s)
<1>1. CASE \E i \in DOMAIN s : s[i].t = t
  <2>1. TargetIn(s, t) = <<t>>
    BY <1>1 DEF TargetIn
  <2>2. t \in Installs(s)
    BY <1>1 DEF Installs
  <2> QED
    BY <2>1, <2>2
<1>2. CASE ~ \E i \in DOMAIN s : s[i].t = t
  <2>1. TargetIn(s, t) = <<>>
    BY <1>2 DEF TargetIn
  <2> QED
    BY <2>1, EmptySeq
<1> QED
  BY <1>1, <1>2

LEMMA CreateNewType ==
    ASSUME TypeInv, NEW t \in Template, CreateNew(t) PROVE TypeInv'
<1>1. DiskType /\ WorldType /\ CommandType
  BY DEF TypeInv
<1>2. Start("new") /\ dir' \in BOOLEAN /\ madeDir' \in BOOLEAN
  BY DEF CreateNew, CreateDir
<1>3. prev' \in AnyOrder({SpecOf(u) : u \in Installed})
  BY DEF CreateNew, SortSpecs
<1>4. prev' \in Seq(PastSpec)
  BY <1>1, <1>3, InstalledSpecs
<1>5. PICK v \in 1..latest[t] :
        curr' = Seed(Append(prev', [t |-> t, version |-> v, ans |-> NoAnswer, at |-> now]), {t})
  BY DEF CreateNew
<1> DEFINE new == [t |-> t, version |-> v, ans |-> NoAnswer, at |-> now]
           s == Append(prev', new)
<1>6. new \in TemplateSpec
  BY <1>1, VersionAssumption DEF WorldType, TemplateSpec, Version
<1>7. prev' \in Seq(TemplateSpec)
  BY <1>4, PastSpecs
<1>8. s \in Seq(TemplateSpec) /\ Len(prev') + 1 \in DOMAIN s /\ s[Len(prev') + 1].t = t
  BY <1>6, <1>7, AppendProperties, LenProperties
<1>9. supplied' \in Answer \cup {NoAnswer}
  BY <1>2, StartType
<1> HIDE DEF s
<1>10. curr' \in Seq(TemplateSpec) /\ DOMAIN curr' = DOMAIN s /\ \A i \in DOMAIN s : curr'[i].t = s[i].t
  BY <1>5, <1>8, <1>9, Seeded DEF s
<1>11. t \in Installs(curr')
  BY <1>8, <1>10 DEF Installs
<1>12. todo' = <<t>> /\ loaded' = loaded /\ pc' = "execute"
  BY DEF CreateNew
<1>13. todo' \in Seq(Template) /\ \A i \in DOMAIN todo' : todo'[i] \in Installs(curr')
  BY <1>11, <1>12
<1> QED
  BY <1>1, <1>2, <1>4, <1>10, <1>12, <1>13, ListsType DEF CommandType

LEMMA CreateUpgradeType ==
    ASSUME TypeInv, NEW t \in Template, CreateUpgrade(t) PROVE TypeInv'
<1>1. DiskType /\ WorldType /\ CommandType
  BY DEF TypeInv
<1>2. Start("upgrade") /\ dir' \in BOOLEAN /\ madeDir' \in BOOLEAN
  BY DEF CreateUpgrade, CreateDir
<1>3. PICK v \in 1..latest[t] :
        /\ prev' \in AnyOrder({SpecOf(u) : u \in Installed})
        /\ curr' = Seed(Upgraded(prev', t, v), {t})
  BY DEF CreateUpgrade
<1>4. prev' \in Seq(PastSpec) /\ prev' \in Seq(TemplateSpec)
  BY <1>1, <1>3, InstalledSpecs, PastSpecs
<1>5. v \in Version
  BY <1>1, VersionAssumption DEF WorldType, Version
<1>6. Upgraded(prev', t, v) \in Seq(TemplateSpec)
  BY <1>4, <1>5, UpgradedList
<1>7. supplied' \in Answer \cup {NoAnswer}
  BY <1>2, StartType
<1>8. curr' \in Seq(TemplateSpec)
  BY <1>3, <1>6, <1>7, Seeded
<1>9. todo' = TargetIn(curr', t) /\ loaded' = loaded /\ pc' = "execute"
  BY DEF CreateUpgrade
<1>10. todo' \in Seq(Template) /\ \A i \in DOMAIN todo' : todo'[i] \in Installs(curr')
  BY <1>9, TargetType
<1> QED
  BY <1>1, <1>2, <1>4, <1>8, <1>9, <1>10, ListsType DEF CommandType

LEMMA CreateRerunType ==
    ASSUME TypeInv, NEW t \in Template, CreateRerun(t) PROVE TypeInv'
<1>1. DiskType /\ WorldType /\ CommandType
  BY DEF TypeInv
<1>2. Start("rerun") /\ dir' \in BOOLEAN /\ madeDir' \in BOOLEAN
  BY DEF CreateRerun, CreateDir
<1>3. /\ prev' \in AnyOrder({SpecOf(u) : u \in Installed})
      /\ curr' = Seed(Reset(prev'), {t}) /\ todo' = TargetIn(curr', t)
      /\ loaded' = loaded /\ pc' = "execute"
  BY DEF CreateRerun
<1>4. prev' \in Seq(PastSpec) /\ prev' \in Seq(TemplateSpec)
  BY <1>1, <1>3, InstalledSpecs, PastSpecs
<1>5. supplied' \in Answer \cup {NoAnswer}
  BY <1>2, StartType
<1>6. curr' \in Seq(TemplateSpec)
  BY <1>3, <1>4, <1>5, ResetType, Seeded
<1>7. todo' \in Seq(Template) /\ \A i \in DOMAIN todo' : todo'[i] \in Installs(curr')
  BY <1>3, TargetType
<1> QED
  BY <1>1, <1>2, <1>3, <1>4, <1>6, <1>7, ListsType DEF CommandType

LEMMA UpdateStepType ==
    ASSUME TypeInv, Update PROVE TypeInv'
<1>1. DiskType /\ WorldType /\ CommandType
  BY DEF TypeInv
<1>2. /\ Start("update") /\ dir' = dir /\ madeDir' = FALSE /\ pc' = "execute"
      /\ loaded' = history /\ prev' \in AnyOrder({SpecOf(u) : u \in Installed})
  BY DEF Update, SortSpecs
<1>3. PICK v \in [Template -> Version] :
        LET upgraded == {u \in Installed : v[u] # SpecOf(u).version}
        IN /\ curr' = Seed(WithVersion(prev', v), upgraded)
           /\ todo' \in InOrderOf(prev', upgraded)
  BY DEF Update
<1> DEFINE upgraded == {u \in Installed : v[u] # SpecOf(u).version}
<1>4. /\ prev' \in Seq(PastSpec) /\ prev' \in Seq(TemplateSpec) /\ Installs(prev') = Installed
  BY <1>1, <1>2, InstalledSpecs, PastSpecs
<1>5. supplied' \in Answer \cup {NoAnswer} /\ dir' \in BOOLEAN
  BY <1>1, <1>2, StartType DEF DiskType
<1>6. /\ curr' \in Seq(TemplateSpec) /\ DOMAIN curr' = DOMAIN prev'
      /\ \A i \in DOMAIN prev' : curr'[i].t = prev'[i].t
  BY <1>3, <1>4, <1>5, WithVersionType, Seeded
<1>7. Installs(curr') = Installed
  BY <1>4, <1>6 DEF Installs
<1>8. upgraded \subseteq Template /\ upgraded \subseteq Installed
  BY <1>1 DEF DiskType, Installed
<1>9. IsFiniteSet(upgraded) /\ todo' \in AnyOrder(upgraded)
  BY <1>3, <1>8, TemplateAssumption, FS_Subset DEF InOrderOf
<1> HIDE DEF upgraded
<1>10. todo' \in Seq(upgraded) /\ {todo'[i] : i \in DOMAIN todo'} = upgraded
  BY <1>9, OrderLists
<1>11. todo' \in Seq(Template) /\ \A i \in DOMAIN todo' : todo'[i] \in Installs(curr')
  BY <1>7, <1>8, <1>10, SeqMonotonic
<1> QED
  BY <1>1, <1>2, <1>4, <1>5, <1>6, <1>11, ListsType DEF DiskType

\* What is merged is the file there was, or what a list generates, or a conflict.
LEMMA MergedType ==
    ASSUME TypeInv, pc = "write"
    PROVE  /\ Merged \in [Path -> Contents]
           /\ \A p \in Path : Merged[p] \in Outputs \cup {Conflict} \/ (p \notin Ignored /\ Merged[p] = files[p])
<1> SUFFICES ASSUME NEW p \in Path
             PROVE  /\ Merged[p] \in Contents
                    /\ Merged[p] \in Outputs \cup {Conflict} \/ (p \notin Ignored /\ Merged[p] = files[p])
  BY DEF Merged
<1>1. DiskType /\ CommandType
  BY DEF TypeInv
<1>2. Output(prev, p) \in Outputs
  BY <1>1, PastSpecs, OutputType DEF CommandType
<1>3. Output(curr, p) \in Outputs
  BY <1>1, OutputType DEF CommandType
<1>4. CASE p \in Ignored
  <2>1. Merged[p] = Output(prev, p) \/ Merged[p] = Output(curr, p)
    BY <1>4 DEF Merged, MergeIgnored
  <2> QED
    BY <1>2, <1>3, <2>1 DEF Contents
<1>5. CASE p \notin Ignored
  <2>1. Merged[p] \in {Output(prev, p), files[p], Output(curr, p), Conflict}
    BY <1>5 DEF Merged, Merge3, LoadLocalFiles
  <2> QED
    BY <1>1, <1>2, <1>3, <1>5, <2>1 DEF DiskType, Contents
<1> QED
  BY <1>4, <1>5

LEMMA WrittenType ==
    ASSUME TypeInv, pc = "write", NEW P
    PROVE  Written(P) \in [Path -> Contents]
BY MergedType DEF Written, TypeInv, DiskType

LEMMA WrittenInPartType ==
    ASSUME TypeInv, pc = "write", WrittenInPart
    PROVE  files' \in [Path -> Contents]
<1>1. ASSUME NEW P PROVE Written(P) \in [Path -> Contents]
  BY WrittenType
<1>2. CASE \E P \in SUBSET Path : files' = Written(P)
  BY <1>1, <1>2
<1>3. CASE \E P \in SUBSET Path : \E p \in Path : files' = [Written(P) EXCEPT ![p] = Torn]
  <2>1. PICK P \in SUBSET Path, p \in Path : files' = [Written(P) EXCEPT ![p] = Torn]
    BY <1>3
  <2>2. Torn \in Contents
    BY DEF Contents
  <2> QED
    BY <1>1, <2>1, <2>2
<1> QED
  BY <1>2, <1>3 DEF WrittenInPart

LEMMA RemoveType ==
    ASSUME RemoveCreatedDir PROVE DiskType' /\ ~dir' /\ NoProject'
<1>1. ~dir' /\ NoProject'
  BY DEF RemoveCreatedDir, NoProject
<1>2. dir' \in BOOLEAN /\ files' \in [Path -> Contents] /\ readable' \in {"absent", "ok", "torn"}
  BY DEF RemoveCreatedDir, Contents, Outputs
<1>3. <<>> \in Seq(Entry)
  BY EmptySeq
<1>4. history' \in [Template -> Seq(Entry)] /\ active' \subseteq Template /\ managed' \subseteq Path
  BY <1>3 DEF RemoveCreatedDir
<1> QED
  BY <1>1, <1>2, <1>4 DEF DiskType

LEMMA AbandonType ==
    ASSUME DiskType, NEW r, Abandon(r) PROVE DiskType' /\ pc' = "exit"
<1>1. CASE RemoveCreatedDir
  BY <1>1, RemoveType DEF Abandon
<1>2. CASE UNCHANGED project
  BY <1>2 DEF project, state, DiskType, Abandon
<1> QED
  BY <1>1, <1>2 DEF Abandon

\* A step that does not touch the command's lists leaves them well formed.
LEMMA CommandFrame ==
    ASSUME CommandType, UNCHANGED <<kind, headless, madeDir, supplied, prev, curr, todo, loaded>>,
           pc' \in {"idle", "execute", "write", "record", "exit"},
           pc' \in {"write", "record"} => pc \in {"write", "record"}
    PROVE  CommandType'
BY DEF CommandType, Installs

LEMMA ExecuteType ==
    ASSUME TypeInv, Execute PROVE TypeInv'
<1>1. DiskType /\ WorldType /\ CommandType
  BY DEF TypeInv
<1>2. /\ UNCHANGED <<allowed, latest, now, runs>>
      /\ UNCHANGED <<kind, headless, madeDir, supplied, prev, todo, loaded>>
  BY DEF Execute
<1>3. WorldType'
  BY <1>1, <1>2 DEF WorldType
<1>4. CASE UNCHANGED curr /\ (Abandon("need_input") \/ Abandon("failed"))
  <2>1. DiskType' /\ pc' = "exit"
    BY <1>1, <1>4, AbandonType
  <2> QED
    BY <1>1, <1>2, <1>3, <1>4, <2>1, CommandFrame DEF TypeInv
<1>5. ASSUME NEW a \in [DOMAIN curr -> allowed.answers],
             curr' = [i \in DOMAIN curr |-> [curr[i] EXCEPT !.ans = a[i]]],
             pc' = "write", UNCHANGED <<project, outcome>>
      PROVE  TypeInv'
  <2>1. DiskType'
    BY <1>1, <1>5 DEF DiskType, project, state
  <2>2. curr \in Seq(TemplateSpec) /\ DOMAIN curr = 1..Len(curr)
    BY <1>1, LenProperties DEF CommandType
  <2>3. ASSUME NEW i \in DOMAIN curr
        PROVE  curr'[i] \in TemplateSpec /\ curr'[i].ans \in Answer /\ curr'[i].t = curr[i].t
    <3>1. curr[i] \in TemplateSpec
      BY <2>2, ElementOfSeq
    <3>2. a[i] \in Answer
      BY <1>1, AllowedScene
    <3>3. \A x \in Answer : /\ [curr[i] EXCEPT !.ans = x] \in TemplateSpec
                            /\ [curr[i] EXCEPT !.ans = x].ans \in Answer
                            /\ [curr[i] EXCEPT !.ans = x].t = curr[i].t
      BY <3>1 DEF TemplateSpec
    <3> QED
      BY <1>5, <3>2, <3>3
  <2>4. curr' = [i \in DOMAIN curr |-> curr'[i]]
    BY <1>5
  <2>5. curr' \in Seq(TemplateSpec) /\ DOMAIN curr' = DOMAIN curr
    BY <2>2, <2>3, <2>4, Relist
  <2>6. Installs(curr)' = Installs(curr)
    BY <2>3, <2>5 DEF Installs
  <2> QED
    BY <1>1, <1>2, <1>3, <1>5, <2>1, <2>3, <2>5, <2>6 DEF TypeInv, CommandType
<1> QED
  BY <1>4, <1>5 DEF Execute

LEMMA WriteType ==
    ASSUME TypeInv, Write PROVE TypeInv'
<1>1. DiskType /\ WorldType /\ CommandType /\ pc = "write"
  BY DEF TypeInv, Write
<1>2. UNCHANGED <<allowed, latest, now, command, runs>> /\ pc' \in {"record", "exit"}
  BY DEF Write
<1>3. WorldType' /\ CommandType'
  BY <1>1, <1>2, CommandFrame DEF WorldType, command
<1>4. CASE RemoveCreatedDir
  BY <1>3, <1>4, RemoveType DEF TypeInv
<1>5. ASSUME files' = Written(Path) \/ WrittenInPart, UNCHANGED <<dir, state>> PROVE DiskType'
  BY <1>1, <1>5, WrittenType, WrittenInPartType DEF DiskType, state
<1> QED
  BY <1>3, <1>4, <1>5 DEF Write, TypeInv

\* What the state file holds once t is recorded.
LEMMA AppendedType ==
    ASSUME TypeInv, pc = "record", todo # <<>>
    PROVE  /\ Head(todo) \in Template /\ Tail(todo) \in Seq(Template)
           /\ Head(todo) \in Installs(curr)
           /\ \A i \in DOMAIN Tail(todo) : Tail(todo)[i] \in Installs(curr)
           /\ SpecIn(curr, Head(todo)) \in TemplateSpec
           /\ Appended(Head(todo)) \in [Template -> Seq(Entry)]
           /\ Activated(Head(todo)) \subseteq Template
<1>1. DiskType /\ WorldType /\ CommandType
  BY DEF TypeInv
<1>2. todo \in Seq(Template) /\ Len(todo) \in Nat \ {0} /\ DOMAIN todo = 1..Len(todo)
  BY <1>1, EmptySeq, LenProperties DEF CommandType
<1>3. /\ Head(todo) \in Template /\ Tail(todo) \in Seq(Template) /\ Len(Tail(todo)) = Len(todo) - 1
      /\ \A i \in 1..Len(Tail(todo)) : Tail(todo)[i] = todo[i + 1]
  BY <1>2, HeadTailProperties
<1>4. Head(todo) \in Installs(curr)
  BY <1>1, <1>2 DEF CommandType
<1>5. ASSUME NEW i \in DOMAIN Tail(todo) PROVE Tail(todo)[i] \in Installs(curr)
  <2>1. DOMAIN Tail(todo) = 1..Len(Tail(todo))
    BY <1>3, LenProperties
  <2>2. Tail(todo)[i] = todo[i + 1] /\ i + 1 \in DOMAIN todo
    BY <1>2, <1>3, <2>1
  <2> QED
    BY <1>1, <2>2 DEF CommandType
<1> DEFINE t == Head(todo)
           k == CHOOSE i \in DOMAIN curr : curr[i].t = t
<1>6. k \in DOMAIN curr /\ SpecIn(curr, t) = curr[k]
  BY <1>4 DEF Installs, SpecIn
<1>7. curr[k] \in TemplateSpec /\ curr[k].ans \in Answer
  BY <1>1, <1>6, LenProperties, ElementOfSeq DEF CommandType
<1> HIDE DEF k
<1> DEFINE e == [version |-> curr[k].version, ans |-> curr[k].ans, time |-> now]
<1>8. e \in Entry
  BY <1>1, <1>7 DEF WorldType, TemplateSpec, Entry
<1>9. Appended(t) = [history EXCEPT ![t] = Append(history[t], e)]
  BY <1>6 DEF Appended
<1>10. history \in [Template -> Seq(Entry)]
  BY <1>1 DEF DiskType
<1> HIDE DEF e, t
<1>11. t \in Template
  BY <1>3 DEF t
<1>12. Append(history[t], e) \in Seq(Entry)
  BY <1>8, <1>10, <1>11, AppendProperties
<1>13. Appended(t) \in [Template -> Seq(Entry)]
  BY <1>9, <1>10, <1>12
<1>14. Activated(t) \subseteq Template
  BY <1>1, <1>11 DEF DiskType, Activated
<1> QED
  BY <1>3, <1>4, <1>5, <1>6, <1>7, <1>13, <1>14 DEF t

\* A save that is cut off leaves a state file of the same type.
LEMMA StateCutOffType ==
    ASSUME TypeInv, pc = "record", StateCutOff, UNCHANGED <<dir, files>> PROVE DiskType'
<1>1. DiskType /\ CommandType
  BY DEF TypeInv
<1> DEFINE h == IF todo = <<>> THEN SavedHistory ELSE Appended(Head(todo))
           a == IF todo = <<>> THEN active ELSE Activated(Head(todo))
<1>2. managed' = {} /\ active' \subseteq a
  BY DEF StateCutOff
<1>3. h \in [Template -> Seq(Entry)] /\ a \subseteq Template
  BY <1>1, AppendedType DEF DiskType, CommandType, SavedHistory
<1>4. \/ readable' = "torn" /\ UNCHANGED history
      \/ readable' = "ok" /\ \E T \in SUBSET Template :
            history' = [t \in Template |-> IF t \in T THEN h[t] ELSE <<>>]
  BY DEF StateCutOff
<1> HIDE DEF h, a
<1>5. <<>> \in Seq(Entry)
  BY EmptySeq
<1>6. history' \in [Template -> Seq(Entry)] /\ readable' \in {"ok", "torn"}
  BY <1>1, <1>3, <1>4, <1>5 DEF DiskType
<1> QED
  BY <1>1, <1>2, <1>3, <1>6 DEF DiskType

LEMMA SaveTemplateMetadataType ==
    ASSUME TypeInv, SaveTemplateMetadata PROVE TypeInv'
<1>1. /\ DiskType /\ WorldType /\ CommandType /\ pc = "record" /\ todo # <<>>
      /\ UNCHANGED <<allowed, latest, kind, headless, madeDir, supplied, prev, curr, loaded, runs>>
  BY DEF TypeInv, SaveTemplateMetadata
<1>2. CASE /\ history' = Appended(Head(todo)) /\ active' = Activated(Head(todo))
           /\ readable' = "ok" /\ todo' = Tail(todo) /\ now' = now + 1
           /\ UNCHANGED <<dir, files, managed, pc, outcome>>
  <2>1. DiskType'
    BY <1>1, <1>2, AppendedType DEF DiskType
  <2>2. WorldType'
    BY <1>1, <1>2 DEF WorldType
  <2>3. Installs(curr)' = Installs(curr)
    BY <1>1 DEF Installs
  <2>4. CommandType'
    BY <1>1, <1>2, <2>3, AppendedType DEF CommandType
  <2> QED
    BY <2>1, <2>2, <2>4 DEF TypeInv
<1>3. CASE Abandon("uncommitted") /\ UNCHANGED <<todo, now>>
  <2>1. DiskType' /\ pc' = "exit"
    BY <1>1, <1>3, AbandonType
  <2>2. WorldType' /\ CommandType'
    BY <1>1, <1>3, <2>1, CommandFrame DEF WorldType
  <2> QED
    BY <2>1, <2>2 DEF TypeInv
<1>4. CASE pc' = "exit" /\ StateCutOff /\ UNCHANGED <<dir, files, todo, now>>
  <2>1. DiskType'
    BY <1>1, <1>4, StateCutOffType
  <2>2. WorldType' /\ CommandType'
    BY <1>1, <1>4, CommandFrame DEF WorldType
  <2> QED
    BY <2>1, <2>2 DEF TypeInv
<1> QED
  BY <1>2, <1>3, <1>4 DEF SaveTemplateMetadata

LEMMA SaveStateFileType ==
    ASSUME TypeInv, SaveStateFile PROVE TypeInv'
<1>1. /\ DiskType /\ WorldType /\ CommandType /\ pc = "record" /\ pc' = "exit"
      /\ UNCHANGED <<dir, files, allowed, latest, now, command, runs>>
  BY DEF TypeInv, SaveStateFile
<1>2. WorldType' /\ CommandType'
  BY <1>1, CommandFrame DEF WorldType, command
<1>3. SavedHistory \in [Template -> Seq(Entry)]
  BY <1>1 DEF DiskType, CommandType, SavedHistory
<1>4. ManagedBy(curr) \subseteq Path
  BY DEF ManagedBy
<1>5. CASE StateCutOff
  BY <1>1, <1>2, <1>5, StateCutOffType DEF TypeInv
<1>6. CASE ~StateCutOff
  <2>1. /\ history' \in {history, SavedHistory} /\ managed' \in {managed, ManagedBy(curr)}
        /\ readable' \in {readable, "ok"} /\ active' = active
    BY <1>6 DEF SaveStateFile, state
  <2>2. DiskType'
    BY <1>1, <1>3, <1>4, <2>1 DEF DiskType
  <2> QED
    BY <1>2, <2>2 DEF TypeInv
<1> QED
  BY <1>5, <1>6

LEMMA ExitType ==
    ASSUME TypeInv, Exit PROVE TypeInv'
<1>1. DiskType' /\ WorldType'
  BY DEF TypeInv, Exit, project, state, DiskType, WorldType
<1>2. <<>> \in Seq(Entry) /\ <<>> \in Seq(PastSpec) /\ <<>> \in Seq(TemplateSpec) /\ <<>> \in Seq(Template)
  BY EmptySeq
<1>3. /\ pc' = "idle" /\ kind' = "none" /\ headless' = FALSE /\ madeDir' = FALSE
      /\ supplied' = NoAnswer /\ prev' = <<>> /\ curr' = <<>> /\ todo' = <<>>
      /\ loaded' = [t \in Template |-> <<>>]
  BY DEF Exit
<1>4. \A i \in DOMAIN todo' : FALSE
  BY <1>3
<1>5. CommandType'
  BY <1>2, <1>3, <1>4 DEF CommandType
<1> QED
  BY <1>1, <1>5 DEF TypeInv

LEMMA CrashType ==
    ASSUME TypeInv, Crash \/ CrashInWrite \/ CrashInSave PROVE TypeInv'
<1>1. DiskType /\ WorldType /\ CommandType
  BY DEF TypeInv
<1>2. UNCHANGED <<allowed, latest, now, command, runs>> /\ pc' = "exit" /\ pc \notin {"idle", "exit"}
  BY DEF Crash, CrashInWrite, CrashInSave, Die
<1>3. WorldType' /\ CommandType'
  BY <1>1, <1>2, CommandFrame DEF WorldType, command
<1>4. CASE Crash
  BY <1>1, <1>3, <1>4 DEF Crash, project, state, DiskType, TypeInv
<1>5. CASE CrashInWrite
  <2>1. pc = "write" /\ WrittenInPart /\ UNCHANGED <<dir, state>>
    BY <1>5 DEF CrashInWrite
  <2>2. DiskType'
    BY <1>1, <2>1, WrittenInPartType DEF DiskType, state
  <2> QED
    BY <1>3, <2>2 DEF TypeInv
<1>6. CASE CrashInSave
  BY <1>3, <1>6, StateCutOffType DEF CrashInSave, TypeInv
<1> QED
  BY <1>4, <1>5, <1>6

LEMMA BetweenType ==
    ASSUME TypeInv, EditFile \/ Publish \/ Deactivate PROVE TypeInv'
<1>1. DiskType /\ WorldType /\ CommandType
  BY DEF TypeInv
<1>2. UNCHANGED <<dir, readable, history, managed, allowed, now, pc, command, runs>>
  BY DEF EditFile, Publish, Deactivate, project, state
<1>3. CommandType'
  BY <1>1, <1>2, CommandFrame DEF command, CommandType
<1>4. CASE EditFile
  <2>1. UNCHANGED <<active, latest>> /\ \E p \in Path : files' = [files EXCEPT ![p] = Edited]
    BY <1>4 DEF EditFile, state
  <2>2. files' \in [Path -> Contents]
    BY <1>1, <2>1 DEF DiskType, Contents
  <2> QED
    BY <1>1, <1>2, <1>3, <2>1, <2>2 DEF TypeInv, DiskType, WorldType
<1>5. CASE Publish
  <2>1. UNCHANGED <<active, files>>
    BY <1>5 DEF Publish, project, state
  <2>2. PICK t \in Template : latest[t] < MaxVersion /\ latest' = [latest EXCEPT ![t] = latest[t] + 1]
    BY <1>5 DEF Publish
  <2>3. latest[t] + 1 \in Version
    BY <1>1, <2>2, VersionAssumption DEF WorldType, Version
  <2>4. latest' \in [Template -> Version]
    BY <1>1, <2>2, <2>3 DEF WorldType
  <2> QED
    BY <1>1, <1>2, <1>3, <2>1, <2>4 DEF TypeInv, DiskType, WorldType
<1>6. CASE Deactivate
  <2>1. UNCHANGED <<files, latest>> /\ active' \subseteq active
    BY <1>6 DEF Deactivate
  <2> QED
    BY <1>1, <1>2, <1>3, <2>1 DEF TypeInv, DiskType, WorldType
<1> QED
  BY <1>4, <1>5, <1>6

LEMMA NoExecutionType ==
    ASSUME TypeInv, RefuseTorn \/ UpdateNothing PROVE TypeInv'
<1>1. PICK k \in allowed.kinds : Start(k)
  BY DEF RefuseTorn, UpdateNothing, Start
<1>2. pc' = "exit" /\ UNCHANGED <<dir, madeDir, prev, curr, todo, loaded>>
  BY DEF RefuseTorn, UpdateNothing
<1>3. dir' \in BOOLEAN
  BY <1>2 DEF TypeInv, DiskType
<1>4. /\ DiskType' /\ WorldType' /\ kind' \in {"new", "upgrade", "rerun", "update"}
      /\ headless' \in BOOLEAN /\ supplied' \in Answer \cup {NoAnswer}
  BY <1>1, <1>3, StartType
<1>5. Installs(curr)' = Installs(curr)
  BY <1>2 DEF Installs
<1>6. CommandType'
  BY <1>2, <1>4, <1>5 DEF TypeInv, CommandType
<1> QED
  BY <1>4, <1>6 DEF TypeInv

LEMMA TypeStep == TypeInv /\ [Next]_vars => TypeInv'
<1> SUFFICES ASSUME TypeInv, [Next]_vars PROVE TypeInv'
  OBVIOUS
<1>1. CASE UNCHANGED vars
  <2>1. UNCHANGED <<dir, files, readable, history, active, managed>> /\ UNCHANGED <<allowed, latest, now, runs, pc>>
    BY <1>1 DEF vars, project, state
  <2>2. UNCHANGED <<kind, headless, madeDir, supplied, prev, curr, todo, loaded>>
    BY <1>1 DEF vars, command
  <2>3. CommandType'
    BY <2>1, <2>2, CommandFrame DEF TypeInv, CommandType
  <2> QED
    BY <2>1, <2>3 DEF TypeInv, DiskType, WorldType
<1>2. CASE Done
  BY <1>1, <1>2 DEF Done
<1> QED
  BY <1>1, <1>2, NoExecutionType, UpdateStepType, CreateNewType, CreateUpgradeType, CreateRerunType,
     ExecuteType, WriteType, SaveTemplateMetadataType, SaveStateFileType, ExitType, CrashType, BetweenType
     DEF Next

LEMMA TypeInvariant == Spec => []TypeInv
BY TypeInit, TypeStep, PTL DEF Spec

LEMMA TypeImplies == TypeInv => TypeOK
<1> SUFFICES ASSUME TypeInv PROVE TypeOK
  OBVIOUS
<1>1. DiskType /\ WorldType /\ CommandType
  BY DEF TypeInv
<1>2. \A t \in Template : \A i \in DOMAIN history[t] : history[t][i] \in Entry
  BY <1>1, LenProperties, ElementOfSeq DEF DiskType
<1>3. \A i \in DOMAIN prev : prev[i] \in TemplateSpec /\ prev[i].ans # NoAnswer
  BY <1>1, PastSpecs, LenProperties, ElementOfSeq, AnswerAssumption DEF CommandType
<1>4. \A i \in DOMAIN curr : curr[i] \in TemplateSpec
  BY <1>1, LenProperties, ElementOfSeq DEF CommandType
<1>5. allowed \in Scene
  BY <1>1, SceneAssumption DEF WorldType
<1>6. files \in [Path -> Generated \cup {Absent, Edited, Conflict, Torn}]
  BY <1>1 DEF DiskType, Contents, Outputs
<1> QED
  BY <1>1, <1>2, <1>3, <1>4, <1>5, <1>6 DEF DiskType, WorldType, CommandType, TypeOK

\* Every variable has its type: in particular the lists hold specs of
\* published versions and what is still to record is in the list of the batch.
THEOREM TypeCorrect == Spec => []TypeOK
BY TypeInvariant, TypeImplies, PTL

-----------------------------------------------------------------------------
(***************************************************************************)
(* What commands do to the disk.                                           *)
(***************************************************************************)
LEMMA DiskInit == Init => DiskInv
BY DEF Init, DiskInv, DirInv, UntouchedInv, FreshInv, StoppedRunLeavesProject, NoProject, Busy

LEMMA NothingIsEdited ==
    \A o \in Outputs \cup {Conflict} : o # Edited /\ o # Torn
BY ContentAssumption DEF Outputs

LEMMA StartOnDisk ==
    ASSUME TypeInv, DiskInv, NEW k, Start(k), pc' = "execute",
           CreateDir \/ (dir /\ dir' = dir /\ madeDir' = FALSE)
    PROVE  DiskInv'
<1>1. /\ before' = <<dir, files, state>> /\ UNCHANGED <<files, readable, history, active, managed>>
      /\ dir \in BOOLEAN
  BY DEF Start, project, state, TypeInv, DiskType
<1>2. dir' = TRUE /\ madeDir' = ~dir
  BY <1>1 DEF CreateDir
<1>3. ~dir => NoProject
  BY DEF DiskInv, DirInv
<1>4. state' = state
  BY <1>1 DEF state
<1>5. UntouchedInv'
  BY <1>1, <1>2, <1>3, <1>4 DEF UntouchedInv, NoProject
<1>6. NoProject => \A p \in Path : files[p] # Edited
  BY ContentAssumption DEF NoProject
<1>7. FreshInv'
  BY <1>1, <1>2, <1>3, <1>6 DEF FreshInv
<1>8. DirInv' /\ StoppedRunLeavesProject'
  BY <1>2 DEF DirInv, StoppedRunLeavesProject
<1> QED
  BY <1>5, <1>7, <1>8 DEF DiskInv

\* An end of a command that reports neither a question nor a failure.
LEMMA OtherEnd ==
    ASSUME DirInv', pc' = "exit", outcome' \notin {"need_input", "failed", "refused"}
    PROVE  DiskInv'
BY DEF DiskInv, UntouchedInv, FreshInv, StoppedRunLeavesProject, Busy

LEMMA ExecuteOnDisk ==
    ASSUME TypeInv, DiskInv, Execute PROVE DiskInv'
<1>1. /\ pc = "execute" /\ dir /\ before = <<~madeDir, files, state>> /\ (madeDir => NoProject)
      /\ UNCHANGED <<headless, madeDir, before>> /\ madeDir \in BOOLEAN /\ headless \in BOOLEAN /\ dir \in BOOLEAN
  BY DEF Execute, DiskInv, DirInv, UntouchedInv, Busy, TypeInv, CommandType, DiskType
<1>2. ASSUME NEW r, Abandon(r) PROVE DiskInv'
  <2>1. pc' = "exit"
    BY <1>2 DEF Abandon
  <2>2. CASE headless /\ madeDir
    <3>1. RemoveCreatedDir
      BY <1>2, <2>2 DEF Abandon
    <3>2. dir' = FALSE /\ files' = files /\ state' = state /\ NoProject'
      BY <1>1, <2>2, <3>1 DEF RemoveCreatedDir, NoProject, state
    <3>3. project' = before'
      BY <1>1, <2>2, <3>2 DEF project
    <3> QED
      BY <2>1, <3>2, <3>3 DEF DiskInv, DirInv, UntouchedInv, FreshInv, StoppedRunLeavesProject, Busy
  <2>3. CASE ~(headless /\ madeDir)
    <3>1. UNCHANGED project
      BY <1>2, <2>3 DEF Abandon
    <3>2. dir' /\ files' = files /\ state' = state
      BY <1>1, <3>1 DEF project
    <3>3. headless' \/ ~madeDir' => project' = before'
      BY <1>1, <2>3, <3>2 DEF project
    <3> QED
      BY <2>1, <3>2, <3>3 DEF DiskInv, DirInv, UntouchedInv, FreshInv, StoppedRunLeavesProject, Busy
  <2> QED
    BY <2>2, <2>3
<1>3. CASE pc' = "write" /\ UNCHANGED <<project, outcome>>
  <2>1. dir' /\ files' = files
    BY <1>1, <1>3 DEF project
  <2>2. FreshInv'
    BY <1>1, <2>1 DEF DiskInv, FreshInv, Busy
  <2> QED
    BY <1>3, <2>1, <2>2 DEF DiskInv, DirInv, UntouchedInv, StoppedRunLeavesProject
<1> QED
  BY <1>2, <1>3 DEF Execute

LEMMA WriteOnDisk ==
    ASSUME TypeInv, DiskInv, Write PROVE DiskInv'
<1>1. pc = "write" /\ dir /\ UNCHANGED madeDir
  BY DEF Write, DiskInv, DirInv, Busy, command
<1>2. CASE pc' = "record" /\ files' = Written(Path) /\ UNCHANGED <<dir, state, outcome>>
  <2>1. ASSUME madeDir, NEW p \in Path PROVE files'[p] # Edited
    <3>1. files[p] # Edited
      BY <1>1, <2>1 DEF DiskInv, FreshInv, Busy
    <3>2. Merged[p] # Edited
      BY <1>1, <3>1, MergedType, NothingIsEdited
    <3>3. files'[p] = files[p] \/ files'[p] = Merged[p]
      BY <1>2 DEF Written
    <3> QED
      BY <3>1, <3>2, <3>3
  <2>2. FreshInv'
    BY <1>1, <2>1 DEF FreshInv
  <2> QED
    BY <1>1, <1>2, <2>2 DEF DiskInv, DirInv, UntouchedInv, StoppedRunLeavesProject
<1>3. CASE pc' = "exit" /\ outcome' = "uncommitted" /\ RemoveCreatedDir
  <2>1. DirInv'
    BY <1>3, RemoveType DEF DirInv, Busy
  <2> QED
    BY <1>3, <2>1, OtherEnd
<1>4. CASE pc' = "exit" /\ outcome' = "uncommitted" /\ dir' = dir
  <2>1. DirInv'
    BY <1>1, <1>4 DEF DirInv, Busy
  <2> QED
    BY <1>4, <2>1, OtherEnd
<1> QED
  BY <1>2, <1>3, <1>4 DEF Write

LEMMA RecordOnDisk ==
    ASSUME TypeInv, DiskInv, SaveTemplateMetadata \/ SaveStateFile PROVE DiskInv'
<1>1. pc = "record" /\ dir /\ UNCHANGED madeDir
  BY DEF SaveTemplateMetadata, SaveStateFile, DiskInv, DirInv, Busy, command
<1>2. CASE UNCHANGED <<dir, files, pc>>
  BY <1>1, <1>2 DEF DiskInv, DirInv, UntouchedInv, FreshInv, StoppedRunLeavesProject, Busy
<1>3. CASE Abandon("uncommitted")
  <2>1. pc' = "exit" /\ outcome' = "uncommitted" /\ (RemoveCreatedDir \/ UNCHANGED project)
    BY <1>3 DEF Abandon
  <2>2. DirInv'
    BY <1>1, <2>1, RemoveType DEF DirInv, Busy, project
  <2> QED
    BY <2>1, <2>2, OtherEnd
<1>4. CASE SaveStateFile
  <2>1. pc' = "exit" /\ outcome' \in {"done", "late_error"} /\ dir' = dir
    BY <1>4 DEF SaveStateFile
  <2>2. DirInv'
    BY <1>1, <2>1 DEF DirInv, Busy
  <2> QED
    BY <2>1, <2>2, OtherEnd
<1>5. CASE pc' = "exit" /\ outcome' = "uncommitted" /\ dir' = dir
  <2>1. DirInv'
    BY <1>1, <1>5 DEF DirInv, Busy
  <2> QED
    BY <1>5, <2>1, OtherEnd
<1> QED
  BY <1>2, <1>3, <1>4, <1>5 DEF SaveTemplateMetadata

LEMMA CrashOnDisk ==
    ASSUME TypeInv, DiskInv, Crash \/ CrashInWrite \/ CrashInSave PROVE DiskInv'
<1>1. Busy /\ pc' = "exit" /\ outcome' = "crashed"
  BY DEF Crash, CrashInWrite, CrashInSave, Die, Busy, TypeInv, CommandType
<1>2. dir' = dir
  BY DEF Crash, CrashInWrite, CrashInSave, project
<1>3. DirInv'
  BY <1>1, <1>2 DEF DiskInv, DirInv, Busy
<1> QED
  BY <1>1, <1>3, OtherEnd

LEMMA BetweenOnDisk ==
    ASSUME TypeInv, DiskInv, EditFile \/ Publish \/ Deactivate PROVE DiskInv'
<1>1. pc = "idle" /\ pc' = "idle" /\ dir' = dir
  BY DEF EditFile, Publish, Deactivate, Idle, project
<1>2. ASSUME ~dir PROVE NoProject'
  <2>1. NoProject
    BY <1>2 DEF DiskInv, DirInv
  <2>2. CASE Publish
    BY <2>1, <2>2 DEF Publish, project, state, NoProject
  <2>3. ~EditFile
    BY <2>1 DEF EditFile, NoProject
  <2>4. ~Deactivate
    BY <2>1 DEF Deactivate, NoProject
  <2> QED
    BY <2>2, <2>3, <2>4
<1> QED
  BY <1>1, <1>2 DEF DiskInv, DirInv, UntouchedInv, FreshInv, StoppedRunLeavesProject, Busy

LEMMA NoExecutionOnDisk ==
    ASSUME TypeInv, DiskInv, RefuseTorn \/ UpdateNothing PROVE DiskInv'
<1>1. PICK k \in allowed.kinds : Start(k)
  BY DEF RefuseTorn, UpdateNothing, Start
<1>2. pc' = "exit" /\ dir' = dir
  BY DEF RefuseTorn, UpdateNothing
<1>3. before' = project /\ UNCHANGED <<files, state>>
  BY <1>1 DEF Start
<1>4. project' = before'
  BY <1>2, <1>3 DEF project
<1>5. DirInv'
  BY <1>2, <1>3 DEF DiskInv, DirInv, NoProject, Busy, state
<1> QED
  BY <1>2, <1>4, <1>5 DEF DiskInv, UntouchedInv, FreshInv, StoppedRunLeavesProject, Busy

LEMMA ExitOnDisk ==
    ASSUME TypeInv, DiskInv, Exit PROVE DiskInv'
BY DEF Exit, DiskInv, DirInv, UntouchedInv, FreshInv, StoppedRunLeavesProject, Busy, NoProject, project, state

LEMMA DiskStep == TypeInv /\ DiskInv /\ [Next]_vars => DiskInv'
<1> SUFFICES ASSUME TypeInv, DiskInv, [Next]_vars PROVE DiskInv'
  OBVIOUS
<1>1. CASE UNCHANGED vars
  BY <1>1 DEF vars, command, project, state, DiskInv, DirInv, UntouchedInv, FreshInv,
     StoppedRunLeavesProject, Busy, NoProject
<1>2. CASE Update
  <2>1. dir
    BY <1>2 DEF Update, DiskInv, DirInv, NoProject
  <2> QED
    BY <1>2, <2>1, StartOnDisk DEF Update
<1>3. ASSUME NEW t \in Template, CreateNew(t) \/ CreateUpgrade(t) \/ CreateRerun(t) PROVE DiskInv'
  BY <1>3, StartOnDisk DEF CreateNew, CreateUpgrade, CreateRerun
<1>4. CASE Done
  BY <1>1, <1>4 DEF Done
<1> QED
  BY <1>1, <1>2, <1>3, <1>4, NoExecutionOnDisk, ExecuteOnDisk, WriteOnDisk, RecordOnDisk, ExitOnDisk,
     CrashOnDisk, BetweenOnDisk DEF Next

LEMMA DiskInvariant == Spec => []DiskInv
BY DiskInit, DiskStep, TypeInvariant, PTL DEF Spec

\* A command that stops on a question, fails before the write or refuses the
\* state file leaves the project as it was, the directory it had created
\* included (batch_process, CreatedDirGuard).
THEOREM StoppedRunLeavesProjectAlways == Spec => []StoppedRunLeavesProject
BY DiskInvariant, PTL DEF DiskInv

-----------------------------------------------------------------------------
(***************************************************************************)
(* The user's edits.                                                       *)
(***************************************************************************)
\* What was edited and is not ignored by git keeps its edits, but for the one
\* file that is cut off.
KeepsEdits ==
    \A p \in Path \ Ignored : files[p] = Edited => files'[p] \in {Edited, Conflict} \/ CutOff(p)

\* Of an edited file the merge makes an edited one or a conflict; and it makes no
\* file that is cut off.
LEMMA WrittenKeepsEdits ==
    ASSUME TypeInv, pc = "write", NEW P, NEW p \in Path
    PROVE  /\ p \notin Ignored /\ files[p] = Edited => Written(P)[p] \in {Edited, Conflict}
           /\ Written(P)[p] = Torn => files[p] = Torn
<1>1. Output(prev, p) \in Outputs /\ Output(curr, p) \in Outputs
  BY PastSpecs, OutputType DEF TypeInv, CommandType
<1>2. Output(prev, p) # Edited /\ Output(curr, p) # Edited
  BY <1>1, NothingIsEdited
<1>3. p \notin Ignored /\ files[p] = Edited => Merged[p] \in {Edited, Conflict}
  BY <1>2 DEF Merged, Merge3, LoadLocalFiles
<1>4. Written(P)[p] = files[p] \/ Written(P)[p] = Merged[p]
  BY DEF Written
<1>5. Merged[p] = Torn => files[p] = Torn
  BY MergedType, NothingIsEdited
<1> QED
  BY <1>3, <1>4, <1>5

\* A merge that is written as a whole or in part.
LEMMA WriteKeepsEdits ==
    ASSUME TypeInv, pc = "write",
           \/ files' = Written(Path)
           \/ WrittenInPart /\ outcome' \in {"crashed", "uncommitted"}
    PROVE  KeepsEdits
<1>1. CASE \E P : files' = Written(P)
  BY <1>1, WrittenKeepsEdits DEF KeepsEdits
<1>2. ASSUME NEW P \in SUBSET Path, NEW p \in Path, files' = [Written(P) EXCEPT ![p] = Torn],
             outcome' \in {"crashed", "uncommitted"}
      PROVE  KeepsEdits
  <2>1. \A q \in Path : files'[q] = IF q = p THEN Torn ELSE Written(P)[q]
    BY <1>2, WrittenType
  <2>2. CutOff(p)
    BY <1>2, <2>1, WrittenKeepsEdits DEF CutOff
  <2> QED
    BY <2>1, <2>2, WrittenKeepsEdits DEF KeepsEdits
<1> QED
  BY <1>1, <1>2 DEF WrittenInPart

LEMMA RemovalKeepsEdits ==
    ASSUME DiskInv, Busy, madeDir
    PROVE  KeepsEdits
BY DEF DiskInv, FreshInv, KeepsEdits

LEMMA EditsStep == TypeInv /\ DiskInv /\ [Next]_vars => KeepsEdits
<1> SUFFICES ASSUME TypeInv, DiskInv, [Next]_vars PROVE KeepsEdits
  OBVIOUS
<1>1. CASE files' = files
  BY <1>1 DEF KeepsEdits
<1>2. CASE Write \/ CrashInWrite
  <2>1. pc = "write"
    BY <1>2 DEF Write, CrashInWrite
  <2>2. \/ files' = Written(Path)
        \/ WrittenInPart /\ outcome' \in {"crashed", "uncommitted"}
        \/ madeDir
    BY <1>2 DEF Write, CrashInWrite, Die
  <2> QED
    BY <2>1, <2>2, WriteKeepsEdits, RemovalKeepsEdits DEF Busy
<1>3. ASSUME Busy, NEW r, Abandon(r) PROVE KeepsEdits
  BY <1>1, <1>3, RemovalKeepsEdits DEF Abandon, project
<1>4. CASE Execute \/ SaveTemplateMetadata
  BY <1>1, <1>3, <1>4 DEF Execute, SaveTemplateMetadata, Busy, project
<1>5. CASE EditFile
  <2>1. PICK q \in Path : files' = [files EXCEPT ![q] = Edited]
    BY <1>5 DEF EditFile
  <2> QED
    BY <2>1 DEF KeepsEdits, TypeInv, DiskType
<1>6. ASSUME NEW k, Start(k) PROVE KeepsEdits
  BY <1>1, <1>6 DEF Start
<1>7. CASE RefuseTorn \/ UpdateNothing \/ Update \/ \E t \in Template : CreateNew(t) \/ CreateUpgrade(t) \/ CreateRerun(t)
  BY <1>6, <1>7 DEF RefuseTorn, UpdateNothing, Update, CreateNew, CreateUpgrade, CreateRerun
<1>8. CASE SaveStateFile \/ Exit \/ Crash \/ CrashInSave \/ Publish \/ Deactivate \/ Done \/ UNCHANGED vars
  BY <1>1, <1>8 DEF SaveStateFile, Exit, Crash, CrashInSave, Publish, Deactivate, Done, vars, project
<1> QED
  BY <1>2, <1>4, <1>5, <1>7, <1>8 DEF Next

\* Whatever commands are run, stopped, killed or fail half way, a file that the
\* user has edited, and that no .gitignore names, keeps the edits or becomes a
\* conflict, in which they are, except in the one file that a command was writing
\* when it was killed or failed: never is a second file lost with it.
THEOREM EditsSurviveAlways == Spec => EditsSurvive
<1>1. TypeInv /\ DiskInv /\ [Next]_vars =>
        [\A p \in Path \ Ignored :
            files[p] = Edited => files'[p] \in {Edited, Conflict} \/ CutOff(p)]_vars
  BY EditsStep DEF KeepsEdits
<1> QED
  BY <1>1, TypeInvariant, DiskInvariant, PTL DEF Spec, EditsSurvive

-----------------------------------------------------------------------------
(***************************************************************************)
(* When nothing goes wrong.                                                *)
(***************************************************************************)
LEMMA CalmInit == Init => CalmInv
<1> SUFFICES ASSUME Init PROVE CalmInv
  OBVIOUS
<1>1. CalmState /\ FilesAreKnown
  BY DEF Init, CalmState, FilesAreKnown, Recorded, RecordedFile, Path
<1>2. CalmLists /\ DoneIsRecorded
  BY DEF Init, CalmLists, DoneIsRecorded, Busy
<1> QED
  BY <1>1, <1>2 DEF CalmInv

\* In a calm state the installed templates are those that are recorded, and
\* the base generates for each what is recorded.
LEMMA CalmInstalled ==
    ASSUME DiskType, CalmState
    PROVE  \A t \in Template : t \in Installed <=> Recorded(t)
BY DEF CalmState, Installed

LEMMA BaseIsRecorded ==
    ASSUME TypeInv, CalmState, CalmLists, pc \in {"execute", "write"}, NEW t \in Template
    PROVE  Output(prev, t) = RecordedFile(t)
<1>1. /\ prev \in Seq(TemplateSpec) /\ OncePerTemplate(prev) /\ Installs(prev) = Installed
      /\ \A i \in DOMAIN prev : prev[i] = SpecOf(prev[i].t)
  BY PastSpecs DEF TypeInv, CommandType, CalmLists
<1>2. CASE t \in Installed
  <2>1. PICK i \in DOMAIN prev : prev[i].t = t
    BY <1>1, <1>2 DEF Installs
  <2> QED
    BY <1>1, <1>2, <2>1, OwnOutput DEF RecordedFile, Installed
<1>3. CASE t \notin Installed
  BY <1>1, <1>3, OwnOutput, CalmInstalled DEF RecordedFile, TypeInv
<1> QED
  BY <1>2, <1>3

\* What is recorded depends on the history alone.
LEMMA SameHistory ==
    ASSUME TypeInv, history' = history
    PROVE  /\ \A t \in Template : /\ Recorded(t)' <=> Recorded(t)
                                  /\ SpecOf(t)' = SpecOf(t)
                                  /\ RecordedFile(t)' = RecordedFile(t)
           /\ \A c \in TemplateSpec : IsRecorded(c)' <=> IsRecorded(c)
<1>1. \A t : Recorded(t)' <=> Recorded(t)
  BY DEF Recorded
<1>2. \A t : SpecOf(t)' = SpecOf(t)
  BY DEF SpecOf
<1>3. \A t : RecordedFile(t)' = RecordedFile(t)
  BY <1>1, <1>2 DEF RecordedFile
<1>4. \A c : IsRecorded(c)' <=> IsRecorded(c)
  BY <1>1 DEF IsRecorded
<1> QED
  BY <1>1, <1>2, <1>3, <1>4

\* A step that leaves the files, the history and the command's lists alone.
LEMMA CalmFrame ==
    ASSUME TypeInv, CalmState, FilesAreKnown, UNCHANGED <<files, readable, history, active>>,
           pc' = "record" <=> pc = "record", curr' = curr \/ pc' # "record"
    PROVE  CalmState' /\ FilesAreKnown'
<1>1. CalmState'
  BY SameHistory DEF CalmState
<1>2. ASSUME NEW t \in Template \ Ignored
      PROVE  files'[t] \in {IF pc' = "record" THEN Output(curr', t) ELSE RecordedFile(t)', Edited, Conflict}
  <2>1. files'[t] = files[t] /\ RecordedFile(t)' = RecordedFile(t)
    BY SameHistory
  <2>2. files[t] \in {IF pc = "record" THEN Output(curr, t) ELSE RecordedFile(t), Edited, Conflict}
    BY DEF FilesAreKnown
  <2>3. CASE pc' = "record"
    <3>1. pc = "record" /\ curr' = curr
      BY <2>3
    <3> QED
      BY <2>1, <2>2, <2>3, <3>1
  <2>4. CASE pc' # "record"
    BY <2>1, <2>2, <2>4
  <2> QED
    BY <2>3, <2>4
<1>3. \A t : Output(curr, t)' = Output(curr', t)
  BY DEF Output
<1>4. FilesAreKnown'
  BY <1>2, <1>3 DEF FilesAreKnown
<1> QED
  BY <1>1, <1>4

\* A command that begins to execute with a base of what is recorded and a list
\* in which all but the target are as recorded.
LEMMA CalmStart ==
    ASSUME TypeInv, TypeInv', CalmState, FilesAreKnown, pc = "idle", pc' = "execute",
           kind' \in {"new", "upgrade"}, UNCHANGED <<files, state>>,
           prev' \in AnyOrder({SpecOf(u) : u \in Installed}),
           NEW t \in Template, todo' = <<t>>,
           OncePerTemplate(curr'), Installed \subseteq Installs(curr'),
           \A i \in DOMAIN curr' : curr'[i].t = t \/ IsRecorded(curr'[i])
    PROVE  CalmState' /\ FilesAreKnown' /\ CalmLists' /\ DoneIsRecorded'
<1>1. UNCHANGED <<files, readable, history, active>>
  BY DEF state
<1>2. CalmState' /\ FilesAreKnown'
  BY <1>1, CalmFrame
<1>3. Installed' = Installed
  BY <1>1, SameHistory DEF Installed, TypeInv, DiskType
<1>4. /\ OncePerTemplate(prev') /\ Installs(prev') = Installed
      /\ \A i \in DOMAIN prev' : prev'[i].t \in Installed /\ prev'[i] = SpecOf(prev'[i].t)
  BY InstalledSpecs DEF TypeInv
<1>5. (\A i \in DOMAIN prev : prev[i] = SpecOf(prev[i].t))'
  BY <1>1, <1>4 DEF SpecOf
<1>6. (\A i \in DOMAIN curr : IsRecorded(curr[i]) \/ todo = <<curr[i].t>>)'
  BY <1>1 DEF IsRecorded, Recorded
<1>7. OncePerTemplate(prev)' /\ OncePerTemplate(curr)' /\ Installs(prev)' = Installs(prev') /\ Installs(curr)' = Installs(curr')
  BY <1>4 DEF OncePerTemplate, Installs
<1>8. CalmLists'
  BY <1>3, <1>4, <1>5, <1>6, <1>7 DEF CalmLists
<1> QED
  BY <1>2, <1>8 DEF DoneIsRecorded

LEMMA CalmKind ==
    ASSUME CalmKinds, TypeInv, Calm, NEW k, Start(k)
    PROVE  k \in {"new", "upgrade"} /\ kind' = k /\ pc = "idle" /\ UNCHANGED <<files, state>>
BY DEF CalmKinds, Calm, Start, Idle, TypeInv, WorldType

LEMMA CalmCreateNew ==
    ASSUME TypeInv, TypeInv', Calm, CalmKinds, CalmState, FilesAreKnown,
           NEW t \in Template, CreateNew(t)
    PROVE  CalmState' /\ FilesAreKnown' /\ CalmLists' /\ DoneIsRecorded'
<1>1. /\ Start("new") /\ pc' = "execute" /\ todo' = <<t>>
      /\ prev' \in AnyOrder({SpecOf(u) : u \in Installed})
  BY DEF CreateNew, SortSpecs
<1>2. ~Recorded(t)
  <2>1. readable = "absent" \/ ~Recorded(t)
    BY DEF CreateNew, UpdateType
  <2> QED
    BY <2>1 DEF CalmState
<1>3. /\ prev' \in Seq(PastSpec) /\ DOMAIN prev' = 1..Len(prev')
      /\ OncePerTemplate(prev') /\ Installs(prev') = Installed
      /\ \A i \in DOMAIN prev' : prev'[i].t \in Installed /\ prev'[i] = SpecOf(prev'[i].t)
  BY <1>1, InstalledSpecs DEF TypeInv
<1>4. prev' \in Seq(TemplateSpec) /\ Len(prev') \in Nat
  BY <1>3, PastSpecs, LenProperties
<1>5. PICK v \in 1..latest[t] :
        curr' = Seed(Append(prev', [t |-> t, version |-> v, ans |-> NoAnswer, at |-> now]), {t})
  BY DEF CreateNew
<1> DEFINE new == [t |-> t, version |-> v, ans |-> NoAnswer, at |-> now]
           s == Append(prev', new)
           n == Len(prev')
<1>6. new \in TemplateSpec
  BY VersionAssumption DEF TypeInv, WorldType, TemplateSpec, Version
<1>7. s \in Seq(TemplateSpec) /\ Len(s) = n + 1 /\ s[n + 1] = new /\ \A i \in 1..n : s[i] = prev'[i]
  BY <1>4, <1>6, AppendProperties
<1>8. DOMAIN s = 1..(n + 1) /\ supplied' \in Answer \cup {NoAnswer}
  BY <1>7, LenProperties DEF TypeInv, CommandType
<1> HIDE DEF n
<1>8a. curr' = Seed(s, {t})
  BY <1>5
<1> HIDE DEF s
<1>9. /\ DOMAIN curr' = 1..(n + 1)
      /\ \A i \in 1..(n + 1) : curr'[i].t = s[i].t /\ (s[i].t # t => curr'[i] = s[i])
  BY <1>7, <1>8, <1>8a, Seeded
<1>10. \A i \in 1..(n + 1) : i \in DOMAIN prev' \/ i = n + 1
  BY <1>3, <1>4 DEF n
<1>11. curr'[n + 1].t = t /\ n + 1 \in DOMAIN curr' /\ DOMAIN prev' \subseteq DOMAIN curr'
  BY <1>3, <1>4, <1>7, <1>9 DEF n
<1>12. \A i \in DOMAIN prev' : curr'[i] = prev'[i] /\ prev'[i].t # t
  BY <1>2, <1>3, <1>7, <1>9, <1>11 DEF Installed, n
<1>13. OncePerTemplate(curr')
  BY <1>3, <1>9, <1>10, <1>11, <1>12 DEF OncePerTemplate
<1>14. Installed \subseteq Installs(curr')
  BY <1>3, <1>11, <1>12 DEF Installs
<1>15. \A u \in Installed : IsRecorded(SpecOf(u))
  BY DEF Installed, IsRecorded, SpecOf
<1>16. \A i \in DOMAIN curr' : curr'[i].t = t \/ IsRecorded(curr'[i])
  BY <1>3, <1>9, <1>10, <1>11, <1>12, <1>15
<1> QED
  BY <1>1, <1>13, <1>14, <1>16, CalmKind, CalmStart

LEMMA CalmCreateUpgrade ==
    ASSUME TypeInv, TypeInv', Calm, CalmKinds, CalmState, FilesAreKnown,
           NEW t \in Template, CreateUpgrade(t)
    PROVE  CalmState' /\ FilesAreKnown' /\ CalmLists' /\ DoneIsRecorded'
<1>1. /\ Start("upgrade") /\ pc' = "execute" /\ todo' = TargetIn(curr', t)
  BY DEF CreateUpgrade
<1>2. PICK v \in 1..latest[t] :
        /\ UpdateType(t, v) = "upgrade"
        /\ prev' \in AnyOrder({SpecOf(u) : u \in Installed})
        /\ curr' = Seed(Upgraded(prev', t, v), {t})
  BY DEF CreateUpgrade
<1>3. t \in Installed
  <2>1. Recorded(t)
    BY <1>2 DEF UpdateType
  <2> QED
    BY <2>1 DEF CalmState, Installed
<1>4. /\ prev' \in Seq(PastSpec) /\ OncePerTemplate(prev') /\ Installs(prev') = Installed
      /\ \A i \in DOMAIN prev' : prev'[i].t \in Installed /\ prev'[i] = SpecOf(prev'[i].t)
  BY <1>2, InstalledSpecs DEF TypeInv
<1>5. prev' \in Seq(TemplateSpec) /\ v \in Version /\ supplied' \in Answer \cup {NoAnswer}
  BY <1>4, PastSpecs, VersionAssumption DEF TypeInv, WorldType, CommandType, Version
<1>6. /\ DOMAIN curr' = DOMAIN prev'
      /\ \A i \in DOMAIN prev' : curr'[i].t = prev'[i].t /\ (prev'[i].t # t => curr'[i] = prev'[i])
  BY <1>2, <1>5, UpgradedList, Seeded
<1>7. OncePerTemplate(curr') /\ Installs(curr') = Installed
  BY <1>4, <1>6 DEF OncePerTemplate, Installs
<1>8. todo' = <<t>>
  BY <1>1, <1>3, <1>7 DEF TargetIn, Installs
<1>9. \A u \in Installed : IsRecorded(SpecOf(u))
  BY DEF Installed, IsRecorded, SpecOf
<1>10. \A i \in DOMAIN curr' : curr'[i].t = t \/ IsRecorded(curr'[i])
  BY <1>4, <1>6, <1>9
<1> QED
  BY <1>1, <1>2, <1>7, <1>8, <1>10, CalmKind, CalmStart

\* The end of a command whose history and files are as they were recorded.
LEMMA CalmEnd ==
    ASSUME pc' = "exit", CalmState', FilesAreKnown', outcome' # "done"
    PROVE  CalmState' /\ FilesAreKnown' /\ CalmLists' /\ DoneIsRecorded'
BY DEF CalmLists, DoneIsRecorded, Busy

LEMMA CalmExecute ==
    ASSUME TypeInv, CalmState, FilesAreKnown, CalmLists, Execute
    PROVE  CalmState' /\ FilesAreKnown' /\ CalmLists' /\ DoneIsRecorded'
<1>1. pc = "execute" /\ UNCHANGED <<kind, headless, prev, todo>>
  BY DEF Execute
<1>2. ASSUME NEW r, r # "done", Abandon(r) PROVE CalmState' /\ FilesAreKnown' /\ CalmLists' /\ DoneIsRecorded'
  <2>1. pc' = "exit" /\ outcome' = r
    BY <1>2 DEF Abandon
  <2>2. CASE RemoveCreatedDir
    <3>1. CalmState'
      BY <2>2 DEF RemoveCreatedDir, CalmState, Recorded
    <3>2. FilesAreKnown'
      BY <2>1, <2>2 DEF RemoveCreatedDir, FilesAreKnown, RecordedFile, Recorded, Path
    <3> QED
      BY <1>2, <2>1, <3>1, <3>2, CalmEnd
  <2>3. CASE UNCHANGED project
    <3>1. UNCHANGED <<files, readable, history, active>>
      BY <2>3 DEF project, state
    <3> QED
      BY <1>1, <1>2, <2>1, <3>1, CalmFrame, CalmEnd
  <2> QED
    BY <1>2, <2>2, <2>3 DEF Abandon
<1>3. ASSUME NEW a \in [DOMAIN curr -> allowed.answers],
             \A i \in DOMAIN curr : curr[i].ans # NoAnswer => a[i] = curr[i].ans,
             curr' = [i \in DOMAIN curr |-> [curr[i] EXCEPT !.ans = a[i]]],
             pc' = "write", UNCHANGED <<project, outcome>>
      PROVE  CalmState' /\ FilesAreKnown' /\ CalmLists' /\ DoneIsRecorded'
  <2>1. UNCHANGED <<files, readable, history, active>>
    BY <1>3 DEF project, state
  <2>2. CalmState' /\ FilesAreKnown'
    BY <1>1, <1>3, <2>1, CalmFrame
  <2>3. ASSUME NEW i \in DOMAIN curr
        PROVE  /\ curr'[i].t = curr[i].t /\ curr[i].t \in Template
               /\ IsRecorded(curr[i]) => curr'[i] = curr[i]
    <3>1. curr[i] \in TemplateSpec
      BY LenProperties, ElementOfSeq DEF TypeInv, CommandType
    <3>2. curr'[i] = [curr[i] EXCEPT !.ans = a[i]]
      BY <1>3
    <3>3. ASSUME IsRecorded(curr[i]) PROVE a[i] = curr[i].ans
      <4>1. Last(history[curr[i].t]) \in Entry
        BY <3>1, <3>3, LastEntry DEF IsRecorded, TypeInv, TemplateSpec
      <4> QED
        BY <1>3, <3>3, <4>1, AnswerAssumption DEF IsRecorded, Entry
    <3>4. \A x : [curr[i] EXCEPT !.ans = x].t = curr[i].t /\ [curr[i] EXCEPT !.ans = curr[i].ans] = curr[i]
      BY <3>1 DEF TemplateSpec
    <3> QED
      BY <3>1, <3>2, <3>3, <3>4 DEF TemplateSpec
  <2>4. DOMAIN curr' = DOMAIN curr
    BY <1>3
  <2>5. (\A i \in DOMAIN curr : IsRecorded(curr[i]) \/ todo = <<curr[i].t>>)'
    <3>1. \A i \in DOMAIN curr : IsRecorded(curr[i]) \/ todo = <<curr[i].t>>
      BY <1>1 DEF CalmLists, Busy
    <3> QED
      BY <1>1, <2>1, <2>3, <2>4, <3>1 DEF IsRecorded, Recorded
  <2>6. OncePerTemplate(curr)' /\ Installs(curr)' = Installs(curr)
    <3>1. OncePerTemplate(curr)
      BY <1>1 DEF CalmLists, Busy
    <3> QED
      BY <2>3, <2>4, <3>1 DEF OncePerTemplate, Installs
  <2>7. Installed' = Installed /\ OncePerTemplate(prev)' = OncePerTemplate(prev) /\ Installs(prev)' = Installs(prev)
    BY <1>1, <2>1 DEF Installed, Recorded, OncePerTemplate, Installs
  <2>8. (\A i \in DOMAIN prev : prev[i] = SpecOf(prev[i].t))'
    BY <1>1, <2>1 DEF CalmLists, SpecOf
  <2>9. CalmLists'
    BY <1>1, <1>3, <2>5, <2>6, <2>7, <2>8 DEF CalmLists, Busy
  <2> QED
    BY <1>3, <2>2, <2>9 DEF DoneIsRecorded
<1> QED
  BY <1>2, <1>3 DEF Execute

LEMMA CalmWrite ==
    ASSUME TypeInv, Calm, CalmState, FilesAreKnown, CalmLists, Write
    PROVE  CalmState' /\ FilesAreKnown' /\ CalmLists' /\ DoneIsRecorded'
<1>1. /\ pc = "write" /\ pc' = "record" /\ files' = Written(Path)
      /\ UNCHANGED <<readable, history, active, kind, prev, curr, todo>>
  BY DEF Write, Calm, state, command
<1>2. CalmState'
  BY <1>1, SameHistory DEF CalmState
<1>3. ASSUME NEW t \in Template \ Ignored PROVE files'[t] \in {Output(curr, t), Edited, Conflict}
  <2>1. t \in Path
    BY DEF Path
  <2>2. files'[t] = Merge3(Output(prev, t), files[t], Output(curr, t))
    BY <1>1, <2>1 DEF Written, Merged, LoadLocalFiles
  <2>3. files[t] \in {Output(prev, t), Edited, Conflict}
    BY <1>1, BaseIsRecorded DEF FilesAreKnown
  <2> QED
    BY <2>2, <2>3 DEF Merge3
<1>4. \A t : Output(curr, t)' = Output(curr, t)
  BY <1>1 DEF Output
<1>5. FilesAreKnown'
  BY <1>1, <1>3, <1>4 DEF FilesAreKnown
<1>6. CalmLists'
  BY <1>1 DEF CalmLists, Busy, OncePerTemplate, Installs, Installed, Recorded, IsRecorded, SpecOf
<1> QED
  BY <1>1, <1>2, <1>5, <1>6 DEF DoneIsRecorded

LEMMA CalmRecord ==
    ASSUME TypeInv, Calm, CalmState, FilesAreKnown, CalmLists, SaveTemplateMetadata
    PROVE  CalmState' /\ FilesAreKnown' /\ CalmLists' /\ DoneIsRecorded'
<1>1. /\ pc = "record" /\ todo # <<>> /\ history' = Appended(Head(todo)) /\ active' = Activated(Head(todo))
      /\ readable' = "ok" /\ todo' = Tail(todo) /\ UNCHANGED <<files, pc, kind, prev, curr>>
  BY DEF SaveTemplateMetadata, Calm
<1>2. PICK t \in Template : todo = <<t>>
  BY <1>1 DEF CalmLists, Busy
<1>3. Head(todo) = t /\ todo' = <<>>
  BY <1>1, <1>2
<1>4. /\ OncePerTemplate(curr) /\ Installed \subseteq Installs(curr) /\ kind \in {"new", "upgrade"}
      /\ \A i \in DOMAIN curr : IsRecorded(curr[i]) \/ curr[i].t = t
  BY <1>1, <1>2 DEF CalmLists, Busy
<1>5. t \in Installs(curr)
  BY <1>1, <1>3, AppendedType
<1>6. PICK k \in DOMAIN curr : curr[k].t = t
  BY <1>5 DEF Installs
<1>7. SpecIn(curr, t) = curr[k]
  BY <1>4, <1>6 DEF SpecIn, OncePerTemplate
<1> DEFINE e == [version |-> curr[k].version, ans |-> curr[k].ans, time |-> now]
<1>8. /\ history \in [Template -> Seq(Entry)] /\ history' = [history EXCEPT ![t] = Append(history[t], e)]
  BY <1>1, <1>3, <1>7 DEF Appended, TypeInv, DiskType
<1>9. e \in Entry
  <2>1. curr[k] \in TemplateSpec /\ curr[k].ans \in Answer
    BY <1>1, <1>6, LenProperties, ElementOfSeq DEF TypeInv, CommandType
  <2> QED
    BY <2>1 DEF TypeInv, WorldType, TemplateSpec, Entry
<1>10. e.version = curr[k].version /\ e.ans = curr[k].ans
  OBVIOUS
<1> HIDE DEF e
<1>11. history'[t] # <<>> /\ Last(history'[t]) = e
  <2>1. /\ Append(history[t], e) \in Seq(Entry) /\ Len(Append(history[t], e)) = Len(history[t]) + 1
        /\ Append(history[t], e)[Len(history[t]) + 1] = e /\ Len(history[t]) \in Nat
    BY <1>8, <1>9, AppendProperties, LenProperties
  <2>2. history'[t] = Append(history[t], e)
    BY <1>8
  <2>3. Append(history[t], e) # <<>>
    BY <2>1, EmptySeq
  <2> QED
    BY <2>1, <2>2, <2>3 DEF Last
<1>12. \A u \in Template \ {t} : history'[u] = history[u]
  BY <1>8
<1>13. \A u \in Template : Recorded(u)' <=> (Recorded(u) \/ u = t)
  BY <1>11, <1>12 DEF Recorded
<1>14. active' = active \cup {t}
  BY <1>1, <1>3 DEF CalmState, Activated
<1>15. CalmState'
  BY <1>1, <1>13, <1>14 DEF CalmState
<1>16. FilesAreKnown'
  BY <1>1 DEF FilesAreKnown, Output
<1>17. ASSUME NEW i \in DOMAIN curr
       PROVE  /\ curr[i].t \in Template /\ history'[curr[i].t] # <<>>
              /\ Last(history'[curr[i].t]).version = curr[i].version
              /\ Last(history'[curr[i].t]).ans = curr[i].ans
  <2>1. curr[i].t \in Template
    <3>1. curr \in Seq(TemplateSpec)
      BY DEF TypeInv, CommandType
    <3>2. curr[i] \in TemplateSpec
      BY <3>1, LenProperties, ElementOfSeq
    <3> QED
      BY <3>2 DEF TemplateSpec
  <2>2. CASE curr[i].t = t
    <3>1. i = k
      BY <1>4, <1>6, <2>2 DEF OncePerTemplate
    <3> QED
      BY <1>10, <1>11, <2>1, <2>2, <3>1
  <2>3. CASE curr[i].t # t
    BY <1>4, <1>12, <2>1, <2>3 DEF IsRecorded, Recorded
  <2> QED
    BY <2>2, <2>3
<1>18. (\A i \in DOMAIN curr : IsRecorded(curr[i]))'
  BY <1>1, <1>17 DEF IsRecorded, Recorded
<1>19. Installed' \subseteq Installed \cup {t}
  BY <1>13, <1>14 DEF Installed, TypeInv, DiskType
<1>20. OncePerTemplate(curr)' /\ Installs(curr)' = Installs(curr)
  BY <1>1, <1>4 DEF OncePerTemplate, Installs
<1>21. CalmLists'
  BY <1>1, <1>3, <1>4, <1>5, <1>18, <1>19, <1>20 DEF CalmLists
<1> QED
  BY <1>1, <1>15, <1>16, <1>21 DEF DoneIsRecorded

LEMMA CalmSave ==
    ASSUME TypeInv, Calm, CalmState, FilesAreKnown, CalmLists, SaveStateFile
    PROVE  CalmState' /\ FilesAreKnown' /\ CalmLists' /\ DoneIsRecorded'
<1>1. /\ pc = "record" /\ todo = <<>> /\ pc' = "exit" /\ history' = SavedHistory /\ readable' = "ok"
      /\ UNCHANGED <<files, active, curr>>
  BY DEF SaveStateFile, Calm, command
<1>2. /\ kind \in {"new", "upgrade"} /\ OncePerTemplate(curr) /\ Installed \subseteq Installs(curr)
      /\ \A i \in DOMAIN curr : IsRecorded(curr[i])
  BY <1>1 DEF CalmLists, Busy
<1>3. history' = history
  BY <1>1, <1>2 DEF SavedHistory
<1>4. CalmState'
  BY <1>1, <1>3, SameHistory DEF CalmState
<1>5. ASSUME NEW t \in Template PROVE Output(curr, t) = RecordedFile(t)
  <2>1. curr \in Seq(TemplateSpec)
    BY DEF TypeInv, CommandType
  <2>2. CASE t \in Installs(curr)
    <3>1. PICK i \in DOMAIN curr : curr[i].t = t
      BY <2>2 DEF Installs
    <3>2. Output(curr, t) = OwnFile(curr[i])
      BY <1>2, <2>1, <3>1, OwnOutput
    <3>3. /\ Recorded(t) /\ SpecOf(t).t = t
          /\ SpecOf(t).version = curr[i].version /\ SpecOf(t).ans = curr[i].ans
      BY <1>2, <3>1 DEF IsRecorded, SpecOf
    <3> QED
      BY <3>1, <3>2, <3>3 DEF RecordedFile, OwnFile, Content
  <2>3. CASE t \notin Installs(curr)
    BY <1>2, <2>1, <2>3, OwnOutput, CalmInstalled DEF RecordedFile, TypeInv
  <2> QED
    BY <2>2, <2>3
<1>6. FilesAreKnown'
  <2>1. \A t \in Template \ Ignored : files'[t] \in {RecordedFile(t), Edited, Conflict}
    BY <1>1, <1>5 DEF FilesAreKnown
  <2>2. \A t \in Template : RecordedFile(t)' = RecordedFile(t)
    BY <1>3, SameHistory
  <2> QED
    BY <1>1, <2>1, <2>2 DEF FilesAreKnown
<1>7. DoneIsRecorded'
  BY <1>1, <1>2, <1>3 DEF DoneIsRecorded, IsRecorded, Recorded
<1> QED
  BY <1>1, <1>4, <1>6, <1>7 DEF CalmLists, Busy

LEMMA CalmBetween ==
    ASSUME TypeInv, Calm, CalmState, FilesAreKnown, CalmLists, Exit \/ EditFile \/ Publish \/ Deactivate
    PROVE  CalmState' /\ FilesAreKnown' /\ CalmLists' /\ DoneIsRecorded'
<1>1. /\ pc \in {"idle", "exit"} /\ pc' = "idle" /\ UNCHANGED <<readable, history, active>>
  BY DEF Calm, Exit, EditFile, Publish, Deactivate, Idle, project, state
<1>2. CalmState' /\ CalmLists' /\ DoneIsRecorded'
  BY <1>1, SameHistory DEF CalmState, CalmLists, DoneIsRecorded, Busy
<1>3. CASE files' = files
  BY <1>1, <1>2, <1>3, CalmFrame
<1>4. CASE EditFile
  <2>1. PICK p \in Path : files' = [files EXCEPT ![p] = Edited]
    BY <1>4 DEF EditFile
  <2>2. \A t \in Template \ Ignored : files'[t] \in {RecordedFile(t), Edited, Conflict}
    BY <1>1, <2>1 DEF FilesAreKnown, TypeInv, DiskType, Path
  <2>3. \A t \in Template : RecordedFile(t)' = RecordedFile(t)
    BY <1>1, SameHistory
  <2>4. FilesAreKnown'
    BY <1>1, <2>2, <2>3 DEF FilesAreKnown
  <2> QED
    BY <1>2, <2>4
<1> QED
  BY <1>3, <1>4 DEF Exit, Publish, Deactivate, project

LEMMA CalmStep ==
    ASSUME CalmKinds
    PROVE  TypeInv /\ TypeInv' /\ CalmInv /\ [Next]_vars => CalmInv'
<1> SUFFICES ASSUME TypeInv, TypeInv', CalmInv, [Next]_vars, Calm'
             PROVE  CalmState' /\ FilesAreKnown' /\ CalmLists' /\ DoneIsRecorded'
  BY DEF CalmInv
<1>1. allowed' = allowed
  BY DEF Next, RefuseTorn, UpdateNothing, Update, CreateNew, CreateUpgrade, CreateRerun, Start, Execute,
     Write, SaveTemplateMetadata, SaveStateFile, Exit, Crash, CrashInWrite, CrashInSave, Die,
     EditFile, Publish, Deactivate, Done, vars
<1>2. Calm /\ CalmState /\ FilesAreKnown /\ CalmLists /\ DoneIsRecorded
  BY <1>1 DEF Calm, CalmInv
<1>3. CASE UNCHANGED vars
  <2>1. UNCHANGED <<files, readable, history, active, pc, kind, prev, curr, todo, outcome>>
    BY <1>3 DEF vars, project, state, command
  <2>2. CalmState' /\ FilesAreKnown'
    BY <1>2, <2>1, CalmFrame
  <2>3. CalmLists'
    BY <1>2, <2>1 DEF CalmLists, Busy, OncePerTemplate, Installs, Installed, Recorded, IsRecorded, SpecOf
  <2>4. DoneIsRecorded'
    BY <1>1, <1>2, <2>1 DEF DoneIsRecorded, Calm, Recorded
  <2> QED
    BY <2>2, <2>3, <2>4
<1>4. ASSUME NEW k, Start(k) PROVE k \in {"new", "upgrade"}
  BY <1>2, <1>4, CalmKind
<1>5. ~Update /\ ~UpdateNothing /\ \A t : ~CreateRerun(t)
  BY <1>4 DEF Update, UpdateNothing, CreateRerun
<1>6. ~RefuseTorn /\ ~Crash /\ ~CrashInWrite /\ ~CrashInSave
  BY <1>2 DEF RefuseTorn, CalmState, Crash, CrashInWrite, CrashInSave, Die, Calm
<1>7. CASE Done
  BY <1>3, <1>7 DEF Done
<1> QED
  BY <1>2, <1>3, <1>5, <1>6, <1>7, CalmCreateNew, CalmCreateUpgrade, CalmExecute, CalmWrite, CalmRecord,
     CalmSave, CalmBetween DEF Next

LEMMA CalmInvariant ==
    ASSUME CalmKinds
    PROVE  Spec => []CalmInv
BY CalmInit, CalmStep, TypeInvariant, PTL DEF Spec

\* As long as templates are created and upgraded, by whatever answers, and no
\* call fails, a command that is done has recorded what it executed: the next
\* one starts from there.  (Updates and reruns do not: see the README.)
THEOREM DoneIsRecordedAlways ==
    ASSUME CalmKinds
    PROVE  Spec => []DoneIsRecorded
<1>1. CalmInv => DoneIsRecorded
  BY DEF CalmInv, DoneIsRecorded
<1> QED
  BY <1>1, CalmInvariant, PTL

\* Likewise the base of the merge is what the files were generated from, so that
\* the merge takes for the user's edits what the user has edited.
THEOREM BaseIsWhatWasGeneratedAlways ==
    ASSUME CalmKinds, Ignored = {}
    PROVE  Spec => []BaseIsWhatWasGenerated
<1>1. TypeInv /\ CalmInv => BaseIsWhatWasGenerated
  <2> SUFFICES ASSUME TypeInv, CalmInv, Calm, pc \in {"execute", "write"}, NEW t \in Installs(prev)
               PROVE  files[t] \in {Output(prev, t), Edited, Conflict}
    BY DEF BaseIsWhatWasGenerated
  <2>1. CalmState /\ FilesAreKnown /\ CalmLists
    BY DEF CalmInv
  <2>2. t \in Template
    <3>1. PICK i \in DOMAIN prev : prev[i].t = t
      BY DEF Installs
    <3>2. prev \in Seq(PastSpec)
      BY DEF TypeInv, CommandType
    <3>3. prev[i] \in PastSpec
      BY <3>2, LenProperties, ElementOfSeq
    <3> QED
      BY <3>1, <3>3 DEF PastSpec
  <2>3. Output(prev, t) = RecordedFile(t)
    BY <2>1, <2>2, BaseIsRecorded
  <2> QED
    BY <2>1, <2>2, <2>3 DEF FilesAreKnown
<1> QED
  BY <1>1, TypeInvariant, CalmInvariant, PTL
-----------------------------------------------------------------------------
(***************************************************************************)
(* Which questions are left when a command stops on one.  What is recorded *)
(* has its answers, and so has all that a command but a rerun executes,    *)
(* other than its target.                                                  *)
(***************************************************************************)
AsksTarget ==
    \A i \in DOMAIN curr : curr[i].ans = NoAnswer =>
        todo = <<curr[i].t>> /\ \A j \in 1..(i - 1) : curr[j].ans # NoAnswer

AskingInv ==
    /\ pc = "execute" /\ kind # "rerun" => AsksTarget
    /\ OnlyRerunsAskInVain

\* Whether a spec has answers is not changed for the worse.
LEMMA SeedAnswers ==
    ASSUME NEW s \in Seq(TemplateSpec), NEW T, NEW i \in DOMAIN s, s[i].ans # NoAnswer
    PROVE  Seed(s, T)[i].ans # NoAnswer
<1>1. s[i] \in TemplateSpec
  BY LenProperties, ElementOfSeq
<1>2. Seed(s, T)[i] = s[i] \/ (supplied' # NoAnswer /\ Seed(s, T)[i] = [s[i] EXCEPT !.ans = supplied'])
  BY DEF Seed
<1>3. [s[i] EXCEPT !.ans = supplied'].ans = supplied'
  BY <1>1 DEF TemplateSpec
<1> QED
  BY <1>2, <1>3

LEMMA PastAnswers ==
    ASSUME TypeInv'
    PROVE  /\ prev' \in Seq(TemplateSpec)
           /\ \A i \in DOMAIN prev' : prev'[i] \in TemplateSpec /\ prev'[i].ans # NoAnswer
<1>1. prev' \in Seq(PastSpec)
  BY DEF TypeInv, CommandType
<1>2. prev' \in Seq(TemplateSpec) /\ \A i \in DOMAIN prev' : prev'[i].ans \in Answer
  BY <1>1, PastSpecs
<1> QED
  BY <1>2, LenProperties, ElementOfSeq, AnswerAssumption

LEMMA NewAsksTarget ==
    ASSUME TypeInv, TypeInv', NEW t \in Template, CreateNew(t) PROVE AsksTarget'
<1>1. PICK v \in 1..latest[t] :
        curr' = Seed(Append(prev', [t |-> t, version |-> v, ans |-> NoAnswer, at |-> now]), {t})
  BY DEF CreateNew
<1> DEFINE new == [t |-> t, version |-> v, ans |-> NoAnswer, at |-> now]
           s == Append(prev', new)
<1>2. new \in TemplateSpec
  BY VersionAssumption DEF TypeInv, WorldType, TemplateSpec, Version
<1>3. prev' \in Seq(TemplateSpec) /\ \A i \in DOMAIN prev' : prev'[i].ans # NoAnswer
  BY PastAnswers
<1>4. Len(prev') \in Nat /\ DOMAIN prev' = 1..Len(prev')
  BY <1>3, LenProperties
<1>5. /\ s \in Seq(TemplateSpec) /\ DOMAIN s = 1..(Len(prev') + 1)
      /\ \A i \in 1..Len(prev') : s[i] = prev'[i]
      /\ s[Len(prev') + 1] = new
  BY <1>2, <1>3, <1>4, AppendProperties, LenProperties
<1>6. supplied' \in Answer \cup {NoAnswer}
  BY DEF TypeInv, CommandType
<1>7. todo' = <<t>>
  BY DEF CreateNew
<1>8. new.t = t
  OBVIOUS
<1> HIDE DEF s, new
<1>9. curr' = Seed(s, {t})
  BY <1>1 DEF s, new
<1>10. DOMAIN curr' = DOMAIN s /\ \A i \in DOMAIN s : curr'[i].t = s[i].t
  BY <1>5, <1>6, <1>9, Seeded
<1>11. \A i \in 1..Len(prev') : curr'[i].ans # NoAnswer
  <2> SUFFICES ASSUME NEW i \in 1..Len(prev') PROVE curr'[i].ans # NoAnswer
    OBVIOUS
  <2>1. i \in DOMAIN s /\ s[i].ans # NoAnswer
    BY <1>3, <1>4, <1>5
  <2> QED
    BY <1>5, <1>9, <2>1, SeedAnswers
<1>12. curr'[Len(prev') + 1].t = t
  BY <1>4, <1>5, <1>8, <1>10
<1>13. \A i \in DOMAIN curr' : i \in 1..Len(prev') \/ i = Len(prev') + 1
  BY <1>4, <1>5, <1>10
<1>14. 1..((Len(prev') + 1) - 1) = 1..Len(prev')
  BY <1>4
<1> QED
  BY <1>7, <1>11, <1>12, <1>13, <1>14 DEF AsksTarget

\* An upgrade and an update carry the answers that are recorded: they ask nothing.
LEMMA OthersAskNothing ==
    ASSUME TypeInv, TypeInv', (\E t \in Template : CreateUpgrade(t)) \/ Update PROVE AsksTarget'
<1>1. prev' \in Seq(TemplateSpec) /\ \A i \in DOMAIN prev' : prev'[i] \in TemplateSpec /\ prev'[i].ans # NoAnswer
  BY PastAnswers
<1>2. supplied' \in Answer \cup {NoAnswer}
  BY DEF TypeInv, CommandType
<1>3. \E s \in Seq(TemplateSpec) : \E T :
        /\ curr' = Seed(s, T)
        /\ \A i \in DOMAIN s : s[i].ans # NoAnswer
  <2>1. CASE \E t \in Template : CreateUpgrade(t)
    <3>1. PICK t \in Template : CreateUpgrade(t)
      BY <2>1
    <3>2. PICK v \in 1..latest[t] : curr' = Seed(Upgraded(prev', t, v), {t})
      BY <3>1 DEF CreateUpgrade
    <3>3. v \in Version
      BY VersionAssumption DEF TypeInv, WorldType, Version
    <3>4. Upgraded(prev', t, v) \in Seq(TemplateSpec) /\ DOMAIN Upgraded(prev', t, v) = DOMAIN prev'
      BY <1>1, <3>3, UpgradedList
    <3>5. \A i \in DOMAIN prev' : Upgraded(prev', t, v)[i].ans = prev'[i].ans
      BY <1>1 DEF Upgraded, TemplateSpec
    <3> QED
      BY <1>1, <3>2, <3>4, <3>5
  <2>2. CASE Update
    <3>1. PICK v \in [Template -> Version] :
            \E T : curr' = Seed(WithVersion(prev', v), T)
      BY <2>2 DEF Update
    <3>2. WithVersion(prev', v) \in Seq(TemplateSpec) /\ DOMAIN WithVersion(prev', v) = DOMAIN prev'
      BY <1>1, WithVersionType
    <3>3. \A i \in DOMAIN prev' : WithVersion(prev', v)[i].ans = prev'[i].ans
      BY <1>1 DEF WithVersion, TemplateSpec
    <3> QED
      BY <1>1, <3>1, <3>2, <3>3
  <2> QED
    BY <2>1, <2>2
<1>4. PICK s \in Seq(TemplateSpec) : (\E T : curr' = Seed(s, T)) /\ \A i \in DOMAIN s : s[i].ans # NoAnswer
  BY <1>3
<1>5. DOMAIN curr' = DOMAIN s /\ \A i \in DOMAIN s : curr'[i].ans # NoAnswer
  BY <1>2, <1>4, Seeded, SeedAnswers
<1> QED
  BY <1>5 DEF AsksTarget

LEMMA AskingStep == TypeInv /\ TypeInv' /\ AskingInv /\ [Next]_vars => AskingInv'
<1> SUFFICES ASSUME TypeInv, TypeInv', AskingInv, [Next]_vars PROVE AskingInv'
  OBVIOUS
<1>1. CASE \E t \in Template : CreateNew(t)
  <2>1. pc' = "execute" /\ AsksTarget'
    BY <1>1, NewAsksTarget DEF CreateNew
  <2> QED
    BY <2>1 DEF AskingInv, OnlyRerunsAskInVain, PendingQuestionIsAnswerable
<1>2. CASE (\E t \in Template : CreateUpgrade(t)) \/ Update
  <2>1. pc' = "execute" /\ AsksTarget'
    BY <1>2, OthersAskNothing DEF CreateUpgrade, Update
  <2> QED
    BY <2>1 DEF AskingInv, OnlyRerunsAskInVain, PendingQuestionIsAnswerable
<1>3. CASE \E t \in Template : CreateRerun(t)
  <2>1. pc' = "execute" /\ kind' = "rerun"
    BY <1>3 DEF CreateRerun, Start
  <2> QED
    BY <2>1 DEF AskingInv, OnlyRerunsAskInVain
<1>4. CASE Execute
  <2>1. UNCHANGED <<kind, todo>> /\ pc = "execute" /\ pc' \in {"exit", "write"}
    BY <1>4 DEF Execute, Abandon
  <2>2. CASE pc' = "exit" /\ outcome' = "need_input" /\ kind # "rerun"
    <3>1. curr' = curr /\ \E i \in DOMAIN curr : curr[i].ans = NoAnswer
      BY <1>4, <2>2 DEF Execute, Abandon
    <3>2. PICK i \in DOMAIN curr : curr[i].ans = NoAnswer
      BY <3>1
    <3>3. todo = <<curr[i].t>> /\ \A j \in 1..(i - 1) : curr[j].ans # NoAnswer
      BY <2>1, <2>2, <3>2 DEF AskingInv, AsksTarget
    <3>4. Contains(todo, curr[i].t)
      BY <3>3 DEF Contains
    <3>5. PendingQuestionIsAnswerable'
      BY <2>1, <3>1, <3>2, <3>3, <3>4 DEF PendingQuestionIsAnswerable
    <3> QED
      BY <2>2, <3>5 DEF AskingInv, OnlyRerunsAskInVain
  <2>3. CASE ~(pc' = "exit" /\ outcome' = "need_input" /\ kind # "rerun")
    BY <2>1, <2>3 DEF AskingInv, OnlyRerunsAskInVain, PendingQuestionIsAnswerable
  <2> QED
    BY <2>2, <2>3
<1>5. CASE \/ RefuseTorn \/ UpdateNothing \/ Write \/ SaveTemplateMetadata \/ SaveStateFile \/ Exit
           \/ Crash \/ CrashInWrite \/ CrashInSave
  <2>1. pc' # "execute" /\ ~(pc' = "exit" /\ outcome' = "need_input")
    <3>1. CASE RefuseTorn \/ UpdateNothing
      BY <3>1 DEF RefuseTorn, UpdateNothing
    <3>2. CASE Write
      BY <3>2 DEF Write
    <3>3. CASE SaveTemplateMetadata
      BY <3>3 DEF SaveTemplateMetadata, Abandon
    <3>4. CASE SaveStateFile
      BY <3>4 DEF SaveStateFile
    <3>5. CASE Exit
      BY <3>5 DEF Exit
    <3>6. CASE Crash \/ CrashInWrite \/ CrashInSave
      BY <3>6 DEF Crash, CrashInWrite, CrashInSave, Die
    <3> QED
      BY <1>5, <3>1, <3>2, <3>3, <3>4, <3>5, <3>6
  <2> QED
    BY <2>1 DEF AskingInv, OnlyRerunsAskInVain, PendingQuestionIsAnswerable
<1>6. CASE EditFile \/ Publish \/ Deactivate \/ Done \/ UNCHANGED vars
  <2>1. UNCHANGED <<pc, outcome, kind, curr, todo>>
    BY <1>6 DEF EditFile, Publish, Deactivate, Done, vars, command
  <2> QED
    BY <2>1 DEF AskingInv, AsksTarget, OnlyRerunsAskInVain, PendingQuestionIsAnswerable
<1> QED
  BY <1>1, <1>2, <1>3, <1>4, <1>5, <1>6 DEF Next

\* A command that stops on a question can be given its answer by the next one,
\* unless it is a rerun: batch_process asks what its target asks and no more.
THEOREM OnlyRerunsAskInVainEver == Spec => []OnlyRerunsAskInVain
<1>1. Init => AskingInv
  BY DEF Init, AskingInv, OnlyRerunsAskInVain, PendingQuestionIsAnswerable
<1>2. AskingInv => OnlyRerunsAskInVain
  BY DEF AskingInv
<1> QED
  BY TypeInvariant, AskingStep, <1>1, <1>2, PTL DEF Spec
=============================================================================
