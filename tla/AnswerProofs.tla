----------------------------- MODULE AnswerProofs ---------------------------
(***************************************************************************)
(* Proofs about how a template is answered: QuestionWalk, in which it is   *)
(* asked; AnswerRouting, which takes the answers from one template and one *)
(* run to the next; and OutputCache, which keeps what was made of them.    *)
(* Each is about its own specification, for every value of its constants.  *)
(***************************************************************************)
EXTENDS QuestionWalk, AnswerRouting, OutputCache, TLAPS, WellFoundedInduction, FiniteSetTheorems

\* A nonempty set of numbers has a least.
LEMMA LeastOf ==
    ASSUME NEW D \in SUBSET Nat, D # {}
    PROVE  \E m \in D : \A k \in D : m <= k
<1>1. PICK m \in D : \A k \in D : <<k, m>> \notin OpToRel(<, Nat)
  BY WFMin, NatLessThanWellFounded
<1>2. \A k \in D : ~(k < m)
  <2> SUFFICES ASSUME NEW k \in D, k < m PROVE FALSE
    OBVIOUS
  <2>1. <<k, m>> \in OpToRel(<, Nat)
    BY DEF OpToRel
  <2> QED
    BY <1>1, <2>1
<1> QED
  BY <1>2

-----------------------------------------------------------------------------
(***************************************************************************)
(* QuestionWalk.  First the path through a template: it is a recursive     *)
(* function on the number of steps, so that facts about it are shown for   *)
(* the least step at which they would fail.                                *)
(***************************************************************************)
Steps == Cardinality(Question)

LEMMA StepsNat == Steps \in Nat
BY QuestionAssumption, FS_CardinalityType DEF Steps

LEMMA OnwardTyped ==
    ASSUME NEW a \in Answers, NEW S, NEW q \in Reply
    PROVE  Onward(a, S, q) \in Reply
<1>1. CASE q # End /\ a[q] # NoAnswer
  <2>1. q \in Question /\ a[q] \in Answer
    BY <1>1 DEF Reply, Answers
  <2>2. <<q, a[q]>> \in Question \X Answer
    BY <2>1
  <2>3. Follow[<<q, a[q]>>] \in Reply
    BY <2>2, FollowAssumption
  <2> QED
    BY <2>3 DEF Onward
<1>2. CASE ~(q # End /\ a[q] # NoAnswer)
  BY <1>2 DEF Onward
<1> QED
  BY <1>1, <1>2

\* The paths of m steps.
PathsOf(a, S, m) ==
    {f \in [0..m -> Reply] : \A n \in 0..m : f[n] = IF n = 0 THEN First ELSE Onward(a, S, f[n - 1])}

LEMMA PathsExist ==
    ASSUME NEW a \in Answers, NEW S
    PROVE  \A m \in Nat : PathsOf(a, S, m) # {}
<1> DEFINE D == {m \in Nat : PathsOf(a, S, m) = {}}
<1> SUFFICES ASSUME D # {} PROVE FALSE
  OBVIOUS
<1>1. PICK m \in D : \A k \in D : m <= k
  BY LeastOf
<1>2. CASE m = 0
  <2>1. [k \in 0..0 |-> First] \in PathsOf(a, S, 0)
    BY FollowAssumption DEF PathsOf, Reply
  <2> QED
    BY <1>2, <2>1
<1>3. CASE m # 0
  <2>1. m - 1 \in Nat /\ m - 1 \notin D
    BY <1>1, <1>3
  <2>2. PICK f \in PathsOf(a, S, m - 1) : TRUE
    BY <2>1
  <2>3. /\ f \in [0..(m - 1) -> Reply]
        /\ \A n \in 0..(m - 1) : f[n] = IF n = 0 THEN First ELSE Onward(a, S, f[n - 1])
    BY <2>2 DEF PathsOf
  <2>4. Onward(a, S, f[m - 1]) \in Reply
    BY <2>1, <2>3, OnwardTyped
  <2> DEFINE g == [n \in 0..m |-> IF n = m THEN Onward(a, S, f[m - 1]) ELSE f[n]]
  <2>5. g \in [0..m -> Reply]
    BY <2>1, <2>3, <2>4
  <2>6. /\ g[m] = Onward(a, S, f[m - 1])
        /\ \A n \in 0..(m - 1) : g[n] = f[n]
    BY <2>1
  <2> HIDE DEF g
  <2>7. ASSUME NEW n \in 0..m PROVE g[n] = IF n = 0 THEN First ELSE Onward(a, S, g[n - 1])
    <3>1. CASE n = m
      BY <1>3, <2>1, <2>6, <3>1
    <3>2. CASE n # m
      <4>1. n \in 0..(m - 1) /\ (n # 0 => n - 1 \in 0..(m - 1))
        BY <2>1, <3>2
      <4> QED
        BY <2>3, <2>6, <4>1
    <3> QED
      BY <3>1, <3>2
  <2>8. g \in PathsOf(a, S, m)
    BY <2>5, <2>7 DEF PathsOf
  <2> QED
    BY <2>8
<1> QED
  BY <1>2, <1>3

LEMMA PositionFacts ==
    ASSUME NEW a \in Answers, NEW S
    PROVE  /\ Position(a, S) \in [0..Steps -> Reply]
           /\ Position(a, S)[0] = First
           /\ \A n \in 1..Steps : Position(a, S)[n] = Onward(a, S, Position(a, S)[n - 1])
<1> DEFINE Body(g) == [n \in 0..Steps |-> IF n = 0 THEN First ELSE Onward(a, S, g[n - 1])]
<1>1. PICK f \in PathsOf(a, S, Steps) : TRUE
  BY PathsExist, StepsNat
<1>2. f = Body(f)
  BY <1>1 DEF PathsOf
<1>3. Position(a, S) = CHOOSE g : g = Body(g)
  BY DEF Position, Steps
<1>4. Position(a, S) = Body(Position(a, S))
  BY <1>2, <1>3
<1> DEFINE P == Position(a, S)
<1> HIDE DEF P
<1>5. P = [n \in 0..Steps |-> IF n = 0 THEN First ELSE Onward(a, S, P[n - 1])]
  BY <1>4 DEF P
<1>6. P[0] = First /\ \A n \in 1..Steps : P[n] = Onward(a, S, P[n - 1])
  BY <1>5, StepsNat
<1>7. DOMAIN P = 0..Steps
  BY <1>5
<1>8. \A n \in 0..Steps : P[n] \in Reply
  <2> DEFINE D == {n \in 0..Steps : P[n] \notin Reply}
  <2> SUFFICES ASSUME D # {} PROVE FALSE
    OBVIOUS
  <2> D \in SUBSET Nat
    BY StepsNat
  <2>1. PICK m \in D : \A k \in D : m <= k
    BY LeastOf
  <2>2. m # 0
    BY <1>6, <2>1, FollowAssumption DEF Reply
  <2>3. m - 1 \in 0..Steps /\ m - 1 \notin D /\ m \in 1..Steps
    BY <2>1, <2>2, StepsNat
  <2> QED
    BY <1>6, <2>1, <2>3, OnwardTyped
<1>9. P \in [0..Steps -> Reply]
  BY <1>5, <1>7, <1>8
<1> QED
  BY <1>6, <1>9 DEF P

\* Where the path does not go on it stays.
LEMMA PathStays ==
    ASSUME NEW a \in Answers, NEW S, NEW n \in 0..Steps,
           Onward(a, S, Position(a, S)[n]) = Position(a, S)[n],
           NEW m \in n..Steps
    PROVE  Position(a, S)[m] = Position(a, S)[n]
<1> DEFINE P == Position(a, S)
           D == {k \in n..Steps : P[k] # P[n]}
<1>1. \A k \in 1..Steps : P[k] = Onward(a, S, P[k - 1])
  BY PositionFacts
<1>2. Onward(a, S, P[n]) = P[n]
  OBVIOUS
<1> HIDE DEF P
<1> SUFFICES ASSUME D # {} PROVE FALSE
  BY DEF P
<1> D \in SUBSET Nat
  BY StepsNat
<1>3. PICK k \in D : \A j \in D : k <= j
  BY LeastOf
<1>4. k - 1 \in n..Steps /\ k - 1 \notin D /\ k \in 1..Steps
  BY <1>3, StepsNat
<1> QED
  BY <1>1, <1>2, <1>3, <1>4

\* Two paths are one if each step of the first is one of the second, and the
\* second stays where the first does.
LEMMA SamePath ==
    ASSUME NEW a \in Answers, NEW S, NEW b \in Answers, NEW T,
           \A q \in Reply : Onward(a, S, q) # q => Onward(b, T, q) = Onward(a, S, q),
           Onward(a, S, Position(a, S)[Steps]) = Position(a, S)[Steps] =>
              Onward(b, T, Position(a, S)[Steps]) = Position(a, S)[Steps]
    PROVE  \A n \in 0..Steps : Position(b, T)[n] = Position(a, S)[n]
<1> DEFINE P == Position(a, S)
           R == Position(b, T)
           D == {n \in 0..Steps : R[n] # P[n]}
<1>1. /\ P \in [0..Steps -> Reply] /\ P[0] = First /\ R[0] = First
      /\ \A n \in 1..Steps : P[n] = Onward(a, S, P[n - 1]) /\ R[n] = Onward(b, T, R[n - 1])
  BY PositionFacts
<1>2. \A n \in 0..Steps : Onward(a, S, P[n]) = P[n] => P[Steps] = P[n]
  BY PathStays, StepsNat
<1>3. Onward(a, S, P[Steps]) = P[Steps] => Onward(b, T, P[Steps]) = P[Steps]
  OBVIOUS
<1> HIDE DEF P, R
<1> SUFFICES ASSUME D # {} PROVE FALSE
  BY DEF P, R
<1> D \in SUBSET Nat
  BY StepsNat
<1>4. PICK n \in D : \A j \in D : n <= j
  BY LeastOf
<1>5. n \in 1..Steps /\ n - 1 \in 0..Steps /\ n - 1 \notin D
  BY <1>1, <1>4, StepsNat
<1>6. R[n - 1] = P[n - 1] /\ P[n - 1] \in Reply
  BY <1>1, <1>5
<1>7. CASE Onward(a, S, P[n - 1]) = P[n - 1]
  <2>1. P[Steps] = P[n - 1]
    BY <1>2, <1>5, <1>7
  <2> QED
    BY <1>1, <1>3, <1>4, <1>5, <1>6, <1>7, <2>1
<1>8. CASE Onward(a, S, P[n - 1]) # P[n - 1]
  BY <1>1, <1>4, <1>5, <1>6, <1>8
<1> QED
  BY <1>7, <1>8

LEMMA FirstUnansweredTyped ==
    ASSUME NEW a \in Answers
    PROVE  FirstUnanswered(a) \in Reply /\ FirstUnanswered(a) = Position(a, Question)[Steps]
BY PositionFacts, StepsNat DEF FirstUnanswered, Steps

LEMMA UnansweredTyped ==
    /\ Unanswered \in Answers /\ Answered(Unanswered) = {} /\ OnPath(Unanswered) = {}
    /\ FirstUnanswered(Unanswered) = First
<1>1. Unanswered \in Answers /\ Answered(Unanswered) = {}
  BY DEF Unanswered, Answers, Answered
<1>2. \A q : Onward(Unanswered, Question, q) = q
  BY DEF Onward, Unanswered
<1>3. FirstUnanswered(Unanswered) = First
  BY <1>1, <1>2, PathStays, PositionFacts, FirstUnansweredTyped, StepsNat, FollowAssumption DEF Reply
<1> QED
  BY <1>1, <1>3 DEF OnPath

\* A template that looks only at what it has asked sees all answers if it has
\* asked for them.
LEMMA AskedIsEnough ==
    ASSUME NEW a \in Answers
    PROVE  Position(a, Answered(a))[Steps] = FirstUnanswered(a)
<1>1. ASSUME NEW q PROVE Onward(a, Answered(a), q) = Onward(a, Question, q)
  <2>1. q \in Question /\ a[q] # NoAnswer <=> q \in Answered(a)
    BY DEF Answered
  <2> QED
    BY <2>1 DEF Onward
<1>2. \A n \in 0..Steps : Position(a, Answered(a))[n] = Position(a, Question)[n]
  BY <1>1, SamePath
<1> QED
  BY <1>2, FirstUnansweredTyped, StepsNat

Within(d, s) == \A q \in Question : d[q] \in {NoAnswer, s[q]}

\* A path that a part of the answers leads to, up to one that is missing in all
\* of them, is the path of all.
LEMMA StoppedWhereMissing ==
    ASSUME NEW d \in Answers, NEW s \in Answers, Within(d, s),
           FirstUnanswered(d) = End \/ s[FirstUnanswered(d)] = NoAnswer
    PROVE  FirstUnanswered(s) = FirstUnanswered(d)
<1> DEFINE L == Position(d, Question)[Steps]
<1>1. L = FirstUnanswered(d) /\ L \in Reply
  BY FirstUnansweredTyped
<1>2. Onward(s, Question, L) = L
  BY <1>1 DEF Onward
<1>3. ASSUME NEW q \in Reply, Onward(d, Question, q) # q
      PROVE  Onward(s, Question, q) = Onward(d, Question, q)
  <2>1. q # End /\ d[q] # NoAnswer /\ q \in Question
    BY <1>3 DEF Onward
  <2>2. s[q] = d[q]
    BY <2>1 DEF Within
  <2> QED
    BY <2>1, <2>2 DEF Onward
<1>4. \A n \in 0..Steps : Position(s, Question)[n] = Position(d, Question)[n]
  BY <1>2, <1>3, SamePath
<1> QED
  BY <1>4, FirstUnansweredTyped, StepsNat

\* A template that comes to its end on what it has asked comes to its end.
LEMMA EndIsEnd ==
    ASSUME NEW s \in Answers, NEW S, Position(s, S)[Steps] = End
    PROVE  FirstUnanswered(s) = End
<1>1. Onward(s, Question, End) = End
  BY DEF Onward
<1>2. ASSUME NEW q \in Reply, Onward(s, S, q) # q
      PROVE  Onward(s, Question, q) = Onward(s, S, q)
  BY <1>2 DEF Onward, Reply
<1>3. \A n \in 0..Steps : Position(s, Question)[n] = Position(s, S)[n]
  BY <1>1, <1>2, SamePath
<1> QED
  BY <1>3, FirstUnansweredTyped, StepsNat

\* An answer to the first unanswered question is on the path, and takes nothing
\* off it.
LEMMA PathGrows ==
    ASSUME NEW d \in Answers, NEW v \in Answer, NEW q \in Question,
           q = FirstUnanswered(d), d[q] = NoAnswer, OnPath(d) = Answered(d)
    PROVE  OnPath([d EXCEPT ![q] = v]) = Answered([d EXCEPT ![q] = v])
<1> DEFINE e == [d EXCEPT ![q] = v]
           P == Position(d, Question)
           R == Position(e, Question)
           Hits == {n \in 0..Steps : P[n] = q}
<1>1. e \in Answers /\ e[q] = v /\ \A p \in Question : p # q => e[p] = d[p]
  BY DEF Answers
<1>2. /\ P \in [0..Steps -> Reply] /\ P[0] = First /\ R[0] = First
      /\ \A n \in 1..Steps : P[n] = Onward(d, Question, P[n - 1]) /\ R[n] = Onward(e, Question, R[n - 1])
  <2>1. P \in [0..Steps -> Reply] /\ P[0] = First /\ \A n \in 1..Steps : P[n] = Onward(d, Question, P[n - 1])
    BY PositionFacts
  <2> HIDE DEF e
  <2>2. R[0] = First /\ \A n \in 1..Steps : R[n] = Onward(e, Question, R[n - 1])
    BY <1>1, PositionFacts
  <2> HIDE DEF P, R
  <2> QED
    BY <2>1, <2>2
<1>3. Hits \in SUBSET Nat /\ Hits # {}
  BY FirstUnansweredTyped, StepsNat
<1>4. PICK h \in Hits : \A j \in Hits : h <= j
  BY <1>3, LeastOf
<1>5. h \in 0..Steps /\ P[h] = q
  BY <1>4
<1>6. Onward(d, Question, q) = q
  BY DEF Onward
<1>7. \A m \in h..Steps : P[m] = q
  BY <1>5, <1>6, PathStays
<1> DEFINE D == {n \in 0..h : R[n] # P[n]}
<1>8. D = {}
  <2> SUFFICES ASSUME D # {} PROVE FALSE
    OBVIOUS
  <2> D \in SUBSET Nat
    BY <1>5, StepsNat
  <2>1. PICK n \in D : \A j \in D : n <= j
    BY LeastOf
  <2> HIDE DEF P, R, e
  <2>2. n \in 1..Steps /\ n - 1 \in 0..Steps /\ n - 1 \notin D /\ n - 1 \in 0..h /\ n - 1 < h
    BY <1>2, <1>5, <2>1, StepsNat
  <2>3. R[n - 1] = P[n - 1] /\ P[n - 1] # q /\ P[n - 1] \in Reply
    <3>1. n - 1 \notin Hits
      BY <1>4, <2>2, StepsNat
    <3> QED
      BY <1>2, <2>2, <3>1
  <2>4. Onward(e, Question, P[n - 1]) = Onward(d, Question, P[n - 1])
    BY <1>1, <2>3 DEF Onward
  <2> QED
    BY <1>2, <2>1, <2>2, <2>3, <2>4
<1>9. \A n \in 0..h : R[n] = P[n]
  BY <1>8
<1> HIDE DEF R, P, e
<1>10. ASSUME NEW p \in Answered(e) PROVE \E n \in 0..Steps : R[n] = p
  <2>1. CASE p = q
    <3>1. h \in 0..h
      BY <1>5, StepsNat
    <3>2. R[h] = q
      BY <1>5, <1>9, <3>1
    <3> QED
      BY <1>5, <2>1, <3>2
  <2>2. CASE p # q
    <3>1. p \in Answered(d)
      BY <1>1, <1>10, <2>2 DEF Answered
    <3>2. PICK n \in 0..Steps : P[n] = p
      BY <3>1 DEF OnPath, Steps, P
    <3>3. n \in 0..h
      BY <1>5, <1>7, <2>2, <3>2, StepsNat
    <3>4. R[n] = p
      BY <1>9, <3>2, <3>3
    <3> QED
      BY <3>2, <3>4
  <2> QED
    BY <2>1, <2>2
<1> QED
  BY <1>10 DEF OnPath, Steps, Answered, e, R

-----------------------------------------------------------------------------
WalkType ==
    /\ phase \in {"idle", "discover", "outcome", "prompt", "ended"}
    /\ model \in Model /\ headless \in BOOLEAN
    /\ supplied \in Answers /\ answers \in Answers /\ discovered \in Answers /\ walked \in Answers
    /\ det \subseteq Question
    /\ result \in [kind : {"none", "done", "need_input", "error", "exited"}, question : Reply,
                   answers : Answers, echo : SUBSET Question]

\* Who is in which phase, and what a walk that has not ended has reported.
PhaseInv ==
    /\ phase = "idle" => answers = Unanswered /\ discovered = Unanswered /\ det = {}
    /\ phase \in {"discover", "outcome"} => headless
    /\ phase = "prompt" => ~headless
    /\ IF phase = "ended" THEN result.kind # "none" ELSE result = NoResult
    /\ result.kind = "need_input" => headless

\* What the first walk has revealed are supplied answers, on one path.
Revealed ==
    /\ Within(discovered, supplied) /\ OnPath(discovered) = Answered(discovered)
    /\ model = "stuck" => \A q \in Question : q # First => discovered[q] = NoAnswer

DiscoverInv ==
    phase = "discover" =>
        /\ Revealed /\ det = Answered(discovered)
        /\ Renderings(Answered(discovered)) \subseteq tracked

\* The first walk has gone as far as the supplied answers lead.
OutcomeInv ==
    phase = "outcome" =>
        /\ Revealed /\ Renderings(Answered(supplied)) \subseteq tracked
        /\ model # "stuck" =>
              FirstUnanswered(discovered) = End \/ supplied[FirstUnanswered(discovered)] = NoAnswer

WalkInv ==
    WalkType /\ PhaseInv /\ DiscoverInv /\ OutcomeInv /\ MessagesHideAnswers /\ DoneIsOnePath

LEMMA ModelFacts == First \in Question /\ First \in Reply /\ End \in Reply /\ End \notin Question
                    /\ Model \subseteq {"first", "sequence", "stuck"} /\ NoAnswer \notin Answer
BY FollowAssumption, NoAnswerAssumption, ModelAssumption DEF Reply

LEMMA PromptTyped ==
    ASSUME WalkType, NEW a \in Answers, NEW S
    PROVE  /\ PromptTemplate(a, S) \in Reply
           /\ model = "stuck" => PromptTemplate(a, S) = First
           /\ model # "stuck" /\ S = Answered(a) => PromptTemplate(a, S) = FirstUnanswered(a)
           /\ PromptTemplate(a, S) = End => FirstUnanswered(a) = End /\ model # "stuck"
<1>1. CASE model = "first"
  BY <1>1, FirstUnansweredTyped DEF PromptTemplate
<1>2. CASE model = "sequence"
  <2>1. PromptTemplate(a, S) = Position(a, S)[Steps]
    BY <1>2 DEF PromptTemplate, Steps
  <2> QED
    BY <1>2, <2>1, PositionFacts, StepsNat, AskedIsEnough, EndIsEnd
<1>3. CASE model = "stuck"
  BY <1>3, ModelFacts DEF PromptTemplate
<1> QED
  BY <1>1, <1>2, <1>3, ModelFacts DEF WalkType

\* In the first walk the template asks for the first answer missing, or, if it is
\* stuck or goes round in circles, for one that it has.
LEMMA DiscoverAsks ==
    ASSUME WalkType, Revealed, det = Answered(discovered)
    PROVE  LET q == PromptTemplate(discovered, det)
           IN  q = End \/ q = FirstUnanswered(discovered) \/ discovered[q] # NoAnswer
<1> DEFINE q == PromptTemplate(discovered, det)
<1>1. CASE model # "stuck"
  BY <1>1, PromptTyped DEF WalkType
<1>2. CASE model = "stuck" /\ discovered[First] = NoAnswer
  <2>1. \A p \in Question : discovered[p] = NoAnswer
    BY <1>2 DEF Revealed
  <2>2. discovered = Unanswered
    BY <2>1 DEF WalkType, Answers, Unanswered
  <2> QED
    BY <1>2, <2>2, PromptTyped, UnansweredTyped DEF WalkType
<1>3. CASE model = "stuck" /\ discovered[First] # NoAnswer
  BY <1>3, PromptTyped DEF WalkType
<1> QED
  BY <1>1, <1>2, <1>3

LEMMA RevealedGrows ==
    ASSUME WalkType, Revealed, det = Answered(discovered), NEW q,
           q = PromptTemplate(discovered, det), Supplied(q),
           discovered' = [discovered EXCEPT ![q] = supplied[q]], UNCHANGED <<supplied, model>>
    PROVE  /\ q \in Question /\ supplied[q] \in Answer
           /\ discovered' \in Answers /\ Revealed'
           /\ Answered(discovered') = Answered(discovered) \cup {q}
<1>1. q \in Question /\ supplied[q] \in Answer
  BY PromptTyped DEF WalkType, Supplied, Reply, Answers
<1>2. discovered' \in Answers /\ Answered(discovered') = Answered(discovered) \cup {q}
  BY <1>1, ModelFacts DEF WalkType, Answers, Answered
<1>3. Within(discovered', supplied)
  BY <1>1 DEF Revealed, Within, WalkType, Answers
<1>4. OnPath(discovered') = Answered(discovered')
  <2>1. CASE discovered[q] # NoAnswer
    <3>1. discovered[q] = supplied[q]
      BY <1>1, <2>1 DEF Revealed, Within
    <3>2. discovered' = discovered
      BY <1>1, <3>1 DEF WalkType, Answers
    <3> QED
      BY <3>2 DEF Revealed
  <2>2. CASE discovered[q] = NoAnswer
    <3>1. q = FirstUnanswered(discovered)
      BY <1>1, <2>2, DiscoverAsks, ModelFacts
    <3> QED
      BY <1>1, <2>2, <3>1, PathGrows DEF Revealed, WalkType
  <2> QED
    BY <2>1, <2>2
<1>5. model = "stuck" => \A p \in Question : p # First => discovered'[p] = NoAnswer
  <2>1. model = "stuck" => q = First
    BY PromptTyped DEF WalkType
  <2> QED
    BY <1>1, <2>1 DEF Revealed, WalkType, Answers
<1>6. OnPath(discovered)' = OnPath(discovered') /\ Answered(discovered)' = Answered(discovered')
      /\ Within(discovered, supplied)' = Within(discovered', supplied)
  BY DEF OnPath, Answered, Within
<1> QED
  BY <1>1, <1>2, <1>3, <1>4, <1>5, <1>6 DEF Revealed

Results ==
    [kind : {"none", "done", "need_input", "error", "exited"}, question : Reply,
     answers : Answers, echo : SUBSET Question]

\* A walk that ends with r.
LEMMA EndKeeps ==
    ASSUME WalkInv, NEW r \in Results, End_(r), UNCHANGED walk,
           r.kind # "none", r.kind = "need_input" => headless,
           headless => Renderings(r.echo) = {},
           headless /\ r.kind = "done" =>
              FirstUnanswered(r.answers) = End /\ Answered(r.answers) = OnPath(r.answers)
    PROVE  WalkInv'
<1>1. /\ phase' = "ended" /\ result' = r
      /\ UNCHANGED <<model, headless, supplied, answers, discovered, walked, det, tracked>>
  BY DEF End_, walk
<1>2. WalkType'
  BY <1>1 DEF WalkInv, WalkType, Results
<1>3. PhaseInv' /\ DiscoverInv' /\ OutcomeInv'
  BY <1>1 DEF PhaseInv, DiscoverInv, OutcomeInv
<1>4. MessagesHideAnswers'
  BY <1>1 DEF MessagesHideAnswers, Renderings
<1>5. DoneIsOnePath'
  BY <1>1 DEF DoneIsOnePath, FirstUnanswered, Answered, OnPath
<1> QED
  BY <1>2, <1>3, <1>4, <1>5 DEF WalkInv

LEMMA ErrorKeeps ==
    ASSUME WalkInv, NEW echo \in SUBSET Question, Error(echo), UNCHANGED walk,
           headless => Renderings(echo) = {}
    PROVE  WalkInv'
<1> DEFINE r == [NoResult EXCEPT !.kind = "error", !.echo = echo]
<1>1. r \in Results /\ r.kind = "error" /\ r.echo = echo
  BY ModelFacts, UnansweredTyped DEF NoResult, Results
<1>2. End_(r)
  BY DEF Error
<1> QED
  BY <1>1, <1>2, EndKeeps

\* The call to the template fails: what it was sent is tracked.
LEMMA PromptFailsKeeps ==
    ASSUME WalkInv, NEW sent \in SUBSET Question, Renderings(sent) \subseteq tracked,
           PromptFails(sent), UNCHANGED walk
    PROVE  WalkInv'
<1>1. PICK echo \in SUBSET sent : Error(RedactError(echo))
  BY DEF PromptFails
<1>2. RedactError(echo) \in SUBSET Question
  BY DEF RedactError
<1>3. Renderings(RedactError(echo)) = {}
  BY DEF RedactError, Renderings
<1> QED
  BY <1>1, <1>2, <1>3, ErrorKeeps

LEMMA ValidationFailsKeeps ==
    ASSUME WalkInv, NEW q \in Question, NEW siblings \in SUBSET Question,
           ValidationFails(q, siblings), UNCHANGED walk
    PROVE  WalkInv'
<1>1. PICK echo \in SUBSET (IF AsksTemplate(q) THEN siblings \cup {q} ELSE {}) :
          Error(RedactMessage(q, siblings, echo))
  BY DEF ValidationFails
<1>2. echo \subseteq siblings \cup {q} /\ echo \subseteq Question
  BY <1>1
<1>3. RedactMessage(q, siblings, echo) \in SUBSET Question
  BY <1>2 DEF RedactMessage
<1>4. Renderings(RedactMessage(q, siblings, echo)) = {}
  BY <1>2 DEF RedactMessage, Renderings
<1> QED
  BY <1>1, <1>3, <1>4, ErrorKeeps

\* The second walk begins with what the first has revealed.
LEMMA StartOutcomeKeeps ==
    ASSUME WalkInv, headless, result = NoResult, NEW revealed, StartOutcome(revealed),
           revealed = discovered, Revealed,
           model # "stuck" => FirstUnanswered(discovered) = End \/ supplied[FirstUnanswered(discovered)] = NoAnswer
    PROVE  WalkInv'
<1>1. /\ phase' = "outcome" /\ walked' = Unanswered /\ det' = {}
      /\ tracked' = Renderings(Answered(supplied))
      /\ UNCHANGED <<model, headless, supplied, answers, result, discovered>>
  BY DEF StartOutcome
<1>2. WalkType'
  BY <1>1, UnansweredTyped DEF WalkInv, WalkType
<1>3. Revealed'
  BY <1>1 DEF Revealed, Within, OnPath, Answered
<1>4. OutcomeInv'
  BY <1>1, <1>3 DEF OutcomeInv, Renderings, Answered, FirstUnanswered
<1>5. PhaseInv' /\ DiscoverInv' /\ MessagesHideAnswers' /\ DoneIsOnePath'
  BY <1>1 DEF WalkInv, PhaseInv, DiscoverInv, MessagesHideAnswers, DoneIsOnePath, Renderings, NoResult
<1> QED
  BY <1>2, <1>4, <1>5 DEF WalkInv

LEMMA StartHeadlessKeeps == WalkInv /\ StartHeadless => WalkInv'
<1> SUFFICES ASSUME WalkInv, StartHeadless PROVE WalkInv'
  OBVIOUS
<1>1. phase = "idle" /\ headless /\ discovered = Unanswered /\ result = NoResult
  BY DEF WalkInv, PhaseInv, StartHeadless
<1>2. \A q \in Question : Unanswered[q] = NoAnswer
  BY DEF Unanswered
<1>3. Revealed
  BY <1>1, <1>2, UnansweredTyped DEF Revealed, Within
<1>4. CASE supplied = Unanswered
  <2>1. supplied[FirstUnanswered(discovered)] = NoAnswer
    BY <1>1, <1>2, <1>4, UnansweredTyped, ModelFacts
  <2> QED
    BY <1>1, <1>3, <1>4, <2>1, StartOutcomeKeeps DEF StartHeadless
<1>5. CASE supplied # Unanswered
  <2>1. /\ phase' = "discover" /\ discovered' = Unanswered /\ walked' = Unanswered
        /\ det' = {} /\ tracked' = {} /\ UNCHANGED <<model, headless, supplied, answers, result>>
    BY <1>5 DEF StartHeadless
  <2>2. Revealed'
    BY <1>1, <1>3, <2>1 DEF Revealed, Within, OnPath, Answered
  <2>3. WalkType'
    BY <2>1, UnansweredTyped DEF WalkInv, WalkType
  <2>4. DiscoverInv'
    BY <2>1, <2>2, UnansweredTyped DEF DiscoverInv, Answered, Renderings
  <2>5. PhaseInv' /\ OutcomeInv' /\ MessagesHideAnswers' /\ DoneIsOnePath'
    BY <1>1, <2>1 DEF WalkInv, PhaseInv, OutcomeInv, MessagesHideAnswers, DoneIsOnePath, Renderings, NoResult
  <2> QED
    BY <2>3, <2>4, <2>5 DEF WalkInv
<1> QED
  BY <1>4, <1>5

LEMMA DiscoverKeeps == WalkInv /\ Discover => WalkInv'
<1> SUFFICES ASSUME WalkInv, Discover PROVE WalkInv'
  OBVIOUS
<1> DEFINE q == PromptTemplate(discovered, det)
           siblings == Answered(discovered) \ {q}
<1>1. /\ phase = "discover" /\ headless /\ result = NoResult
      /\ WalkType /\ Revealed /\ det = Answered(discovered)
      /\ Renderings(Answered(discovered)) \subseteq tracked
  BY DEF WalkInv, PhaseInv, DiscoverInv, Discover
<1>2. q \in Reply /\ Answered(discovered) \subseteq Question /\ siblings \subseteq Question
  BY <1>1, PromptTyped DEF WalkType, Answered
<1>3. CASE PromptFails(Answered(discovered)) /\ UNCHANGED walk
  BY <1>1, <1>2, <1>3, PromptFailsKeeps
<1>4. CASE ~Supplied(q) /\ StartOutcome(discovered)
  <2>1. q = End \/ supplied[q] = NoAnswer
    BY <1>4 DEF Supplied
  <2>2. model # "stuck" => q = FirstUnanswered(discovered)
    BY <1>1, PromptTyped DEF WalkType
  <2> QED
    BY <1>1, <1>4, <2>1, <2>2, StartOutcomeKeeps
<1>5. CASE Supplied(q) /\ ValidationFails(q, siblings) /\ UNCHANGED walk
  <2>1. q \in Question
    BY <1>2, <1>5 DEF Supplied, Reply
  <2> QED
    BY <1>2, <1>5, <2>1, ValidationFailsKeeps
<1>6. CASE /\ Supplied(q)
           /\ tracked' = tracked \cup Renderings({q})
           /\ discovered' = [discovered EXCEPT ![q] = supplied[q]]
           /\ det' = det \cup {q}
           /\ UNCHANGED <<phase, model, headless, supplied, answers, walked, result>>
  <2>1. /\ q \in Question /\ discovered' \in Answers /\ Revealed'
        /\ Answered(discovered') = Answered(discovered) \cup {q}
    BY <1>1, <1>6, RevealedGrows
  <2>2. WalkType'
    BY <1>1, <1>6, <2>1 DEF WalkType
  <2>3. det' = Answered(discovered') /\ Renderings(Answered(discovered')) \subseteq tracked'
    BY <1>1, <1>6, <2>1 DEF Renderings
  <2>4. DiscoverInv'
    BY <1>6, <2>1, <2>3 DEF DiscoverInv, Renderings, Answered
  <2>5. PhaseInv' /\ OutcomeInv' /\ MessagesHideAnswers' /\ DoneIsOnePath'
    BY <1>1, <1>6 DEF WalkInv, PhaseInv, OutcomeInv, MessagesHideAnswers, DoneIsOnePath, Renderings, NoResult
  <2> QED
    BY <2>2, <2>4, <2>5 DEF WalkInv
<1> QED
  BY <1>3, <1>4, <1>5, <1>6 DEF Discover, DiscoverSends

\* The second walk comes to the end of the template only if the first has.
LEMMA DoneWhereRevealed ==
    ASSUME WalkInv, phase = "outcome", PromptTemplate(supplied, det) = End
    PROVE  FirstUnanswered(discovered) = End
<1>1. FirstUnanswered(supplied) = End /\ model # "stuck"
  BY PromptTyped DEF WalkInv, WalkType
<1>2. FirstUnanswered(supplied) = FirstUnanswered(discovered)
  BY <1>1, StoppedWhereMissing DEF WalkInv, WalkType, OutcomeInv, Revealed
<1> QED
  BY <1>1, <1>2

LEMMA OutcomeKeeps == WalkInv /\ Outcome => WalkInv'
<1> SUFFICES ASSUME WalkInv, Outcome PROVE WalkInv'
  OBVIOUS
<1> DEFINE q == PromptTemplate(supplied, det)
           siblings == Answered(walked)
<1>1. /\ phase = "outcome" /\ headless /\ result = NoResult /\ WalkType
      /\ Revealed /\ Renderings(Answered(supplied)) \subseteq tracked
  BY DEF WalkInv, PhaseInv, OutcomeInv, Outcome
<1>2. q \in Reply /\ Answered(supplied) \subseteq Question /\ siblings \subseteq Question
  BY <1>1, PromptTyped DEF WalkType, Answered
<1>3. CASE PromptFails(Answered(supplied)) /\ UNCHANGED walk
  BY <1>1, <1>2, <1>3, PromptFailsKeeps
<1>4. CASE q = End /\ End_([NoResult EXCEPT !.kind = "done", !.answers = discovered]) /\ UNCHANGED walk
  <2> DEFINE r == [NoResult EXCEPT !.kind = "done", !.answers = discovered]
  <2>1. r \in Results /\ r.kind = "done" /\ r.answers = discovered /\ r.echo = {}
    BY <1>1, ModelFacts DEF Results, NoResult, WalkType
  <2>2. FirstUnanswered(discovered) = End /\ Answered(discovered) = OnPath(discovered)
    BY <1>1, <1>4, DoneWhereRevealed DEF Revealed
  <2>3. Renderings({}) = {}
    BY DEF Renderings
  <2> HIDE DEF r
  <2> QED
    BY <1>4, <2>1, <2>2, <2>3, EndKeeps DEF r
<1>5. CASE q # End /\ End_([NoResult EXCEPT !.kind = "need_input", !.question = q]) /\ UNCHANGED walk
  <2> DEFINE r == [NoResult EXCEPT !.kind = "need_input", !.question = q]
  <2>1. r \in Results /\ r.kind = "need_input" /\ r.echo = {}
    BY <1>2, UnansweredTyped DEF Results, NoResult
  <2>2. Renderings({}) = {}
    BY DEF Renderings
  <2>3. End_(r)
    BY <1>5
  <2> HIDE DEF r
  <2> QED
    BY <1>1, <1>5, <2>1, <2>2, <2>3, EndKeeps
<1>6. CASE Supplied(q) /\ ValidationFails(q, siblings) /\ UNCHANGED walk
  <2>1. q \in Question
    BY <1>2, <1>6 DEF Supplied, Reply
  <2> QED
    BY <1>2, <1>6, <2>1, ValidationFailsKeeps
<1>7. CASE /\ Supplied(q)
           /\ tracked' = tracked \cup Renderings({q})
           /\ walked' = [walked EXCEPT ![q] = supplied[q]]
           /\ det' = det \cup {q}
           /\ UNCHANGED <<phase, model, headless, supplied, answers, discovered, result>>
  <2>1. q \in Question /\ supplied[q] \in Answer
    BY <1>1, <1>2, <1>7 DEF Supplied, Reply, WalkType, Answers
  <2>2. WalkType'
    BY <1>1, <1>7, <2>1 DEF WalkType, Answers
  <2>3. Revealed'
    BY <1>1, <1>7 DEF Revealed, Within, OnPath, Answered
  <2>4. OutcomeInv'
    BY <1>1, <1>7, <2>3 DEF WalkInv, OutcomeInv, Renderings, Answered, FirstUnanswered
  <2>5. PhaseInv' /\ DiscoverInv' /\ MessagesHideAnswers' /\ DoneIsOnePath'
    BY <1>1, <1>7 DEF WalkInv, PhaseInv, DiscoverInv, MessagesHideAnswers, DoneIsOnePath, Renderings, NoResult
  <2> QED
    BY <2>2, <2>4, <2>5 DEF WalkInv
<1> QED
  BY <1>3, <1>4, <1>5, <1>6, <1>7 DEF Outcome, Reports

LEMMA GiveUpKeeps == WalkInv /\ GiveUp => WalkInv'
BY ErrorKeeps DEF GiveUp, Renderings

LEMMA StartWithKeeps == WalkInv /\ StartWith => WalkInv'
<1> SUFFICES ASSUME WalkInv, StartWith PROVE WalkInv'
  OBVIOUS
<1>1. /\ phase = "idle" /\ ~headless /\ phase' = "prompt" /\ answers' = supplied
      /\ UNCHANGED <<model, headless, supplied, discovered, walked, det, result>>
  BY DEF StartWith
<1> QED
  BY <1>1 DEF WalkInv, WalkType, PhaseInv, DiscoverInv, OutcomeInv, MessagesHideAnswers, DoneIsOnePath

LEMMA PromptKeeps == WalkInv /\ Prompt => WalkInv'
<1> SUFFICES ASSUME WalkInv, Prompt PROVE WalkInv'
  OBVIOUS
<1> DEFINE q == PromptTemplate(answers, det)
<1>1. phase = "prompt" /\ ~headless /\ result = NoResult /\ WalkType
  BY DEF WalkInv, PhaseInv, Prompt
<1>2. q \in Reply /\ Answered(answers) \in SUBSET Question
  BY <1>1, PromptTyped DEF WalkType, Answered
<1>3. CASE Error(Answered(answers)) /\ UNCHANGED walk
  BY <1>1, <1>2, <1>3, ErrorKeeps
<1>4. CASE End_([NoResult EXCEPT !.kind = "done", !.answers = answers]) /\ UNCHANGED walk
  <2>1. [NoResult EXCEPT !.kind = "done", !.answers = answers] \in Results
    BY <1>1, ModelFacts DEF Results, NoResult, WalkType
  <2> QED
    BY <1>1, <1>4, <2>1, EndKeeps DEF NoResult
<1>5. CASE End_([NoResult EXCEPT !.kind = "exited"]) /\ UNCHANGED walk
  <2>1. [NoResult EXCEPT !.kind = "exited"] \in Results
    BY <1>1, ModelFacts, UnansweredTyped DEF Results, NoResult
  <2> QED
    BY <1>1, <1>5, <2>1, EndKeeps DEF NoResult
<1>6. CASE /\ q # End
           /\ \E v \in Answer \cup {NoAnswer} : answers' = [answers EXCEPT ![q] = v]
           /\ det' \in {det, det \cup {q}}
           /\ UNCHANGED <<phase, model, headless, supplied, discovered, walked, tracked, result>>
  <2>1. q \in Question
    BY <1>2, <1>6 DEF Reply
  <2>2. WalkType'
    BY <1>1, <1>6, <2>1 DEF WalkType, Answers
  <2> QED
    BY <1>1, <1>6, <2>2 DEF WalkInv, PhaseInv, DiscoverInv, OutcomeInv, MessagesHideAnswers, DoneIsOnePath
<1> QED
  BY <1>3, <1>4, <1>5, <1>6 DEF Prompt

LEMMA NextInvocationKeeps == WalkInv /\ NextInvocation => WalkInv'
<1> SUFFICES ASSUME WalkInv, NextInvocation PROVE WalkInv'
  OBVIOUS
<1>1. PICK v \in Answer : supplied' = [supplied EXCEPT ![result.question] = v]
  BY DEF NextInvocation
<1>2. /\ phase' = "idle" /\ result' = NoResult /\ det' = {} /\ tracked' = {}
      /\ answers' = Unanswered /\ discovered' = Unanswered /\ walked' = Unanswered
      /\ UNCHANGED <<model, headless>>
  BY DEF NextInvocation
<1>3. supplied' \in Answers
  BY <1>1 DEF WalkInv, WalkType, Answers
<1>4. NoResult \in Results /\ NoResult.kind = "none" /\ NoResult.echo = {}
  BY ModelFacts, UnansweredTyped DEF NoResult, Results
<1>5. WalkType'
  BY <1>2, <1>3, <1>4, UnansweredTyped DEF WalkInv, WalkType, Results
<1> QED
  BY <1>2, <1>4, <1>5 DEF WalkInv, PhaseInv, DiscoverInv, OutcomeInv, MessagesHideAnswers, DoneIsOnePath, Renderings

LEMMA WalkInitially == WalkInit => WalkInv
<1> SUFFICES ASSUME WalkInit PROVE WalkInv
  OBVIOUS
<1>1. NoResult \in Results /\ NoResult.kind = "none" /\ NoResult.echo = {}
  BY ModelFacts, UnansweredTyped DEF NoResult, Results
<1> QED
  BY <1>1, UnansweredTyped DEF WalkInit, Results, Renderings,
     WalkInv, WalkType, PhaseInv, DiscoverInv, OutcomeInv, MessagesHideAnswers, DoneIsOnePath

LEMMA WalkStutters == WalkInv /\ UNCHANGED walkVars => WalkInv'
BY DEF walkVars, walk, WalkInv, WalkType, PhaseInv, DiscoverInv, OutcomeInv, MessagesHideAnswers, DoneIsOnePath,
       Revealed, Within, OnPath, Answered, Renderings, FirstUnanswered

\* The invariant of the walks: where each is, what it has revealed, and that its
\* tracker knows whatever an error could quote.
THEOREM WalkInvariant == WalkSpec => []WalkInv
<1>1. WalkInv /\ [WalkNext]_walkVars => WalkInv'
  BY StartHeadlessKeeps, DiscoverKeeps, OutcomeKeeps, GiveUpKeeps, StartWithKeeps, PromptKeeps,
     NextInvocationKeeps, WalkStutters DEF WalkNext, HeadlessRun, WalkOver
<1> QED
  BY WalkInitially, <1>1, PTL DEF WalkSpec

\* No message of a headless run shows an answer it was supplied, whichever call
\* fails and whatever it quotes (redact_error, InFlightAnswers).
THEOREM MessagesHideAnswersAlways == WalkSpec => []MessagesHideAnswers
BY WalkInvariant, PTL DEF WalkInv

\* What a headless run reports as done is one whole path, for every template, also
\* one with circles, and for any answers supplied (validate_supplied_answers).
THEOREM DoneIsOnePathAlways == WalkSpec => []DoneIsOnePath
BY WalkInvariant, PTL DEF WalkInv

-----------------------------------------------------------------------------
(***************************************************************************)
(* That a walk is a PromptSession.  What a user is asked again must be     *)
(* left without an answer, which holds if no question leads back to one    *)
(* before it: then the path ends at End or at a question without answer.   *)
(***************************************************************************)
LeadsForward ==
    \E rank \in [Question -> 1..Steps] :
        \A q \in Question, v \in Answer :
            Follow[<<q, v>>] \in Question => rank[q] < rank[Follow[<<q, v>>]]

LEMMA ForwardStops ==
    ASSUME LeadsForward, NEW a \in Answers, FirstUnanswered(a) # End
    PROVE  FirstUnanswered(a) \in Question /\ a[FirstUnanswered(a)] = NoAnswer
<1> DEFINE L == FirstUnanswered(a)
           P == Position(a, Question)
<1>1. /\ P \in [0..Steps -> Reply] /\ P[0] = First /\ L = P[Steps] /\ L \in Question
      /\ \A n \in 1..Steps : P[n] = Onward(a, Question, P[n - 1])
  BY PositionFacts, FirstUnansweredTyped DEF Reply
<1>2. \A n \in 0..Steps : Onward(a, Question, P[n]) = P[n] => L = P[n]
  BY PathStays, FirstUnansweredTyped, StepsNat
<1>3. Onward(a, Question, End) = End
  BY DEF Onward
<1> SUFFICES ASSUME a[L] # NoAnswer PROVE FALSE
  BY <1>1
<1> HIDE DEF P, L
<1>4. PICK rank \in [Question -> 1..Steps] :
          \A q \in Question, v \in Answer :
              Follow[<<q, v>>] \in Question => rank[q] < rank[Follow[<<q, v>>]]
  BY DEF LeadsForward
<1>5. ASSUME NEW q \in Question, a[q] # NoAnswer, Onward(a, Question, q) # End
      PROVE  Onward(a, Question, q) \in Question /\ rank[q] < rank[Onward(a, Question, q)]
  <2>1. a[q] \in Answer
    BY <1>5 DEF Answers
  <2>2. Onward(a, Question, q) = Follow[<<q, a[q]>>]
    BY <1>5, ModelFacts DEF Onward
  <2>3. Follow[<<q, a[q]>>] \in Reply
    BY <2>1, FollowAssumption
  <2> QED
    BY <1>4, <1>5, <2>1, <2>2, <2>3 DEF Reply
<1>6. ASSUME NEW n \in 0..Steps
      PROVE  P[n] \in Question /\ a[P[n]] # NoAnswer /\ (n < Steps => Onward(a, Question, P[n]) # End)
  <2>1. P[n] # End
    BY <1>1, <1>2, <1>3, <1>6, ModelFacts
  <2>2. P[n] \in Question
    BY <1>1, <2>1 DEF Reply
  <2>3. a[P[n]] # NoAnswer
    <3>1. CASE a[P[n]] = NoAnswer
      <4>1. Onward(a, Question, P[n]) = P[n]
        BY <3>1 DEF Onward
      <4> QED
        BY <1>2, <3>1, <4>1
    <3> QED
      BY <3>1
  <2>4. ASSUME n < Steps PROVE Onward(a, Question, P[n]) # End
    <3>1. n + 1 \in 1..Steps /\ n + 1 \in 0..Steps /\ (n + 1) - 1 = n
      BY <2>4, StepsNat
    <3>2. P[n + 1] = Onward(a, Question, P[n])
      BY <1>1, <3>1
    <3>3. P[n + 1] # End
      BY <1>1, <1>2, <1>3, <3>1, ModelFacts
    <3> QED
      BY <3>2, <3>3
  <2> QED
    BY <2>2, <2>3, <2>4
<1> DEFINE D == {n \in 0..Steps : rank[P[n]] < n + 1}
<1>7. D = {}
  <2> SUFFICES ASSUME D # {} PROVE FALSE
    OBVIOUS
  <2> D \in SUBSET Nat
    BY StepsNat
  <2>1. PICK n \in D : \A k \in D : n <= k
    BY LeastOf
  <2>2. n \in 0..Steps /\ P[n] \in Question /\ rank[P[n]] \in 1..Steps
    BY <1>4, <1>6, <2>1
  <2>3. n # 0
    BY <2>1, <2>2, StepsNat
  <2>4. n \in 1..Steps /\ n - 1 \in 0..Steps /\ n - 1 < Steps /\ n - 1 \notin D
    BY <2>1, <2>2, <2>3, StepsNat
  <2>5. rank[P[n - 1]] \in 1..Steps /\ rank[P[n - 1]] >= n
    BY <1>4, <1>6, <2>4, StepsNat
  <2>6. rank[P[n - 1]] < rank[P[n]]
    BY <1>1, <1>5, <1>6, <2>4
  <2> QED
    BY <2>1, <2>2, <2>4, <2>5, <2>6, StepsNat
<1>8. Steps \in 0..Steps
  BY StepsNat
<1>9. rank[P[Steps]] \in 1..Steps
  BY <1>4, <1>6, <1>8
<1> QED
  BY <1>7, <1>8, <1>9, StepsNat

\* A user is asked for what has not been answered, and the template sees it.
PromptInv ==
    Asked /\ phase = "prompt" => det = Answered(answers)

LEMMA AskedOnce ==
    ASSUME LeadsForward, WalkInv, PromptInv, Asked, phase = "prompt",
           NEW q, q = PromptTemplate(answers, det)
    PROVE  q = FirstUnanswered(answers) /\ (q # End => q \in Question /\ answers[q] = NoAnswer)
BY PromptTyped, ForwardStops DEF WalkInv, WalkType, Asked, PromptInv

LEMMA PromptInvKept ==
    ASSUME LeadsForward, WalkInv, PromptInv, [WalkNext]_walkVars
    PROVE  PromptInv'
<1> SUFFICES ASSUME Asked', phase' = "prompt" PROVE det' = Answered(answers')
  BY DEF PromptInv, Answered
<1>1. CASE StartWith
  <2>1. answers' = Unanswered /\ det' = {}
    BY <1>1 DEF StartWith, Asked, WalkInv, PhaseInv
  <2> QED
    BY <2>1, UnansweredTyped
<1>2. CASE Prompt
  <2> DEFINE q == PromptTemplate(answers, det)
  <2>1. phase = "prompt" /\ Asked /\ det = Answered(answers) /\ WalkType
    BY <1>2 DEF Prompt, Asked, WalkInv, PhaseInv, PromptInv, End_, Error
  <2>2. q = FirstUnanswered(answers) /\ (q # End => q \in Question /\ answers[q] = NoAnswer)
    BY <2>1, AskedOnce
  <2> HIDE DEF q
  <2>3. CASE /\ q # End /\ \E v \in Answer : answers' = [answers EXCEPT ![q] = v]
             /\ det' = det \cup {q}
    BY <2>1, <2>2, <2>3, ModelFacts DEF Answered, WalkType, Answers
  <2>4. CASE q # End /\ answers' = [answers EXCEPT ![q] = NoAnswer] /\ det' = det
    BY <2>1, <2>2, <2>4 DEF Answered, WalkType, Answers
  <2> QED
    BY <1>2, <2>3, <2>4 DEF Prompt, End_, Error, q
<1>3. CASE UNCHANGED walkVars
  BY <1>3 DEF walkVars, walk, PromptInv, Asked, Answered
<1> QED
  BY <1>1, <1>2, <1>3 DEF WalkNext, HeadlessRun, WalkOver, StartHeadless, StartOutcome, Discover, Outcome,
     GiveUp, NextInvocation, PromptFails, ValidationFails, End_, Error, WalkInv, PhaseInv

LEMMA SessionInitially == WalkInit => Session!Init
BY DEF WalkInit, Session!Init, Given, Status, Asked, Session!Unanswered, Unanswered, NoResult

\* The steps of a session, seen from the walk.
LEMMA GivenTyped == WalkInv => Given \in Answers
BY UnansweredTyped DEF WalkInv, WalkType, Given

LEMMA SessionGives ==
    ASSUME WalkInv, NEW q \in Question, NEW v \in Answer,
           Status = "open", Status' = "open",
           q = FirstUnanswered(Given), Given[q] = NoAnswer, Accepts(q, v, Answered(Given)),
           Given' = [Given EXCEPT ![q] = v]
    PROVE  Session!Next
<1>1. q = [a \in Answers |-> FirstUnanswered(a)][Given]
  BY GivenTyped
<1>2. Session!Answered(Given) = Answered(Given)
  BY DEF Session!Answered, Answered
<1>3. Session!Give(q, v)
  BY <1>1, <1>2 DEF Session!Give
<1> QED
  BY <1>3 DEF Session!Next

LEMMA SessionEnds ==
    ASSUME WalkInv, Status = "open", Given' = Given,
           Status' = "stopped" \/ (Status' = "done" /\ FirstUnanswered(Given) = End)
    PROVE  Session!Next
<1>1. [a \in Answers |-> FirstUnanswered(a)][Given] = FirstUnanswered(Given)
  BY GivenTyped
<1> QED
  BY <1>1 DEF Session!Next, Session!Stop, Session!Done

LEMMA SessionStartsOver ==
    ASSUME Status # "done", Given' = Unanswered, Status' = "open"
    PROVE  Session!Next
BY DEF Session!Next, Session!StartOver, Session!Unanswered, Unanswered

LEMMA EndRefines ==
    ASSUME WalkInv, result = NoResult, NEW r, End_(r), UNCHANGED walk,
           r.kind \in {"done", "need_input", "error", "exited"},
           r.kind = "done" /\ (headless \/ Asked) => FirstUnanswered(Given) = End
    PROVE  [Session!Next]_<<Given, Status>>
<1>1. result' = r /\ UNCHANGED <<model, headless, supplied, answers, discovered>>
  BY DEF End_, walk
<1>2. Given' = Given /\ Asked' = Asked
  BY <1>1 DEF Given, Asked
<1>3. Status = "open"
  BY DEF Status, NoResult
<1>4. CASE r.kind = "done" /\ ~(headless \/ Asked)
  BY <1>1, <1>2, <1>3, <1>4 DEF Status
<1>5. CASE r.kind = "done" /\ (headless \/ Asked)
  <2>1. Status' = "done"
    BY <1>1, <1>2, <1>5 DEF Status
  <2> QED
    BY <1>2, <1>3, <1>5, <2>1, SessionEnds
<1>6. CASE r.kind # "done"
  <2>1. Status' = "stopped"
    BY <1>1, <1>6 DEF Status
  <2> QED
    BY <1>2, <1>3, <2>1, SessionEnds
<1> QED
  BY <1>4, <1>5, <1>6

LEMMA ErrorRefines ==
    ASSUME WalkInv, result = NoResult, NEW echo, Error(echo), UNCHANGED walk
    PROVE  [Session!Next]_<<Given, Status>>
<1>1. [NoResult EXCEPT !.kind = "error", !.echo = echo].kind = "error"
  BY DEF NoResult
<1> QED
  BY <1>1, EndRefines DEF Error

LEMMA DiscoverRefines ==
    ASSUME WalkInv, Discover
    PROVE  [Session!Next]_<<Given, Status>>
<1> DEFINE q == PromptTemplate(discovered, det)
           siblings == Answered(discovered) \ {q}
<1>1. /\ phase = "discover" /\ headless /\ result = NoResult
      /\ WalkType /\ Revealed /\ det = Answered(discovered)
  BY DEF WalkInv, PhaseInv, DiscoverInv, Discover
<1>2. Given = discovered /\ Status = "open"
  BY <1>1 DEF Given, Status, NoResult
<1>3. CASE (PromptFails(Answered(discovered)) \/ ValidationFails(q, siblings)) /\ UNCHANGED walk
  <2>1. \E echo : Error(echo)
    BY <1>3 DEF PromptFails, ValidationFails
  <2> QED
    BY <1>1, <1>3, <2>1, ErrorRefines
<1>4. CASE StartOutcome(discovered)
  BY <1>1, <1>4 DEF StartOutcome, Given, Status, Asked
<1>5. CASE /\ Supplied(q) /\ Accepts(q, supplied[q], siblings)
           /\ discovered' = [discovered EXCEPT ![q] = supplied[q]]
           /\ UNCHANGED <<phase, model, headless, supplied, answers, walked, result>>
  <2>1. q \in Question /\ supplied[q] \in Answer
    BY <1>1, <1>5, RevealedGrows
  <2>2. Given' = discovered' /\ Status' = "open"
    BY <1>1, <1>5 DEF Given, Status, NoResult
  <2>3. CASE discovered[q] # NoAnswer
    <3>1. discovered[q] = supplied[q]
      BY <1>1, <2>1, <2>3 DEF Revealed, Within
    <3>2. discovered' = discovered
      BY <1>1, <1>5, <2>1, <3>1 DEF WalkType, Answers
    <3> QED
      BY <1>2, <2>2, <3>2
  <2>4. CASE discovered[q] = NoAnswer
    <3>1. q = FirstUnanswered(discovered)
      BY <1>1, <2>1, <2>4, DiscoverAsks, ModelFacts
    <3>2. siblings = Answered(discovered)
      BY <2>4 DEF Answered
    <3> HIDE DEF q, siblings
    <3> QED
      BY <1>2, <1>5, <2>1, <2>2, <2>4, <3>1, <3>2, SessionGives
  <2> QED
    BY <2>3, <2>4
<1> QED
  BY <1>3, <1>4, <1>5 DEF Discover, DiscoverSends

LEMMA OutcomeRefines ==
    ASSUME WalkInv, Outcome
    PROVE  [Session!Next]_<<Given, Status>>
<1> DEFINE q == PromptTemplate(supplied, det)
<1>1. phase = "outcome" /\ headless /\ result = NoResult
  BY DEF WalkInv, PhaseInv, Outcome
<1>2. CASE (PromptFails(Answered(supplied)) \/ ValidationFails(q, Answered(walked))) /\ UNCHANGED walk
  <2>1. \E echo : Error(echo)
    BY <1>2 DEF PromptFails, ValidationFails
  <2> QED
    BY <1>1, <1>2, <2>1, ErrorRefines
<1>3. CASE q = End /\ End_([NoResult EXCEPT !.kind = "done", !.answers = discovered]) /\ UNCHANGED walk
  <2>1. FirstUnanswered(Given) = End
    BY <1>1, <1>3, DoneWhereRevealed DEF Given
  <2>2. [NoResult EXCEPT !.kind = "done", !.answers = discovered].kind = "done"
    BY DEF NoResult
  <2> QED
    BY <1>1, <1>3, <2>1, <2>2, EndRefines
<1>4. CASE End_([NoResult EXCEPT !.kind = "need_input", !.question = q]) /\ UNCHANGED walk
  <2>1. [NoResult EXCEPT !.kind = "need_input", !.question = q].kind = "need_input"
    BY DEF NoResult
  <2> QED
    BY <1>1, <1>4, <2>1, EndRefines
<1>5. CASE UNCHANGED <<phase, model, headless, supplied, answers, discovered, result>>
  BY <1>5 DEF Given, Status, Asked
<1> QED
  BY <1>2, <1>3, <1>4, <1>5 DEF Outcome, Reports

LEMMA PromptRefines ==
    ASSUME LeadsForward, WalkInv, PromptInv, Prompt
    PROVE  [Session!Next]_<<Given, Status>>
<1> DEFINE q == PromptTemplate(answers, det)
<1>1. phase = "prompt" /\ ~headless /\ result = NoResult /\ WalkType
  BY DEF WalkInv, PhaseInv, Prompt
<1>2. Asked => /\ Given = answers /\ q = FirstUnanswered(answers)
               /\ q # End => q \in Question /\ answers[q] = NoAnswer
  BY <1>1, AskedOnce DEF Given
<1>3. CASE Error(Answered(answers)) /\ UNCHANGED walk
  BY <1>1, <1>3, ErrorRefines
<1>4. CASE q = End /\ End_([NoResult EXCEPT !.kind = "done", !.answers = answers]) /\ UNCHANGED walk
  <2>1. [NoResult EXCEPT !.kind = "done", !.answers = answers].kind = "done"
    BY DEF NoResult
  <2> QED
    BY <1>1, <1>2, <1>4, <2>1, EndRefines
<1>5. CASE End_([NoResult EXCEPT !.kind = "exited"]) /\ UNCHANGED walk
  <2>1. [NoResult EXCEPT !.kind = "exited"].kind = "exited"
    BY DEF NoResult
  <2> QED
    BY <1>1, <1>5, <2>1, EndRefines
<1>6. CASE ~Asked /\ UNCHANGED <<model, headless, supplied, discovered, result>>
  BY <1>1, <1>6 DEF Given, Status, Asked
<1>7. CASE /\ Asked /\ q # End
           /\ \E v \in Answer : /\ Accepts(q, v, Answered(answers))
                                /\ answers' = [answers EXCEPT ![q] = v]
           /\ UNCHANGED <<model, headless, supplied, discovered, result>>
  <2>1. Given' = answers' /\ Status = "open" /\ Status' = "open"
    BY <1>1, <1>7 DEF Given, Status, Asked, NoResult
  <2> HIDE DEF q
  <2> QED
    BY <1>2, <1>7, <2>1, SessionGives
<1>8. CASE /\ Asked /\ q # End /\ answers' = [answers EXCEPT ![q] = NoAnswer]
           /\ UNCHANGED <<model, headless, supplied, discovered, result>>
  <2>1. answers' = answers
    BY <1>1, <1>2, <1>8 DEF WalkType, Answers
  <2> QED
    BY <1>8, <2>1 DEF Given, Status, Asked
<1> QED
  BY <1>3, <1>4, <1>5, <1>6, <1>7, <1>8 DEF Prompt

LEMMA StepRefines ==
    ASSUME LeadsForward, WalkInv, PromptInv, [WalkNext]_walkVars
    PROVE  [Session!Next]_<<Given, Status>>
<1>1. CASE StartHeadless
  <2>1. headless' = headless /\ headless /\ discovered = Unanswered /\ discovered' = Unanswered /\ result' = result
    BY <1>1 DEF StartHeadless, StartOutcome, WalkInv, PhaseInv
  <2> QED
    BY <2>1 DEF Given, Status
<1>2. CASE GiveUp
  <2>1. result = NoResult
    BY <1>2 DEF GiveUp, WalkInv, PhaseInv
  <2> QED
    BY <1>2, <2>1, ErrorRefines DEF GiveUp
<1>3. CASE StartWith
  <2>1. /\ UNCHANGED <<model, headless, supplied, discovered, result>>
        /\ ~headless /\ answers = Unanswered /\ answers' = supplied
    BY <1>3 DEF StartWith, WalkInv, PhaseInv
  <2> QED
    BY <2>1 DEF Given, Status, Asked
<1>4. CASE NextInvocation
  <2>1. headless /\ headless' /\ discovered' = Unanswered /\ result' = NoResult /\ result.kind = "need_input"
    BY <1>4 DEF NextInvocation, WalkInv, PhaseInv
  <2>2. Status = "stopped" /\ Status' = "open" /\ Given' = Unanswered
    BY <2>1 DEF Status, Given, NoResult
  <2> QED
    BY <2>2, SessionStartsOver
<1>5. CASE UNCHANGED walkVars
  BY <1>5 DEF walkVars, walk, Given, Status, Asked
<1> QED
  BY <1>1, <1>2, <1>3, <1>4, <1>5, DiscoverRefines, OutcomeRefines, PromptRefines
     DEF WalkNext, HeadlessRun, WalkOver

\* The headless walk, whatever it is given, and the prompting one that starts
\* without answers ask and take answers as PromptSession says, if no question
\* leads back to an earlier one (start_headless, start_with).
THEOREM ImplementsSession ==
    ASSUME LeadsForward
    PROVE  WalkSpec => SessionSpec
<1>1. WalkInit => PromptInv
  BY DEF WalkInit, PromptInv
<1>2. WalkInv /\ PromptInv /\ [WalkNext]_walkVars => PromptInv'
  BY PromptInvKept
<1>3. WalkInv /\ PromptInv /\ [WalkNext]_walkVars => [Session!Next]_<<Given, Status>>
  BY StepRefines
<1> QED
  BY SessionInitially, WalkInvariant, <1>1, <1>2, <1>3, PTL DEF WalkSpec, SessionSpec, Session!Spec

-----------------------------------------------------------------------------
(***************************************************************************)
(* AnswerRouting.  Two things make a run determinate.  A key that has an   *)
(* answer when a run begins keeps it (StartIsKept), because what a         *)
(* template ends with extends what it was started with; and what a         *)
(* template was given for a question is afterwards found under the key     *)
(* that the next run would look it up by (UsedIsShared).                   *)
(***************************************************************************)
EntryType(e) ==
    /\ e.key[1] \in Node /\ e.key[3] \in Local /\ e.state \in Local

RouteType ==
    /\ preset \in [Node -> Local] /\ executable \subseteq Node /\ version \in Versions
    /\ {saved, file, initial, shared} \subseteq SharedAnswers
    /\ pc \in {"idle", "run", "need_input", "done"} /\ mode \in {"interactive", "headless"}
    /\ at \in 1..(Len(Order) + 1) /\ runs \in Nat
    /\ used \in [Node -> Local] /\ typed \subseteq Raw
    /\ pc = "need_input" => pending \in AnswerKey
    /\ \A e \in cache : EntryType(e)

Ordered(n) == \E i \in 1..Len(Order) : Order[i] = n

\* The run is past template n.
Past(n) == \E i \in 1..(at - 1) : Order[i] = n

\* What was given answers to all questions, and changes none it started from.
Extends(n, start, given) ==
    /\ \A r \in Raw : start[r] # None /\ given[r] # None => given[r] = start[r]
    /\ \A r \in Questions(n) : given[r] # None

\* The part of a template's answers that a headless run keeps.
AskedPart(n, a) == [r \in Raw |-> IF r \in Questions(n) THEN a[r] ELSE None]

EntriesExtend ==
    \A e \in cache :
        /\ Extends(e.key[1], e.key[3], e.state)
        /\ e.by = "headless" =>
              Open(e.key[1], e.key[3]) = {} /\ e.state = AskedPart(e.key[1], e.key[3])

StartIsKept ==
    /\ \A k \in AnswerKey : initial[k] # None => shared[k] = initial[k]
    /\ MultiTemplate =>
          \A n \in executable, r \in Raw :
              initial[ScopedTo(n, r)] = None => shared[ScopedTo(n, r)] = None

UsedIsShared ==
    \A n \in executable :
        IF Past(n)
          THEN \A r \in Questions(n) : used[n][r] # None /\ shared[CompleteKey(n, r)] = used[n][r]
          ELSE used[n] = NoLocal

\* Some template asks for r, and the run began without an answer to it.
BeganWithout(r) ==
    \E n \in executable : Ordered(n) /\ r \in Questions(n) /\ initial[CompleteKey(n, r)] = None

RunInv ==
    pc # "idle" =>
        /\ StartIsKept /\ UsedIsShared
        /\ mode = "headless" => typed = {}
        /\ \A r \in typed : BeganWithout(r)
        /\ pc = "need_input" => mode = "headless" /\ \E r \in Raw : BeganWithout(r)
        /\ pc = "done" => at = Len(Order) + 1

LastScoped(n, r) == [ns |-> <<n, last.version>>, id |-> r]

LastKey(n, r) ==
    IF MultiTemplate /\ last.saved[LastScoped(n, r)] # None THEN LastScoped(n, r) ELSE Raw_(r)

\* What a completed run saved determines what it used.
LastInv ==
    runs > 0 =>
        \A n \in executable :
            IF Ordered(n)
              THEN \A r \in Questions(n) :
                      last.used[n][r] # None /\ last.saved[LastKey(n, r)] = last.used[n][r]
              ELSE last.used[n] = NoLocal

RouteInv == RouteType /\ EntriesExtend /\ RunInv /\ LastInv

LEMMA OrderFacts ==
    /\ Len(Order) \in Nat /\ DOMAIN Order = 1..Len(Order)
    /\ \A i \in 1..Len(Order) : Order[i] \in Node
    /\ \A n \in Node : /\ Len(Asks[n]) \in Nat
                       /\ Questions(n) \subseteq Raw
                       /\ \A i \in 1..Len(Asks[n]) : Asks[n][i] \in Raw
BY OrderAssumption DEF Questions

LEMMA KeyFacts ==
    /\ \A r \in Raw : Raw_(r) \in AnswerKey /\ Raw_(r).id = r /\ Raw_(r).ns = Global
    /\ version \in Versions => \A n \in Node, r \in Raw : ScopedTo(n, r) \in AnswerKey /\ ScopedTo(n, r).id = r
    /\ \A m, n \in Node, r, s \in Raw : ScopedTo(m, r) = ScopedTo(n, s) => m = n /\ r = s
    /\ version \in Versions => \A n \in Node, r, s \in Raw : ScopedTo(n, r) # Raw_(s)
BY NoneAssumption DEF Raw_, ScopedTo, AnswerKey, Namespace

LEMMA NothingTyped == Nothing \in SharedAnswers /\ NoLocal \in Local /\ Unused \in [Node -> Local]
BY DEF Nothing, SharedAnswers, NoLocal, Local, Unused

LEMMA OverlayTyped ==
    ASSUME NEW a \in SharedAnswers, NEW b \in SharedAnswers
    PROVE  Overlay(a, b) \in SharedAnswers
BY DEF Overlay, SharedAnswers

LEMMA CompleteKeyTyped ==
    ASSUME RouteType, NEW n \in Node, NEW r \in Raw
    PROVE  CompleteKey(n, r) \in AnswerKey /\ CompleteKey(n, r).id = r
BY KeyFacts DEF CompleteKey, RouteType

LEMMA TemplateAnswersTyped ==
    ASSUME RouteType, NEW n \in Node
    PROVE  TemplateAnswers(n) \in Local
<1>1. \A r \in Raw : shared[Raw_(r)] \in Value \cup {None} /\ shared[ScopedTo(n, r)] \in Value \cup {None}
  BY KeyFacts DEF RouteType, SharedAnswers
<1>2. \A r \in Raw : preset[n][r] \in Value \cup {None}
  BY DEF RouteType, Local
<1> QED
  BY <1>1, <1>2 DEF TemplateAnswers, Local

LEMMA MergeTyped ==
    ASSUME RouteType, NEW n \in Node, NEW given \in Local
    PROVE  Merge(n, given) \in SharedAnswers
<1>1. \A k \in AnswerKey : k.id \in Raw /\ shared[k] \in Value \cup {None}
  BY DEF RouteType, SharedAnswers, AnswerKey
<1>2. \A r \in Raw : given[r] \in Value \cup {None}
  BY DEF Local
<1> QED
  BY <1>1, <1>2 DEF Merge, SharedAnswers

\* What a template is started with is what is under the key its answer will have.
LEMMA StartIsUnderItsKey ==
    ASSUME RouteType, StartIsKept, NEW n \in executable, NEW r \in Raw,
           shared[CompleteKey(n, r)] # None
    PROVE  TemplateAnswers(n)[r] = shared[CompleteKey(n, r)]
<1>1. CASE MultiTemplate /\ initial[ScopedTo(n, r)] # None
  BY <1>1 DEF CompleteKey, TemplateAnswers
<1>2. CASE ~(MultiTemplate /\ initial[ScopedTo(n, r)] # None)
  BY <1>2 DEF CompleteKey, TemplateAnswers, StartIsKept
<1> QED
  BY <1>1, <1>2

LEMMA NothingIsUnderAnOpenKey ==
    ASSUME RouteType, StartIsKept, NEW n \in executable, NEW r \in Raw,
           TemplateAnswers(n)[r] = None
    PROVE  initial[CompleteKey(n, r)] = None
<1>1. CompleteKey(n, r) \in AnswerKey
  BY CompleteKeyTyped DEF RouteType
<1>2. ASSUME initial[CompleteKey(n, r)] # None PROVE FALSE
  <2>1. shared[CompleteKey(n, r)] # None
    BY <1>1, <1>2 DEF StartIsKept
  <2> QED
    BY <2>1, StartIsUnderItsKey
<1> QED
  BY <1>2

\* update_from_template_state overwrites nothing with anything else.
LEMMA MergeKeeps ==
    ASSUME RouteType, StartIsKept, NEW n \in executable, NEW given \in Local,
           Extends(n, TemplateAnswers(n), given)
    PROVE  /\ \A k \in AnswerKey : shared[k] # None => Merge(n, given)[k] = shared[k]
           /\ MultiTemplate =>
                 \A m \in executable, r \in Raw :
                    initial[ScopedTo(m, r)] = None => Merge(n, given)[ScopedTo(m, r)] = None
           /\ \A r \in Questions(n) : Merge(n, given)[CompleteKey(n, r)] = given[r]
<1>1. n \in Node /\ executable \subseteq Node
  BY DEF RouteType
<1>2. ASSUME NEW k \in AnswerKey, shared[k] # None
      PROVE  Merge(n, given)[k] = shared[k]
  <2>1. k.id \in Raw
    BY DEF AnswerKey
  <2>2. CASE given[k.id] # None /\ CompleteKey(n, k.id) = k
    <3>1. TemplateAnswers(n)[k.id] = shared[k]
      BY <1>2, <2>1, <2>2, StartIsUnderItsKey
    <3>2. given[k.id] = shared[k]
      BY <1>2, <2>1, <2>2, <3>1 DEF Extends
    <3> QED
      BY <3>2 DEF Merge
  <2> QED
    BY <2>2 DEF Merge
<1>3. ASSUME MultiTemplate, NEW m \in executable, NEW r \in Raw, initial[ScopedTo(m, r)] = None
      PROVE  Merge(n, given)[ScopedTo(m, r)] = None
  <2>1. ScopedTo(m, r) \in AnswerKey /\ ScopedTo(m, r).id = r
    BY <1>1, KeyFacts DEF RouteType
  <2>2. CompleteKey(n, r) # ScopedTo(m, r)
    BY <1>1, <1>3, KeyFacts DEF RouteType, CompleteKey
  <2>3. shared[ScopedTo(m, r)] = None
    BY <1>3 DEF StartIsKept
  <2> QED
    BY <2>1, <2>2, <2>3 DEF Merge
<1>4. ASSUME NEW r \in Questions(n) PROVE Merge(n, given)[CompleteKey(n, r)] = given[r]
  <2>1. r \in Raw /\ given[r] # None
    BY <1>1, OrderFacts DEF Extends
  <2> QED
    BY <1>1, <2>1, CompleteKeyTyped DEF Merge
<1> QED
  BY <1>2, <1>3, <1>4

\* Template n ends with these answers, executed or served from the cache.
Takes(n, given) ==
    /\ shared' = Merge(n, given)
    /\ used' = [used EXCEPT ![n] = given]
    /\ at' = at + 1
    /\ UNCHANGED <<tree, version, initial>>

LEMMA TakesKeepsRun ==
    ASSUME RouteType, StartIsKept, UsedIsShared, Running, Here \in executable,
           NEW given \in Local, Extends(Here, TemplateAnswers(Here), given),
           Takes(Here, given)
    PROVE  StartIsKept' /\ UsedIsShared'
<1>1. /\ Here \in Node /\ executable \subseteq Node /\ at \in 1..Len(Order) /\ at' = at + 1
      /\ Order[at] = Here
  <2>1. at \in 1..Len(Order)
    BY OrderFacts DEF RouteType, Running
  <2> QED
    BY <2>1, OrderFacts DEF RouteType, Here, Takes
<1>2. /\ executable' = executable /\ version' = version /\ initial' = initial
      /\ \A n, r : ScopedTo(n, r)' = ScopedTo(n, r)
      /\ MultiTemplate' = MultiTemplate
      /\ \A n, r : CompleteKey(n, r)' = CompleteKey(n, r)
  BY DEF Takes, tree, ScopedTo, MultiTemplate, CompleteKey
<1>3. /\ \A k \in AnswerKey : shared[k] # None => shared'[k] = shared[k]
      /\ MultiTemplate =>
            \A m \in executable, r \in Raw :
               initial[ScopedTo(m, r)] = None => shared'[ScopedTo(m, r)] = None
      /\ \A r \in Questions(Here) : shared'[CompleteKey(Here, r)] = given[r]
  BY MergeKeeps DEF Takes
<1>4. \A k \in AnswerKey : initial'[k] # None => shared'[k] = initial'[k]
  BY <1>2, <1>3 DEF StartIsKept
<1>5. StartIsKept'
  BY <1>2, <1>3, <1>4 DEF StartIsKept
<1>6. \A n : Past(n)' <=> Past(n) \/ n = Here
  <2>1. 1..(at' - 1) = 1..(at - 1) \cup {at}
    BY <1>1
  <2> QED
    BY <1>1, <2>1 DEF Past
<1>7. ASSUME NEW n \in executable, Past(n)', NEW r \in Questions(n)
      PROVE  used'[n][r] # None /\ shared'[CompleteKey(n, r)] = used'[n][r]
  <2>1. CASE n = Here
    <3>1. used'[n] = given
      BY <1>1, <2>1 DEF Takes, RouteType
    <3> QED
      BY <1>3, <1>7, <2>1, <3>1 DEF Extends
  <2>2. CASE n # Here
    <3>1. used'[n] = used[n] /\ Past(n)
      BY <1>1, <1>6, <1>7, <2>2 DEF Takes, RouteType
    <3>2. used[n][r] # None /\ shared[CompleteKey(n, r)] = used[n][r]
      BY <3>1 DEF UsedIsShared
    <3>3. CompleteKey(n, r) \in AnswerKey
      BY <1>1, CompleteKeyTyped, OrderFacts
    <3> QED
      BY <1>3, <3>1, <3>2, <3>3
  <2> QED
    BY <2>1, <2>2
<1>8. ASSUME NEW n \in executable, ~Past(n)' PROVE used'[n] = NoLocal
  <2>1. n # Here /\ ~Past(n)
    BY <1>6, <1>8
  <2> QED
    BY <1>1, <2>1 DEF Takes, RouteType, UsedIsShared
<1>9. UsedIsShared'
  BY <1>2, <1>7, <1>8 DEF UsedIsShared
<1> QED
  BY <1>5, <1>9

-----------------------------------------------------------------------------
LEMMA RouteInitially == Init => RouteInv
<1> SUFFICES ASSUME Init PROVE RouteInv
  OBVIOUS
<1>1. RouteType
  <2>1. /\ preset \in [Node -> Local] /\ executable \subseteq Node /\ version \in Versions
        /\ mode \in {"interactive", "headless"} /\ runs \in Nat
    BY ChoiceAssumption, RunsAssumption DEF Init, Versions
  <2>2. at \in 1..(Len(Order) + 1)
    BY OrderFacts DEF Init
  <2> QED
    BY <2>1, <2>2, NothingTyped DEF Init, RouteType
<1> QED
  BY <1>1 DEF Init, RouteInv, EntriesExtend, RunInv, LastInv

\* What a template can end with when it is executed.
LEMMA ExecutedExtends ==
    ASSUME RouteType, NEW n \in Node, NEW a \in Local, NEW b \in Filled(n, a)
    PROVE  /\ b \in Local
           /\ Complete(n, b) \in Local
           /\ Extends(n, a, Complete(n, b))
           /\ mode = "headless" => Complete(n, b) = AskedPart(n, b)
           /\ b = a => Open(n, a) = {}
           /\ \A r \in Raw : a[r] # b[r] => r \in Questions(n) /\ a[r] = None
<1>1. /\ b \in Local
      /\ \A r \in Raw : IF a[r] = None /\ r \in Questions(n) THEN b[r] # None ELSE b[r] = a[r]
  BY DEF Filled
<1>2. Questions(n) \subseteq Raw
  BY OrderFacts
<1>3. Complete(n, b) \in Local
  BY <1>1 DEF Complete, Local
<1>4. Extends(n, a, Complete(n, b))
  BY <1>1, <1>2 DEF Extends, Complete, Local
<1>5. ASSUME b = a PROVE Open(n, a) = {}
  <2>1. \A i \in 1..Len(Asks[n]) : Asks[n][i] \in Questions(n)
    BY DEF Questions
  <2> QED
    BY <1>1, <1>2, <1>5, <2>1 DEF Open
<1> QED
  BY <1>1, <1>3, <1>4, <1>5 DEF Complete, AskedPart

\* What is served extends what the template would have been started with.
LEMMA ServedExtends ==
    ASSUME RouteType, EntriesExtend, NEW n \in Node, NEW e \in Cached(n)
    PROVE  e.state \in Local /\ Extends(n, TemplateAnswers(n), e.state)
<1>1. e \in cache /\ e.key[1] = n /\ e.key[3] = TemplateAnswers(n)
  BY DEF Cached, CacheKey
<1> QED
  BY <1>1 DEF EntriesExtend, RouteType, EntryType

\* A nonempty set of positions has a first.
LEMMA FirstOpenIsOpen ==
    ASSUME NEW n \in Node, NEW a, Open(n, a) # {}
    PROVE  FirstOpen(n, a) \in Questions(n) /\ FirstOpen(n, a) \in Raw
<1>1. Open(n, a) \subseteq Nat /\ Open(n, a) \subseteq 1..Len(Asks[n])
  BY OrderFacts DEF Open
<1>2. \E i \in Open(n, a) : \A j \in Open(n, a) : i <= j
  BY <1>1, LeastOf
<1>3. \E i \in Open(n, a) : FirstOpen(n, a) = Asks[n][i]
  BY <1>2 DEF FirstOpen
<1> QED
  BY <1>1, <1>3, OrderFacts DEF Questions

LEMMA TypeOfRun ==
    ASSUME RouteType, [Next]_vars
    PROVE  RouteType'
<1>1. CASE \E m \in Modes, previous \in {Nothing, saved} : Begin(m, previous)
  <2>1. PICK m \in Modes, previous \in {Nothing, saved} : Begin(m, previous)
    BY <1>1
  <2>2. m \in {"interactive", "headless"} /\ previous \in SharedAnswers
    BY ChoiceAssumption, NothingTyped DEF RouteType
  <2>3. initial' \in SharedAnswers /\ shared' = initial'
    BY <2>1, <2>2, OverlayTyped DEF Begin, RouteType
  <2>4. at' \in 1..(Len(Order) + 1)
    BY <2>1, OrderFacts DEF Begin
  <2> QED
    BY <2>1, <2>2, <2>3, <2>4, NothingTyped DEF Begin, RouteType, tree
<1>2. CASE SkipGroup
  <2>1. at' \in 1..(Len(Order) + 1)
    BY <1>2, OrderFacts DEF SkipGroup, Running, RouteType
  <2> QED
    BY <1>2, <2>1 DEF SkipGroup, RouteType, tree
<1>3. CASE ServeFromCache
  <2>1. at' \in 1..(Len(Order) + 1) /\ Here \in Node
    BY <1>3, OrderFacts DEF ServeFromCache, Running, RouteType
  <2>2. PICK e \in Cached(Here) : /\ shared' = Merge(Here, e.state)
                                  /\ used' = [used EXCEPT ![Here] = e.state]
    BY <1>3 DEF ServeFromCache
  <2>3. e.state \in Local
    BY <2>2 DEF Cached, RouteType, EntryType
  <2>4. shared' \in SharedAnswers
    BY <2>1, <2>2, <2>3, MergeTyped
  <2>5. used' \in [Node -> Local]
    BY <2>1, <2>2, <2>3 DEF RouteType
  <2> QED
    BY <1>3, <2>1, <2>4, <2>5 DEF ServeFromCache, RouteType, tree
<1>4. CASE Execute
  <2>1. at' \in 1..(Len(Order) + 1) /\ Here \in Node
    BY <1>4, OrderFacts DEF Execute, Running, RouteType
  <2> DEFINE start == TemplateAnswers(Here)
  <2>2. PICK b \in Filled(Here, start) :
             /\ shared' = Merge(Here, Complete(Here, b))
             /\ used' = [used EXCEPT ![Here] = Complete(Here, b)]
             /\ cache' = cache \cup {[key |-> CacheKey(Here), state |-> Complete(Here, b), by |-> mode]}
             /\ typed' = typed \cup {r \in Raw : start[r] # b[r]}
    BY <1>4 DEF Execute
  <2>3. start \in Local /\ Complete(Here, b) \in Local
    BY <2>1, <2>2, TemplateAnswersTyped, ExecutedExtends
  <2>4. shared' \in SharedAnswers
    BY <2>1, <2>2, <2>3, MergeTyped
  <2>5. used' \in [Node -> Local] /\ typed' \subseteq Raw
    BY <2>1, <2>2, <2>3 DEF RouteType
  <2>6. \A e \in cache' : EntryType(e)
    <3>1. EntryType([key |-> CacheKey(Here), state |-> Complete(Here, b), by |-> mode])
      BY <2>1, <2>3 DEF EntryType, CacheKey
    <3> QED
      BY <2>2, <3>1 DEF RouteType
  <2> QED
    BY <1>4, <2>1, <2>4, <2>5, <2>6 DEF Execute, RouteType, tree
<1>5. CASE NeedInput
  <2>1. Here \in Node
    BY <1>5, OrderFacts DEF NeedInput, Running, RouteType
  <2>2. pending' \in AnswerKey
    <3> DEFINE a == TemplateAnswers(Here)
    <3>1. Open(Here, a) # {} /\ pending' = PendingKey(Here, FirstOpen(Here, a))
      BY <1>5 DEF NeedInput
    <3>2. FirstOpen(Here, a) \in Raw
      BY <2>1, <3>1, FirstOpenIsOpen
    <3> QED
      BY <2>1, <3>1, <3>2, KeyFacts DEF PendingKey, RouteType
  <2> QED
    BY <1>5, <2>2 DEF NeedInput, RouteType, tree
<1>6. CASE Finish
  BY <1>6 DEF Finish, RouteType, tree, run
<1>7. CASE Supply
  <2>1. PICK v \in Value : file' = [file EXCEPT ![pending] = v]
    BY <1>7 DEF Supply
  <2>2. file' \in SharedAnswers
    BY <1>7, <2>1 DEF Supply, RouteType, SharedAnswers
  <2>3. shared' \in SharedAnswers /\ initial' = shared'
    BY <1>7, <2>2, OverlayTyped DEF Supply, RouteType
  <2>4. at' \in 1..(Len(Order) + 1)
    BY <1>7, OrderFacts DEF Supply
  <2> QED
    BY <1>7, <2>2, <2>3, <2>4, NothingTyped DEF Supply, RouteType, tree
<1>8. CASE NextCommand
  <2>1. PICK k \in AnswerKey, v \in Value : file' \in {Nothing, [Nothing EXCEPT ![k] = v]}
    BY <1>8 DEF NextCommand
  <2>2. file' \in SharedAnswers
    BY <2>1, NothingTyped DEF SharedAnswers
  <2> QED
    BY <1>8, <2>2 DEF NextCommand, RouteType, tree, run
<1>9. CASE UNCHANGED vars
  BY <1>9 DEF vars, tree, run, RouteType
<1> QED
  BY <1>1, <1>2, <1>3, <1>4, <1>5, <1>6, <1>7, <1>8, <1>9 DEF Next, Run, Over

LEMMA EntriesExtendKept ==
    ASSUME RouteType, EntriesExtend, [Next]_vars
    PROVE  EntriesExtend'
<1>1. CASE Execute
  <2>1. Here \in Node
    BY <1>1, OrderFacts DEF Execute, Running, RouteType
  <2> DEFINE start == TemplateAnswers(Here)
  <2>2. PICK b \in Filled(Here, start) :
             /\ mode = "headless" => b = start
             /\ cache' = cache \cup {[key |-> CacheKey(Here), state |-> Complete(Here, b), by |-> mode]}
    BY <1>1 DEF Execute
  <2> DEFINE e == [key |-> CacheKey(Here), state |-> Complete(Here, b), by |-> mode]
  <2>3. e.key[1] = Here /\ e.key[3] = start /\ e.state = Complete(Here, b) /\ e.by = mode
    BY DEF CacheKey
  <2>4. start \in Local
    BY <2>1, TemplateAnswersTyped
  <2> HIDE DEF e, start
  <2>5. /\ Extends(e.key[1], e.key[3], e.state)
        /\ e.by = "headless" =>
              Open(e.key[1], e.key[3]) = {} /\ e.state = AskedPart(e.key[1], e.key[3])
    BY <2>1, <2>2, <2>3, <2>4, ExecutedExtends
  <2>6. cache' = cache \cup {e}
    BY <2>2 DEF e
  <2> QED
    BY <2>5, <2>6 DEF EntriesExtend, Extends, AskedPart, Open
<1>2. CASE UNCHANGED cache
  BY <1>2 DEF EntriesExtend
<1> QED
  BY <1>1, <1>2 DEF Next, Run, Over, vars, Begin, SkipGroup, ServeFromCache, NeedInput, Finish, Supply, NextCommand

LEMMA RunKept ==
    ASSUME RouteType, RouteType', EntriesExtend, RunInv, [Next]_vars
    PROVE  RunInv'
<1> DEFINE Fresh == /\ shared' = initial' /\ at' = 1 /\ used' = Unused
                    /\ UNCHANGED tree /\ pc' = "run"
<1>1. ASSUME Fresh PROVE StartIsKept' /\ UsedIsShared'
  <2>1. \A n \in executable' : ~Past(n)'
    BY <1>1 DEF Past
  <2>2. \A n \in executable' : used'[n] = NoLocal
    BY <1>1 DEF Unused, RouteType
  <2> QED
    BY <1>1, <2>1, <2>2 DEF StartIsKept, UsedIsShared
<1> HIDE DEF Fresh
<1>2. CASE \E m \in Modes, previous \in {Nothing, saved} : Begin(m, previous)
  <2>1. Fresh /\ typed' = {} /\ pc' = "run"
    BY <1>2 DEF Begin, Fresh
  <2> QED
    BY <1>1, <2>1 DEF RunInv
<1>3. ASSUME UNCHANGED <<tree, version, initial>>
      PROVE  /\ \A n, r : CompleteKey(n, r)' = CompleteKey(n, r)
             /\ \A r : BeganWithout(r) <=> BeganWithout(r)'
  <2>1. \A n, r : CompleteKey(n, r)' = CompleteKey(n, r)
    BY <1>3 DEF CompleteKey, ScopedTo, MultiTemplate, tree
  <2> QED
    BY <1>3, <2>1 DEF BeganWithout, tree
<1>4. CASE SkipGroup
  <2>1. /\ UNCHANGED <<tree, version, initial, shared, used, typed, pc, mode>> /\ pc = "run"
        /\ Here \notin executable /\ at' = at + 1 /\ at \in 1..Len(Order)
    BY <1>4, OrderFacts DEF SkipGroup, Running, RouteType
  <2>2. \A n \in executable : Past(n)' <=> Past(n)
    <3>1. 1..(at' - 1) = 1..(at - 1) \cup {at}
      BY <2>1
    <3> QED
      BY <2>1, <3>1 DEF Past, Here
  <2>3. StartIsKept' /\ UsedIsShared'
    BY <1>3, <2>1, <2>2 DEF RunInv, StartIsKept, UsedIsShared, tree, ScopedTo, MultiTemplate
  <2> QED
    BY <1>3, <2>1, <2>3 DEF RunInv
<1>5. CASE ServeFromCache
  <2>1. Running /\ Here \in executable /\ pc' = "run" /\ UNCHANGED <<tree, version, initial, typed, mode>>
    BY <1>5 DEF ServeFromCache, Running
  <2>2. PICK e \in Cached(Here) : Takes(Here, e.state)
    BY <1>5 DEF ServeFromCache, Takes
  <2>3. e.state \in Local /\ Extends(Here, TemplateAnswers(Here), e.state)
    BY <2>1, <2>2, ServedExtends DEF RouteType
  <2>4. StartIsKept' /\ UsedIsShared'
    BY <2>1, <2>2, <2>3, TakesKeepsRun DEF RunInv, Running
  <2> QED
    BY <1>3, <2>1, <2>4 DEF RunInv, Running
<1>6. CASE Execute
  <2>1. Running /\ Here \in executable /\ pc' = "run" /\ UNCHANGED <<tree, version, initial, mode>>
    BY <1>6 DEF Execute, Running
  <2>2. Here \in Node /\ Ordered(Here)
    BY <2>1, OrderFacts DEF RouteType, Running, Here, Ordered
  <2> DEFINE start == TemplateAnswers(Here)
  <2>3. PICK b \in Filled(Here, start) :
             /\ mode = "headless" => b = start
             /\ Takes(Here, Complete(Here, b))
             /\ typed' = typed \cup {r \in Raw : start[r] # b[r]}
    BY <1>6 DEF Execute, Takes
  <2>4. start \in Local
    BY <2>2, TemplateAnswersTyped
  <2>5. /\ Complete(Here, b) \in Local /\ Extends(Here, start, Complete(Here, b))
        /\ \A r \in Raw : start[r] # b[r] => r \in Questions(Here) /\ start[r] = None
    BY <2>2, <2>4, ExecutedExtends
  <2>6. StartIsKept' /\ UsedIsShared'
    BY <2>1, <2>3, <2>5, TakesKeepsRun DEF RunInv, Running
  <2>7. \A r \in typed' : BeganWithout(r)
    <3>1. ASSUME NEW r \in Raw, start[r] # b[r] PROVE BeganWithout(r)
      <4>1. initial[CompleteKey(Here, r)] = None
        BY <2>1, <2>5, <3>1, NothingIsUnderAnOpenKey DEF RunInv, Running
      <4> QED
        BY <2>1, <2>2, <2>5, <3>1, <4>1 DEF BeganWithout
    <3> QED
      BY <2>1, <2>3, <3>1 DEF RunInv, Running
  <2>8. mode' = "headless" => typed' = {}
    BY <2>1, <2>3 DEF RunInv, Running
  <2> QED
    BY <1>3, <2>1, <2>6, <2>7, <2>8 DEF RunInv
<1>7. CASE NeedInput
  <2>1. /\ Running /\ Here \in executable /\ pc' = "need_input" /\ mode = "headless"
        /\ UNCHANGED <<tree, version, initial, shared, used, typed, at, mode>>
        /\ Open(Here, TemplateAnswers(Here)) # {}
    BY <1>7 DEF NeedInput, Running
  <2>2. Here \in Node /\ Ordered(Here)
    BY <2>1, OrderFacts DEF RouteType, Running, Here, Ordered
  <2>3. \E r \in Raw : BeganWithout(r)
    <3>1. PICK i \in 1..Len(Asks[Here]) : TemplateAnswers(Here)[Asks[Here][i]] = None
      BY <2>1 DEF Open
    <3>2. Asks[Here][i] \in Questions(Here) /\ Asks[Here][i] \in Raw
      BY <2>2, <3>1, OrderFacts DEF Questions
    <3>3. initial[CompleteKey(Here, Asks[Here][i])] = None
      BY <2>1, <3>1, <3>2, NothingIsUnderAnOpenKey DEF RunInv, Running
    <3> QED
      BY <2>1, <2>2, <3>2, <3>3 DEF BeganWithout
  <2>4. StartIsKept' /\ UsedIsShared'
    BY <1>3, <2>1 DEF RunInv, Running, StartIsKept, UsedIsShared, tree, ScopedTo, MultiTemplate, Past
  <2> QED
    BY <1>3, <2>1, <2>3, <2>4 DEF RunInv, Running
<1>8. CASE Finish
  <2>1. /\ pc = "run" /\ pc' = "done" /\ at = Len(Order) + 1
        /\ UNCHANGED <<tree, version, initial, shared, used, typed, at, mode>>
    BY <1>8, OrderFacts DEF Finish, run, RouteType
  <2>2. StartIsKept' /\ UsedIsShared'
    BY <1>3, <2>1 DEF RunInv, StartIsKept, UsedIsShared, tree, ScopedTo, MultiTemplate, Past
  <2> QED
    BY <1>3, <2>1, <2>2 DEF RunInv
<1>9. CASE Supply
  <2>1. Fresh /\ pc = "need_input" /\ pc' = "run" /\ UNCHANGED <<typed, mode>>
    BY <1>9 DEF Supply, Fresh
  <2>2. typed = {}
    BY <2>1 DEF RunInv
  <2> QED
    BY <1>1, <2>1, <2>2 DEF RunInv
<1>10. CASE NextCommand
  BY <1>10 DEF NextCommand, RunInv
<1>11. CASE UNCHANGED vars
  <2>1. UNCHANGED <<tree, version, initial, shared, used, typed, at, mode, pc>>
    BY <1>11 DEF vars, run
  <2>2. pc # "idle" => StartIsKept' /\ UsedIsShared'
    BY <1>3, <2>1 DEF RunInv, StartIsKept, UsedIsShared, tree, ScopedTo, MultiTemplate, Past
  <2> QED
    BY <1>3, <2>1, <2>2 DEF RunInv
<1> QED
  BY <1>2, <1>4, <1>5, <1>6, <1>7, <1>8, <1>9, <1>10, <1>11 DEF Next, Run, Over

LEMMA LastKept ==
    ASSUME RouteType, RunInv, LastInv, [Next]_vars
    PROVE  LastInv'
<1>1. CASE Finish
  <2>1. /\ pc = "run" /\ at = Len(Order) + 1 /\ executable' = executable
        /\ last' = [version |-> version, saved |-> shared, used |-> used]
    BY <1>1, OrderFacts DEF Finish, RouteType, tree
  <2>2. StartIsKept /\ UsedIsShared
    BY <2>1 DEF RunInv
  <2>3. \A n, r : LastScoped(n, r)' = ScopedTo(n, r)
    BY <2>1 DEF LastScoped, ScopedTo
  <2>4. \A n \in executable : Ordered(n) <=> Past(n)
    BY <2>1, OrderFacts DEF Ordered, Past
  <2>5. \A n \in executable, r \in Raw : LastKey(n, r)' = CompleteKey(n, r)
    <3> SUFFICES ASSUME NEW n \in executable, NEW r \in Raw
                 PROVE  LastKey(n, r)' = CompleteKey(n, r)
      OBVIOUS
    <3>1. ScopedTo(n, r) \in AnswerKey
      BY KeyFacts DEF RouteType
    <3>2. MultiTemplate => (shared[ScopedTo(n, r)] # None <=> initial[ScopedTo(n, r)] # None)
      BY <2>2, <3>1 DEF StartIsKept
    <3>3. LastKey(n, r)' = IF MultiTemplate /\ shared[ScopedTo(n, r)] # None THEN ScopedTo(n, r) ELSE Raw_(r)
      BY <2>1, <2>3 DEF LastKey, MultiTemplate, Raw_
    <3> QED
      BY <3>2, <3>3 DEF CompleteKey
  <2>6. \A n \in executable :
            IF Ordered(n)
              THEN \A r \in Questions(n) :
                      last'.used[n][r] # None /\ last'.saved[LastKey(n, r)'] = last'.used[n][r]
              ELSE last'.used[n] = NoLocal
    <3>1. executable \subseteq Node
      BY DEF RouteType
    <3> QED
      BY <2>1, <2>2, <2>4, <2>5, <3>1, OrderFacts DEF UsedIsShared
  <2> QED
    BY <2>1, <2>6 DEF LastInv
<1>2. CASE UNCHANGED <<tree, last, runs>>
  <2>1. \A n, r : LastKey(n, r)' = LastKey(n, r)
    BY <1>2 DEF LastKey, LastScoped, MultiTemplate, tree
  <2> QED
    BY <1>2, <2>1 DEF LastInv, tree
<1> QED
  BY <1>1, <1>2 DEF Next, Run, Over, vars, Begin, SkipGroup, ServeFromCache, Execute, NeedInput, Supply, NextCommand

\* The invariant of the answers, over any number of commands and upgrades.
THEOREM RouteInvariant == Spec => []RouteInv
<1>1. RouteInv /\ [Next]_vars => RouteInv'
  BY TypeOfRun, EntriesExtendKept, RunKept, LastKept DEF RouteInv
<1> QED
  BY RouteInitially, <1>1, PTL DEF Spec

\* An answer that a template was given as its own comes first, one for all
\* templates next, whatever is preset, cached or answered by others before
\* (build_template_answers, namespace_template_state).
THEOREM CallerWinsAlways == Spec => []CallerWins
<1>1. RouteInv => CallerWins
  <2> SUFFICES ASSUME RouteInv, pc # "idle", NEW n \in executable, NEW r \in Questions(n),
                      used[n][r] # None, initial[CompleteKey(n, r)] # None
               PROVE  used[n][r] = initial[CompleteKey(n, r)]
    BY DEF CallerWins, CompleteKey
  <2>1. n \in Node /\ r \in Raw
    BY OrderFacts DEF RouteInv, RouteType
  <2>2. Past(n)
    BY <2>1 DEF RouteInv, RunInv, UsedIsShared, NoLocal
  <2>3. CompleteKey(n, r) \in AnswerKey
    BY <2>1, CompleteKeyTyped DEF RouteInv
  <2> QED
    BY <2>2, <2>3 DEF RouteInv, RunInv, UsedIsShared, StartIsKept
<1> QED
  BY <1>1, RouteInvariant, PTL

\* What a run has saved determines, in a run that starts from it, what each
\* template is generated with: no question is asked, and every answer is as it was.
THEOREM ReplayIsFaithfulAlways == Spec => []ReplayIsFaithful
<1>1. RouteInv => ReplayIsFaithful
  <2> SUFFICES ASSUME RouteInv, IsReplay
               PROVE  /\ pc # "need_input" /\ typed = {}
                      /\ pc = "done" => \A n \in executable : \A r \in Questions(n) :
                                            used[n][r] = last.used[n][r]
    BY DEF ReplayIsFaithful
  <2>1. \A n \in executable, r \in Raw : LastKey(n, r) = CompleteKey(n, r)
    BY DEF LastKey, CompleteKey, LastScoped, ScopedTo, IsReplay
  <2>2. runs > 0 /\ pc # "idle" /\ initial = last.saved
    BY DEF IsReplay
  <2>3. /\ executable \subseteq Node
        /\ \A n \in executable : \A r \in Questions(n) : r \in Raw /\ CompleteKey(n, r) \in AnswerKey
    BY OrderFacts, CompleteKeyTyped DEF RouteInv, RouteType
  <2>4. \A n \in executable : \A r \in Questions(n) :
            Ordered(n) => last.used[n][r] # None /\ initial[CompleteKey(n, r)] = last.used[n][r]
    BY <2>1, <2>2, <2>3 DEF RouteInv, LastInv
  <2>5. \A r \in Raw : ~BeganWithout(r)
    BY <2>4 DEF BeganWithout
  <2>6. pc # "need_input" /\ typed = {}
    BY <2>2, <2>5 DEF RouteInv, RunInv, RouteType
  <2>7. ASSUME pc = "done", NEW n \in executable, NEW r \in Questions(n)
        PROVE  used[n][r] = last.used[n][r]
    <3>1. at = Len(Order) + 1 /\ StartIsKept /\ UsedIsShared
      BY <2>7 DEF RouteInv, RunInv
    <3>2. Ordered(n) <=> Past(n)
      BY <3>1, OrderFacts DEF Ordered, Past
    <3>3. CASE Ordered(n)
      BY <2>3, <2>4, <3>1, <3>2, <3>3 DEF UsedIsShared, StartIsKept
    <3>4. CASE ~Ordered(n)
      BY <2>2, <3>1, <3>2, <3>4 DEF UsedIsShared, RouteInv, LastInv
    <3> QED
      BY <3>3, <3>4
  <2> QED
    BY <2>6, <2>7
<1> QED
  BY <1>1, RouteInvariant, PTL

\* Between headless runs the cache is transparent: a hit is what executing the
\* template would have given, whoever else answered what before (cache/key.rs).
THEOREM CacheHitEqualsFreshRunAlways == Spec => []CacheHitEqualsFreshRun
<1>1. RouteInv => CacheHitEqualsFreshRun
  <2> SUFFICES ASSUME RouteInv, Running, Here \in executable, mode = "headless",
                      NEW e \in Cached(Here), e.by = "headless"
               PROVE  EqualsFreshRun(e)
    BY DEF CacheHitEqualsFreshRun
  <2>1. e \in cache /\ e.key[1] = Here /\ e.key[3] = TemplateAnswers(Here)
    BY DEF Cached, CacheKey
  <2>2. Open(Here, TemplateAnswers(Here)) = {} /\ e.state = AskedPart(Here, TemplateAnswers(Here))
    BY <2>1 DEF RouteInv, EntriesExtend
  <2> QED
    BY <2>2 DEF EqualsFreshRun, Complete, AskedPart
<1> QED
  BY <1>1, RouteInvariant, PTL

-----------------------------------------------------------------------------
(***************************************************************************)
(* OutputCache.  Everything rests on one fact: an entry that a process has *)
(* stored is of a process that is done, so that it is never stored again.  *)
(***************************************************************************)
USE NameAssumption, ContentAssumption

\* What is stored under k, was found under k or was there under k, if it is of a
\* process of this history.
StoredUnder(k, c) == c \in Process => op[c] = Use(k) /\ step[c] = "done"

EntriesAreStored ==
    /\ \A k \in Key : StoredUnder(k, files[k])
    /\ \A n \in Foreign : files[n] \notin Process
    /\ \A p \in Process, k \in Key : StoredUnder(k, before[p][k])
    /\ \A p \in Process : found[p] # Absent => op[p].kind = "use" /\ StoredUnder(KeyOf(p), found[p])

\* A clear removes what it has yet to remove, and the rest is gone.
ClearGoesOn ==
    \A p \in Process :
        /\ step[p] \notin {"start", "clear", "done", "crashed"} => op[p].kind = "use"
        /\ step[p] = "start" => outcome[p] = "none"
        /\ outcome[p] = "hit" => found[p] \notin {Absent, "poisoned"} /\ step[p] = "done"
        /\ outcome[p] = "cleared" => step[p] = "done"
        /\ step[p] = "clear" \/ outcome[p] = "cleared" =>
              \A k \in Key : (step[p] = "clear" => k \notin todo[p]) /\ before[p][k] # Absent
                                => files[k] # before[p][k]

CacheInv == TypeOK /\ EntriesAreStored /\ ClearGoesOn

LEMMA UseHasKey == ASSUME TypeOK, NEW p \in Process, op[p].kind = "use"
                   PROVE  KeyOf(p) \in Key /\ op[p] = Use(KeyOf(p))
<1>1. op[p] \in {Clear} \cup {Use(k) : k \in Key} /\ op[p] # Clear
  BY DEF TypeOK, Clear
<1>2. PICK k \in Key : op[p] = Use(k)
  BY <1>1
<1> QED
  BY <1>2 DEF Use, KeyOf

LEMMA CacheInitially == StoreInit => CacheInv
<1> SUFFICES ASSUME StoreInit PROVE CacheInv
  OBVIOUS
<1>1. PICK x \in Directories :
        /\ dir = x.d /\ marker = x.m
        /\ files = [n \in Name |-> IF n \in Key THEN x.f[n]
                                   ELSE IF x.d /\ x.m # "ours" THEN "foreign" ELSE Absent]
  BY DEF StoreInit
<1>2. /\ x.d \in BOOLEAN /\ x.m \in {"absent", "ours", "others"}
      /\ \A k \in Key : x.f[k] \in {Absent, Earlier, "garbled", "poisoned"}
  <2>1. CASE x = [d |-> FALSE, m |-> "absent", f |-> NoFiles]
    BY <2>1 DEF NoFiles, Name
  <2>2. CASE \E f \in [Key -> {Absent, Earlier, "garbled", "poisoned"}] : x = [d |-> TRUE, m |-> "ours", f |-> f]
    BY <2>2
  <2>3. CASE \E m \in {"absent", "others"} : x = [d |-> TRUE, m |-> m, f |-> NoFiles]
    BY <2>3 DEF NoFiles, Name
  <2> QED
    BY <2>1, <2>2, <2>3 DEF Directories
<1>3. \A k \in Key : files[k] = x.f[k]
  BY <1>1 DEF Name
<1>4. \A n \in Foreign : files[n] \in {"foreign", Absent}
  BY <1>1 DEF Name
<1>5. files \in [Name -> {Absent, Earlier} \cup Bad]
  BY <1>1, <1>2, <1>3, <1>4 DEF Name, Bad
<1>6. TypeOK
  BY <1>1, <1>2, <1>5 DEF StoreInit, TypeOK, Content, Stored, NoFiles, Bad
<1>7. EntriesAreStored
  BY <1>2, <1>3, <1>4 DEF StoreInit, EntriesAreStored, StoredUnder, NoFiles, Name, Bad, Absent, Earlier
<1>8. ClearGoesOn
  BY DEF StoreInit, ClearGoesOn
<1> QED
  BY <1>6, <1>7, <1>8 DEF CacheInv

LEMMA TypeKept == TypeOK /\ [StoreNext]_storeVars => TypeOK'
<1> SUFFICES ASSUME TypeOK, [StoreNext]_storeVars PROVE TypeOK'
  OBVIOUS
<1> USE DEF TypeOK, Step, Ends, disk
<1>1. ASSUME NEW p \in Process, Lookup(p) PROVE TypeOK'
  <2>1. files[KeyOf(p)] \in Content
    BY <1>1, UseHasKey DEF Lookup, Name
  <2>2. Decode(files[KeyOf(p)]) \in Stored \cup {"poisoned", Absent}
    BY DEF Decode
  <2> QED
    BY <1>1, <2>2 DEF Lookup
<1>2. ASSUME NEW p \in Process,
             \/ Serve(p) \/ Miss(p) \/ EnsureDir(p) \/ EnsureMarker(p) \/ CreateMarker(p)
             \/ WriteMarker(p) \/ PutFails(p) \/ ClearEnds(p) \/ Crash(p)
      PROVE  TypeOK'
  <2>1. CASE Serve(p) \/ Miss(p) \/ EnsureDir(p) \/ EnsureMarker(p)
    BY <2>1 DEF Serve, Miss, EnsureDir, EnsureMarker
  <2>2. CASE CreateMarker(p) \/ WriteMarker(p) \/ PutFails(p)
    BY <2>2 DEF CreateMarker, WriteMarker, PutFails
  <2>3. CASE ClearEnds(p)
    BY <2>3 DEF ClearEnds
  <2>4. CASE Crash(p)
    <3>1. crashes' \in 0..MaxCrashes
      BY <2>4 DEF Crash
    <3> QED
      BY <2>4, <3>1 DEF Crash
  <2> QED
    BY <1>2, <2>1, <2>2, <2>3, <2>4
<1>3. ASSUME NEW p \in Process, EvictPoisoned(p) \/ WriteEntry(p) PROVE TypeOK'
  <2>1. CASE EvictPoisoned(p)
    BY <2>1 DEF EvictPoisoned, Evict, Content, Stored
  <2>2. CASE WriteEntry(p)
    BY <2>2 DEF WriteEntry, Persist, Content, Stored
  <2> QED
    BY <1>3, <2>1, <2>2
<1>4. ASSUME NEW p \in Process, ClearBegins(p) PROVE TypeOK'
  <2>1. before' \in [Process -> [Name -> Content]]
    BY <1>4 DEF ClearBegins
  <2>2. todo' \in [Process -> SUBSET Name]
    <3>1. todo' = todo \/ todo' = [todo EXCEPT ![p] = {n \in Name : files[n] # Absent}]
      BY <1>4 DEF ClearBegins
    <3> QED
      BY <3>1
  <2>3. CASE dir /\ IsOwned
    BY <1>4, <2>1, <2>2, <2>3 DEF ClearBegins
  <2>4. CASE ~(dir /\ IsOwned)
    BY <1>4, <2>1, <2>2, <2>4 DEF ClearBegins
  <2> QED
    BY <2>3, <2>4
<1>5. ASSUME NEW p \in Process, ClearNext(p) PROVE TypeOK'
  <2>1. PICK n \in todo[p] :
          /\ todo' = [todo EXCEPT ![p] = @ \ {n}]
          /\ files' = files \/ files' = [files EXCEPT ![n] = Absent]
          /\ UNCHANGED <<step, outcome>> \/ RemoveFails(p)
    BY <1>5 DEF ClearNext
  <2>2. files' \in [Name -> Content] /\ todo' \in [Process -> SUBSET Name]
    BY <2>1 DEF Content
  <2>3. /\ step' = step \/ step' = [step EXCEPT ![p] = "done"]
        /\ outcome' = outcome \/ outcome' = [outcome EXCEPT ![p] = "error"]
    BY <2>1 DEF RemoveFails
  <2> QED
    BY <1>5, <2>2, <2>3 DEF ClearNext
<1>6. CASE UNCHANGED storeVars
  BY <1>6 DEF storeVars
<1> QED
  BY <1>1, <1>2, <1>3, <1>4, <1>5, <1>6 DEF StoreNext, RunStep, ClearStep, StoreOver

\* A process that is done stays so and does nothing.
LEMMA DoneStays ==
    ASSUME TypeOK, NEW p \in Process, RunStep(p) \/ ClearStep(p) \/ Crash(p)
    PROVE  /\ step[p] # "done" /\ op' = op
           /\ \A q \in Process : q # p => step'[q] = step[q]
BY DEF TypeOK, RunStep, ClearStep, Lookup, Serve, EvictPoisoned, Miss, EnsureDir, EnsureMarker,
   CreateMarker, WriteMarker, WriteEntry, PutFails, ClearBegins, ClearNext, ClearEnds, Crash, Step,
   Ends, RemoveFails

LEMMA StoredUnderKept ==
    ASSUME TypeOK, NEW p \in Process, RunStep(p) \/ ClearStep(p) \/ Crash(p),
           NEW k, NEW c, StoredUnder(k, c)
    PROVE  StoredUnder(k, c)'
BY DoneStays DEF StoredUnder

\* The files change in three ways; a process that stores is done with that.
LEMMA FilesChange ==
    ASSUME CacheInv, NEW p \in Process, RunStep(p) \/ ClearStep(p) \/ Crash(p)
    PROVE  \/ files' = files
           \/ \E n \in Name : files' = [files EXCEPT ![n] = Absent]
           \/ op[p].kind = "use" /\ step'[p] = "done" /\ files' = [files EXCEPT ![KeyOf(p)] = p]
<1>1. CASE EvictPoisoned(p)
  BY <1>1, UseHasKey DEF EvictPoisoned, Evict, CacheInv, EntriesAreStored, Absent, Name
<1>2. CASE WriteEntry(p)
  BY <1>2 DEF WriteEntry, Persist, Ends, Step, CacheInv, TypeOK, ClearGoesOn
<1>3. CASE ClearNext(p)
  BY <1>3 DEF ClearNext, RemoveFails, CacheInv, TypeOK
<1> QED
  BY <1>1, <1>2, <1>3 DEF RunStep, ClearStep, Lookup, Serve, Miss, EnsureDir, EnsureMarker,
     CreateMarker, WriteMarker, PutFails, ClearBegins, ClearEnds, Crash, disk

LEMMA EntriesKept ==
    ASSUME CacheInv, NEW p \in Process, RunStep(p) \/ ClearStep(p) \/ Crash(p)
    PROVE  EntriesAreStored'
<1> USE DEF EntriesAreStored
<1>1. /\ TypeOK /\ EntriesAreStored /\ op' = op
      /\ \A k, c : StoredUnder(k, c) => StoredUnder(k, c)'
  BY DoneStays, StoredUnderKept DEF CacheInv
<1>2. ASSUME NEW k \in Key PROVE StoredUnder(k, files[k])'
  <2>1. CASE files'[k] \in {files[k], Absent}
    BY <1>1, <2>1 DEF StoredUnder, Absent
  <2>2. CASE op[p].kind = "use" /\ step'[p] = "done" /\ files'[k] = p /\ k = KeyOf(p)
    BY <1>1, <2>2, UseHasKey DEF StoredUnder
  <2> QED
    BY <1>1, <2>1, <2>2, FilesChange, UseHasKey DEF TypeOK, Name
<1>3. ASSUME NEW n \in Foreign PROVE files'[n] \notin Process
  <2>1. op[p].kind = "use" => KeyOf(p) # n
    BY <1>1, UseHasKey
  <2>2. files'[n] \in {files[n], Absent}
    BY <1>1, <2>1, FilesChange DEF TypeOK, Name
  <2> QED
    BY <1>1, <2>2 DEF Absent
<1>4. ASSUME NEW q \in Process, NEW k \in Key PROVE StoredUnder(k, before[q][k])'
  <2>1. before' = before \/ before' = [before EXCEPT ![p] = files]
    BY DEF RunStep, ClearStep, Lookup, Serve, EvictPoisoned, Miss, EnsureDir, EnsureMarker,
       CreateMarker, WriteMarker, WriteEntry, PutFails, ClearBegins, ClearNext, ClearEnds, Crash
  <2> QED
    BY <1>1, <2>1 DEF TypeOK
<1>5. ASSUME NEW q \in Process, found'[q] # Absent
      PROVE  op'[q].kind = "use" /\ StoredUnder(KeyOf(q), found[q])'
  <2>1. CASE Lookup(p) /\ q = p
    <3>1. found'[p] = Decode(files[KeyOf(p)]) /\ op[p].kind = "use" /\ KeyOf(p) \in Key
      BY <1>1, <2>1, UseHasKey DEF Lookup, TypeOK
    <3>2. Decode(files[KeyOf(p)]) \in {files[KeyOf(p)], Absent}
      BY DEF Decode
    <3>3. StoredUnder(KeyOf(p), found'[p])
      BY <1>1, <3>1, <3>2 DEF StoredUnder, Absent
    <3> QED
      BY <1>1, <2>1, <3>1, <3>3 DEF StoredUnder, KeyOf
  <2>2. CASE found'[q] = found[q]
    BY <1>1, <1>5, <2>2 DEF StoredUnder, KeyOf
  <2>3. found' = found \/ Lookup(p)
    BY DEF RunStep, ClearStep, Serve, EvictPoisoned, Miss, EnsureDir, EnsureMarker,
       CreateMarker, WriteMarker, WriteEntry, PutFails, ClearBegins, ClearNext, ClearEnds, Crash
  <2> QED
    BY <1>1, <2>1, <2>2, <2>3 DEF Lookup, TypeOK
<1> QED
  BY <1>1, <1>2, <1>3, <1>4, <1>5

\* What a clear has found and is gone does not come back.
LEMMA GoneStays ==
    ASSUME CacheInv, NEW p \in Process, RunStep(p) \/ ClearStep(p) \/ Crash(p),
           NEW k \in Key, NEW q \in Process, before'[q] = before[q],
           before[q][k] # Absent, files[k] # before[q][k]
    PROVE  files'[k] # before[q][k]
<1>1. files'[k] \in {files[k], Absent} \/ files'[k] = p
  <2>1. files \in [Name -> Content] /\ k \in Name
    BY DEF CacheInv, TypeOK, Name
  <2>2. \/ files' = files
        \/ \E n \in Name : files' = [files EXCEPT ![n] = Absent]
        \/ files' = [files EXCEPT ![KeyOf(p)] = p]
    BY FilesChange
  <2> QED
    BY <2>1, <2>2
<1>2. before[q][k] # p
  BY DoneStays DEF CacheInv, EntriesAreStored, StoredUnder
<1> QED
  BY <1>1, <1>2

LEMMA ClearKept ==
    ASSUME CacheInv, NEW p \in Process, RunStep(p) \/ ClearStep(p) \/ Crash(p)
    PROVE  ClearGoesOn'
<1> USE DEF TypeOK, Step, Ends, disk
<1> DEFINE Right(q) ==
        /\ step[q] \notin {"start", "clear", "done", "crashed"} => op[q].kind = "use"
        /\ step[q] = "start" => outcome[q] = "none"
        /\ outcome[q] = "hit" => found[q] \notin {Absent, "poisoned"} /\ step[q] = "done"
        /\ outcome[q] = "cleared" => step[q] = "done"
      Goes(q) ==
        step[q] = "clear" \/ outcome[q] = "cleared" =>
              \A k \in Key : (step[q] = "clear" => k \notin todo[q]) /\ before[q][k] # Absent
                                => files[k] # before[q][k]
<1>1. TypeOK /\ \A q \in Process : Right(q) /\ Goes(q)
  BY DEF CacheInv, ClearGoesOn
<1> HIDE DEF Goes
<1>2. ASSUME NEW q \in Process, q # p PROVE Right(q)' /\ Goes(q)'
  <2>1. /\ step'[q] = step[q] /\ op' = op /\ outcome'[q] = outcome[q] /\ found'[q] = found[q]
        /\ todo'[q] = todo[q] /\ before'[q] = before[q]
    BY <1>1, <1>2 DEF RunStep, ClearStep, Lookup, Serve, EvictPoisoned, Miss, EnsureDir, EnsureMarker,
       CreateMarker, WriteMarker, WriteEntry, PutFails, ClearBegins, ClearNext, ClearEnds, Crash,
       RemoveFails
  <2>2. Right(q)'
    BY <1>1, <2>1
  <2>3. Goes(q)'
    BY <1>1, <2>1, GoneStays DEF Goes
  <2> QED
    BY <2>2, <2>3
<1>3. Right(p)'
  <2>1. CASE Lookup(p) \/ Serve(p) \/ EvictPoisoned(p) \/ Miss(p)
    BY <1>1, <2>1 DEF Lookup, Serve, EvictPoisoned, Miss
  <2>2. CASE \/ EnsureDir(p) \/ EnsureMarker(p) \/ CreateMarker(p)
             \/ WriteMarker(p) \/ WriteEntry(p) \/ PutFails(p)
    BY <1>1, <2>2 DEF EnsureDir, EnsureMarker, CreateMarker, WriteMarker, WriteEntry, PutFails
  <2>3. CASE ClearBegins(p) \/ ClearEnds(p) \/ Crash(p)
    BY <1>1, <2>3 DEF ClearBegins, ClearEnds, Crash
  <2>4. CASE ClearNext(p)
    BY <1>1, <2>4 DEF ClearNext, RemoveFails
  <2> QED
    BY <2>1, <2>2, <2>3, <2>4 DEF RunStep, ClearStep
<1>4. Goes(p)'
  <2>1. CASE RunStep(p) \/ Crash(p)
    <3>1. step'[p] # "clear" /\ outcome'[p] # "cleared"
      BY <1>1, <2>1 DEF RunStep, Lookup, Serve, EvictPoisoned, Miss, EnsureDir, EnsureMarker,
         CreateMarker, WriteMarker, WriteEntry, PutFails, Crash
    <3> QED
      BY <3>1 DEF Goes
  <2>2. CASE ClearBegins(p)
    <3>1. step'[p] = "clear" => todo'[p] = {n \in Name : files[n] # Absent} /\ before'[p] = files
      BY <1>1, <2>2 DEF ClearBegins
    <3>2. outcome'[p] # "cleared"
      BY <1>1, <2>2 DEF ClearBegins
    <3> QED
      BY <3>1, <3>2 DEF Goes, Name
  <2>3. CASE ClearNext(p)
    <3>1. PICK n \in todo[p] :
            /\ todo' = [todo EXCEPT ![p] = @ \ {n}]
            /\ \/ step[p] = "clear" /\ files'[n] = Absent /\ UNCHANGED <<step, outcome>>
               \/ step'[p] = "done" /\ outcome'[p] = "error"
      BY <1>1, <2>3 DEF ClearNext, RemoveFails
    <3>2. before' = before
      BY <2>3 DEF ClearNext
    <3> QED
      BY <1>1, <3>1, <3>2, GoneStays DEF Goes
  <2>4. CASE ClearEnds(p)
    BY <1>1, <2>4 DEF ClearEnds, Goes
  <2> QED
    BY <2>1, <2>2, <2>3, <2>4 DEF ClearStep
<1>5. \A q \in Process : Right(q)' /\ Goes(q)'
  BY <1>2, <1>3, <1>4
<1> QED
  BY <1>5 DEF ClearGoesOn, Goes

LEMMA CacheInvKept == CacheInv /\ [StoreNext]_storeVars => CacheInv'
<1> SUFFICES ASSUME CacheInv, [StoreNext]_storeVars PROVE CacheInv'
  OBVIOUS
<1>1. ASSUME NEW p \in Process, RunStep(p) \/ ClearStep(p) \/ Crash(p) PROVE CacheInv'
  <2>1. TypeOK'
    BY <1>1, TypeKept DEF CacheInv, StoreNext
  <2> QED
    BY <1>1, <2>1, EntriesKept, ClearKept DEF CacheInv
<1>2. CASE UNCHANGED storeVars
  BY <1>2 DEF CacheInv, TypeOK, EntriesAreStored, StoredUnder, ClearGoesOn, KeyOf, storeVars, disk
<1> QED
  BY <1>1, <1>2 DEF StoreNext, StoreOver

\* The invariant of the store, for any number of processes and crashes: what is
\* under a name was stored under its key, and a clear has removed what it passed.
THEOREM CacheInvariant == StoreSpec => []CacheInv
BY CacheInitially, CacheInvKept, PTL DEF StoreSpec

\* A run is served only what a run has stored whole, under the same key.
THEOREM ServedWasStoredAlways == StoreSpec => []ServedWasStored
<1>1. CacheInv => ServedWasStored
  <2> SUFFICES ASSUME CacheInv, NEW p \in Process, outcome[p] = "hit"
               PROVE  \/ found[p] = Earlier
                      \/ found[p] \in Process /\ op[found[p]] = op[p] /\ step[found[p]] = "done"
    BY DEF ServedWasStored
  <2>1. found[p] \in Process \cup {Earlier} /\ op[p].kind = "use" /\ StoredUnder(KeyOf(p), found[p])
    BY DEF CacheInv, TypeOK, Stored, ClearGoesOn, EntriesAreStored
  <2> QED
    BY <2>1, UseHasKey DEF StoredUnder, CacheInv
<1> QED
  BY CacheInvariant, <1>1, PTL

\* A clear that met no error has removed every entry that was there.
THEOREM ClearRemovesAllAlways == StoreSpec => []ClearRemovesAll
<1>1. CacheInv => ClearRemovesAll
  BY DEF CacheInv, ClearGoesOn, ClearRemovesAll, Gone
<1> QED
  BY CacheInvariant, <1>1, PTL
-----------------------------------------------------------------------------
(***************************************************************************)
(* A directory with somebody else's tag: ensure_marker leaves the tag      *)
(* alone, and without a tag of its own no clear begins.                    *)
(***************************************************************************)
TaggedInv ==
    marker = "others" =>
        \A p \in Process : step[p] \notin {"create_marker", "write_marker", "clear"}

\* Under such a tag a process touches what is named after a key only.
LEMMA KeysChange ==
    ASSUME CacheInv, NEW p \in Process, RunStep(p) \/ ClearStep(p) \/ Crash(p), step[p] # "clear"
    PROVE  \A n \in Foreign : files'[n] = files[n]
<1>1. CASE EvictPoisoned(p) \/ WriteEntry(p)
  <2>1. op[p].kind = "use"
    BY <1>1 DEF EvictPoisoned, WriteEntry, Ends, Step, CacheInv, ClearGoesOn
  <2>2. KeyOf(p) \in Key /\ files \in [Name -> Content]
    BY <2>1, UseHasKey DEF CacheInv, TypeOK
  <2>3. files' = files \/ \E c : files' = [files EXCEPT ![KeyOf(p)] = c]
    BY <1>1 DEF EvictPoisoned, WriteEntry, Evict, Persist
  <2>4. \A n \in Foreign : n \in Name /\ n # KeyOf(p)
    BY <2>2 DEF Name
  <2> QED
    BY <2>2, <2>3, <2>4
<1>2. CASE ClearNext(p)
  BY <1>2 DEF ClearNext, RemoveFails, Ends, Step
<1> QED
  BY <1>1, <1>2 DEF RunStep, ClearStep, Lookup, Serve, Miss, EnsureDir, EnsureMarker,
     CreateMarker, WriteMarker, PutFails, ClearBegins, ClearEnds, Crash, disk

\* Who meets such a tag goes past the marker, or does not clear; nobody makes one.
LEMMA TagIsLeft ==
    ASSUME CacheInv, NEW p \in Process, RunStep(p) \/ ClearStep(p) \/ Crash(p), marker' = "others"
    PROVE  /\ marker = "others"
           /\ step[p] \notin {"create_marker", "write_marker", "clear"} =>
                 step'[p] \notin {"create_marker", "write_marker", "clear"}
<1>1. DOMAIN step = Process /\ step = [q \in Process |-> step[q]]
  BY DEF CacheInv, TypeOK
<1>2. marker = "others"
  BY DEF RunStep, ClearStep, Lookup, Serve, EvictPoisoned, Miss, EnsureDir, EnsureMarker,
     CreateMarker, WriteMarker, WriteEntry, PutFails, ClearBegins, ClearNext, ClearEnds, Crash, disk
<1>3. CASE RunStep(p)
  BY <1>1, <1>2, <1>3 DEF RunStep, Lookup, Serve, EvictPoisoned, Miss, EnsureDir, EnsureMarker,
     CreateMarker, WriteMarker, WriteEntry, PutFails, Step, Ends
<1>4. CASE ClearStep(p)
  BY <1>1, <1>2, <1>4 DEF ClearStep, ClearBegins, ClearNext, ClearEnds, RemoveFails, IsOwned, Step, Ends
<1>5. CASE Crash(p)
  BY <1>1, <1>2, <1>5 DEF Crash
<1> QED
  BY <1>2, <1>3, <1>4, <1>5

LEMMA TaggedStep == CacheInv /\ TaggedInv /\ [StoreNext]_storeVars => TaggedInv'
<1> SUFFICES ASSUME CacheInv, TaggedInv, [StoreNext]_storeVars, marker' = "others" PROVE TaggedInv'
  BY DEF TaggedInv
<1>1. ASSUME NEW p \in Process, RunStep(p) \/ ClearStep(p) \/ Crash(p) PROVE TaggedInv'
  <2>1. \A q \in Process : step[q] \notin {"create_marker", "write_marker", "clear"}
    BY <1>1, TagIsLeft DEF TaggedInv
  <2>2. step'[p] \notin {"create_marker", "write_marker", "clear"}
    BY <1>1, <2>1, TagIsLeft
  <2>3. \A q \in Process : q # p => step'[q] = step[q]
    BY <1>1, DoneStays DEF CacheInv
  <2> QED
    BY <2>1, <2>2, <2>3 DEF TaggedInv
<1>2. CASE UNCHANGED storeVars
  BY <1>2 DEF TaggedInv, storeVars, disk
<1> QED
  BY <1>1, <1>2 DEF StoreNext, StoreOver

\* A directory that has somebody else's tag is never cleared, whoever uses it as a
\* cache: its tag and its files stay as they are.
THEOREM TaggedFilesSurviveAlways == StoreSpec => TaggedFilesSurvive
<1>1. StoreInit => TaggedInv
  BY DEF StoreInit, TaggedInv
<1>2. CacheInv /\ TaggedInv /\ [StoreNext]_storeVars =>
         [marker = "others" => marker' = "others" /\ \A n \in Foreign : files'[n] = files[n]]_storeVars
  <2> SUFFICES ASSUME CacheInv, TaggedInv, [StoreNext]_storeVars, marker = "others"
               PROVE  marker' = "others" /\ \A n \in Foreign : files'[n] = files[n]
    OBVIOUS
  <2>1. ASSUME NEW p \in Process, RunStep(p) \/ ClearStep(p) \/ Crash(p)
        PROVE  marker' = "others" /\ \A n \in Foreign : files'[n] = files[n]
    <3>1. step[p] \notin {"create_marker", "write_marker", "clear"}
      BY DEF TaggedInv
    <3>2. marker' = marker
      BY <2>1, <3>1 DEF RunStep, ClearStep, Lookup, Serve, EvictPoisoned, Miss, EnsureDir, EnsureMarker,
         CreateMarker, WriteMarker, WriteEntry, PutFails, ClearBegins, ClearNext, ClearEnds, Crash, Step,
         disk
    <3> QED
      BY <2>1, <3>1, <3>2, KeysChange
  <2>2. CASE UNCHANGED storeVars
    BY <2>2 DEF storeVars, disk
  <2> QED
    BY <2>1, <2>2 DEF StoreNext, StoreOver
<1> QED
  BY CacheInvariant, TaggedStep, <1>1, <1>2, PTL DEF StoreSpec, TaggedFilesSurvive
-----------------------------------------------------------------------------
(***************************************************************************)
(* OutputCache implements CacheContract.  A step changes what one process  *)
(* has in the contract (OneMoves), or the entries; what is missing is that *)
(* only a run that was given nothing comes to store something.             *)
(***************************************************************************)
Storing == {"execute", "ensure_marker", "create_marker", "write_marker", "write_entry"}

GivenNothing ==
    \A p \in Process :
        /\ step[p] \in Storing => found[p] \notin Stored
        /\ step[p] = "start" => before[p] = NoFiles
        /\ step[p] # "done" => outcome[p] = "none"

States       == [p \in Process |-> StateOf(p)]
AskedKeys    == [p \in Process |-> AskedBy(p)]
AnswersGiven == [p \in Process |-> Whole(found[p])]
Dues         == [p \in Process |-> DueFor(p)]
Entries      == [k \in Key |-> Whole(files[k])]

LEMMA OthersStay ==
    ASSUME CacheInv, NEW p \in Process, RunStep(p) \/ ClearStep(p) \/ Crash(p),
           NEW q \in Process, q # p
    PROVE  /\ step'[q] = step[q] /\ op' = op /\ outcome'[q] = outcome[q]
           /\ found'[q] = found[q] /\ before'[q] = before[q]
<1> USE DEF Step, Ends
<1>1. TypeOK
  BY DEF CacheInv
<1>2. CASE RunStep(p) \/ Crash(p)
  BY <1>1, <1>2 DEF TypeOK, RunStep, Lookup, Serve, EvictPoisoned, Miss, EnsureDir, EnsureMarker,
     CreateMarker, WriteMarker, WriteEntry, PutFails, Crash
<1>3. CASE ClearStep(p)
  BY <1>1, <1>3 DEF TypeOK, ClearStep, ClearBegins, ClearNext, ClearEnds, RemoveFails
<1> QED
  BY <1>2, <1>3

LEMMA GivenNothingKept == CacheInv /\ GivenNothing /\ [StoreNext]_storeVars => GivenNothing'
<1> SUFFICES ASSUME CacheInv, GivenNothing, [StoreNext]_storeVars PROVE GivenNothing'
  OBVIOUS
<1> DEFINE Right(q) ==
        /\ step[q] \in Storing => found[q] \notin Stored
        /\ step[q] = "start" => before[q] = NoFiles
        /\ step[q] # "done" => outcome[q] = "none"
<1>1. TypeOK /\ \A q \in Process : Right(q)
  BY DEF CacheInv, GivenNothing
<1>2. ASSUME NEW p \in Process, RunStep(p) \/ ClearStep(p) \/ Crash(p) PROVE GivenNothing'
  <2>1. ASSUME NEW q \in Process, q # p PROVE Right(q)'
    BY <1>1, <1>2, <2>1, OthersStay
  <2>2. Right(p)'
    <3> USE DEF TypeOK, Step, Ends, Storing
    <3>1. CASE Lookup(p) \/ Serve(p)
      BY <1>1, <3>1 DEF Lookup, Serve
    <3>5. CASE EvictPoisoned(p) \/ Miss(p)
      <4>1. found'[p] \in {"poisoned", Absent} /\ step'[p] = "execute" /\ outcome'[p] = outcome[p]
        BY <1>1, <3>5 DEF EvictPoisoned, Miss
      <4>2. step[p] # "done"
        BY <1>1, <3>5 DEF EvictPoisoned, Miss
      <4> QED
        BY <1>1, <4>1, <4>2 DEF Stored, Earlier, Absent, Bad
    <3>2. CASE \/ EnsureDir(p) \/ EnsureMarker(p) \/ CreateMarker(p)
               \/ WriteMarker(p) \/ WriteEntry(p) \/ PutFails(p)
      BY <1>1, <3>2 DEF EnsureDir, EnsureMarker, CreateMarker, WriteMarker, WriteEntry, PutFails
    <3>3. CASE ClearBegins(p) \/ ClearEnds(p) \/ Crash(p)
      BY <1>1, <3>3 DEF ClearBegins, ClearEnds, Crash
    <3>4. CASE ClearNext(p)
      BY <1>1, <3>4 DEF ClearNext, RemoveFails
    <3> QED
      BY <1>2, <3>1, <3>2, <3>3, <3>4, <3>5 DEF RunStep, ClearStep
  <2>3. \A q \in Process : Right(q)'
    BY <2>1, <2>2
  <2> QED
    BY <2>3 DEF GivenNothing
<1>3. CASE UNCHANGED storeVars
  BY <1>3 DEF GivenNothing, storeVars, disk
<1> QED
  BY <1>2, <1>3 DEF StoreNext, StoreOver

\* In the contract, too, a step is that of one process.
LEMMA OneMoves ==
    ASSUME CacheInv, NEW p \in Process, RunStep(p) \/ ClearStep(p) \/ Crash(p)
    PROVE  /\ States' = [States EXCEPT ![p] = StateOf(p)']
           /\ AskedKeys' = [AskedKeys EXCEPT ![p] = AskedBy(p)']
           /\ AnswersGiven' = [AnswersGiven EXCEPT ![p] = Whole(found'[p])]
           /\ Dues' = [Dues EXCEPT ![p] = DueFor(p)']
<1>1. ASSUME NEW q \in Process, q # p
      PROVE  /\ StateOf(q)' = StateOf(q) /\ AskedBy(q)' = AskedBy(q)
             /\ Whole(found[q])' = Whole(found[q]) /\ DueFor(q)' = DueFor(q)
  BY <1>1, OthersStay DEF StateOf, AskedBy, Whole, DueFor, KeyOf, Stored
<1> QED
  BY <1>1 DEF States, AskedKeys, AnswersGiven, Dues
\* Only a lookup changes what a process has asked for and was given, and only the
\* beginning of a clear what is due to it.
LEMMA AskedStay ==
    ASSUME CacheInv, GivenNothing, NEW p \in Process, RunStep(p) \/ ClearStep(p) \/ Crash(p), ~Lookup(p)
    PROVE  AskedKeys' = AskedKeys /\ AnswersGiven' = AnswersGiven
<1>1. TypeOK /\ step[p] = "start" => outcome[p] = "none"
  BY DEF CacheInv, GivenNothing
<1>2. op' = op /\ found' = found
  BY DEF RunStep, ClearStep, Serve, EvictPoisoned, Miss, EnsureDir, EnsureMarker,
     CreateMarker, WriteMarker, WriteEntry, PutFails, ClearBegins, ClearNext, ClearEnds, Crash
<1>3. step[p] = "start" => ClearBegins(p)
  BY DEF RunStep, ClearStep, Serve, EvictPoisoned, Miss, EnsureDir, EnsureMarker, CreateMarker,
     WriteMarker, WriteEntry, PutFails, ClearNext, ClearEnds, Crash, Step, Ends, RemoveFails
<1>4. op[p].kind = "use" /\ step[p] # "start" => step'[p] # "start"
  BY DEF CacheInv, TypeOK, RunStep, ClearStep, Serve, EvictPoisoned, Miss, EnsureDir, EnsureMarker,
     CreateMarker, WriteMarker, WriteEntry, PutFails, ClearBegins, ClearNext, ClearEnds, Crash,
     Step, Ends, RemoveFails
<1>5. ClearBegins(p) => op[p].kind # "use"
  BY DEF ClearBegins
<1>6. AskedBy(p)' = AskedBy(p)
  BY <1>2, <1>3, <1>4, <1>5 DEF AskedBy, KeyOf
<1>7. \A q \in Process : AskedBy(q)' = AskedBy(q)
  BY <1>2, <1>6, OthersStay DEF AskedBy, KeyOf
<1> QED
  BY <1>2, <1>7 DEF AskedKeys, AnswersGiven, Whole, Stored

LEMMA DuesStay ==
    ASSUME CacheInv, GivenNothing, NEW p \in Process, RunStep(p) \/ ClearStep(p) \/ Crash(p), ~ClearBegins(p)
    PROVE  Dues' = Dues
<1>1. before' = before
  BY DEF RunStep, ClearStep, Lookup, Serve, EvictPoisoned, Miss, EnsureDir, EnsureMarker,
     CreateMarker, WriteMarker, WriteEntry, PutFails, ClearNext, ClearEnds, Crash
<1>2. step[p] # "done" /\ outcome[p] # "skipped"
  BY DoneStays DEF CacheInv, GivenNothing
<1>3. outcome'[p] # "skipped"
  BY <1>2 DEF CacheInv, TypeOK, RunStep, ClearStep, Lookup, Serve, EvictPoisoned, Miss, EnsureDir,
     EnsureMarker, CreateMarker, WriteMarker, WriteEntry, PutFails, ClearNext, ClearEnds, Crash, Ends,
     Step, RemoveFails
<1>4. \A q \in Process : DueFor(q)' = DueFor(q)
  BY <1>1, <1>2, <1>3, OthersStay DEF DueFor, Whole, Stored
<1> QED
  BY <1>4 DEF Dues

\* Removing a file is dropping an entry.
LEMMA DropIsDrop ==
    ASSUME CacheInv, NEW k \in Key, files' = [files EXCEPT ![k] = Absent]
    PROVE  Entries' = [Entries EXCEPT ![k] = Absent]
<1>1. files \in [Name -> Content] /\ Key \subseteq Name
  BY DEF CacheInv, TypeOK, Name
<1>2. \A j \in Key : files'[j] = IF j = k THEN Absent ELSE files[j]
  BY <1>1
<1> QED
  BY <1>2 DEF Entries, Whole, Stored

LEMMA RunImplements ==
    ASSUME CacheInv, GivenNothing, NEW p \in Process, RunStep(p)
    PROVE  [Contract!Next]_<<Entries, States, AskedKeys, AnswersGiven, Dues>>
<1> USE DEF Step, Ends
<1>1. TypeOK /\ GivenNothing
  BY DEF CacheInv
<1>2. /\ States' = [States EXCEPT ![p] = StateOf(p)'] /\ States[p] = StateOf(p)
      /\ AskedKeys[p] = AskedBy(p) /\ AnswersGiven[p] = Whole(found[p])
  BY OneMoves DEF States, AskedKeys, AnswersGiven
<1>3. ~ClearBegins(p) /\ Dues' = Dues
  <2>1. op[p].kind = "use"
    BY DEF CacheInv, TypeOK, ClearGoesOn, RunStep, Lookup, Serve, EvictPoisoned, Miss, EnsureDir,
       EnsureMarker, CreateMarker, WriteMarker, WriteEntry, PutFails
  <2>2. ~ClearBegins(p)
    BY <2>1 DEF ClearBegins
  <2> QED
    BY <2>2, DuesStay
<1>4. files' = files => Entries' = Entries
  BY DEF Entries, Whole, Stored
<1>5. CASE Lookup(p)
  <2> DEFINE k == KeyOf(p)
  <2>1. op[p].kind = "use" /\ k \in Key /\ step[p] = "start" /\ step'[p] = "looked_up" /\ files' = files
    BY <1>1, <1>5, UseHasKey DEF Lookup, TypeOK, disk
  <2>2. StateOf(p) = "new" /\ StateOf(p)' = "answered" /\ AskedBy(p)' = k
    BY <1>5, <2>1 DEF StateOf, AskedBy, Lookup, KeyOf
  <2>3. Whole(found'[p]) = Whole(files[k])
    BY <1>1, <1>5 DEF Lookup, Decode, Whole, TypeOK, Stored, Earlier, Absent, Bad
  <2>4. AskedKeys' = [AskedKeys EXCEPT ![p] = k] /\ AnswersGiven' = [AnswersGiven EXCEPT ![p] = Entries[k]]
    BY <2>1, <2>2, <2>3, OneMoves DEF Entries
  <2>5. Contract!LookUp(p, k)
    BY <1>2, <1>3, <1>4, <2>1, <2>2, <2>4
       DEF Contract!LookUp, Contract!Becomes, Entries, States, AskedKeys, AnswersGiven, Dues
  <2> QED
    BY <2>1, <2>5 DEF Contract!Next
<1>6. ASSUME ~Lookup(p) PROVE AskedKeys' = AskedKeys /\ AnswersGiven' = AnswersGiven
  BY <1>6, AskedStay
<1>7. CASE Serve(p)
  <2>1. step[p] = "looked_up" /\ step'[p] = "done" /\ outcome'[p] = "hit" /\ files' = files /\ ~Lookup(p)
    BY <1>1, <1>7 DEF Serve, TypeOK, disk, Lookup
  <2>2. StateOf(p) = "answered" /\ StateOf(p)' = "served"
    BY <2>1 DEF StateOf
  <2>3. AnswersGiven[p] # Absent
    BY <1>1, <1>2, <1>7 DEF Serve, TypeOK, Whole, Stored, Earlier, Absent, Bad
  <2>4. Contract!Serve(p)
    BY <1>2, <1>3, <1>4, <1>6, <2>1, <2>2, <2>3
       DEF Contract!Serve, Contract!Becomes, Entries, States, AskedKeys, AnswersGiven, Dues
  <2> QED
    BY <2>4 DEF Contract!Next
<1>8. CASE WriteEntry(p) \/ PutFails(p)
  <2>1. /\ step[p] \in Storing /\ step'[p] = "done" /\ outcome'[p] = "executed"
        /\ files' = files \/ files' = [files EXCEPT ![KeyOf(p)] = p]
    BY <1>1, <1>8 DEF WriteEntry, PutFails, Persist, TypeOK, disk, Storing
  <2>2. op[p].kind = "use" /\ KeyOf(p) \in Key
    BY <1>1, <2>1, UseHasKey DEF CacheInv, ClearGoesOn, Storing
  <2>3. StateOf(p) = "answered" /\ StateOf(p)' = "made" /\ AskedBy(p) = KeyOf(p)
    BY <2>1, <2>2 DEF StateOf, AskedBy, Storing
  <2>4. AnswersGiven[p] = Absent
    BY <1>1, <1>2, <2>1 DEF GivenNothing, Whole
  <2>5. Entries' \in {Entries, [Entries EXCEPT ![AskedKeys[p]] = p]}
    <3>1. CASE files' = [files EXCEPT ![KeyOf(p)] = p]
      <4>1. \A k \in Key : files'[k] = IF k = KeyOf(p) THEN p ELSE files[k]
        BY <1>1, <3>1 DEF TypeOK, Name
      <4>2. \A k \in Key : Whole(files[k])' = IF k = KeyOf(p) THEN p ELSE Whole(files[k])
        BY <4>1 DEF Whole, Stored
      <4>3. AskedKeys[p] = KeyOf(p)
        BY <1>2, <2>3
      <4> QED
        BY <4>2, <4>3 DEF Entries
    <3> QED
      BY <1>4, <2>1, <3>1
  <2>6. ~Lookup(p)
    BY <2>1 DEF Lookup, Storing
  <2>7. Contract!Make(p)
    BY <1>2, <1>3, <1>6, <2>3, <2>4, <2>5, <2>6
       DEF Contract!Make, Contract!Becomes, Entries, States, AskedKeys, AnswersGiven, Dues
  <2> QED
    BY <2>7 DEF Contract!Next
<1>9. CASE \/ EvictPoisoned(p) \/ Miss(p) \/ EnsureDir(p)
           \/ EnsureMarker(p) \/ CreateMarker(p) \/ WriteMarker(p)
  <2>1. /\ step[p] \notin {"start", "clear", "crashed", "done"}
        /\ step'[p] \notin {"start", "clear", "crashed", "done"}
    BY <1>1, <1>9 DEF EvictPoisoned, Miss, EnsureDir, EnsureMarker, CreateMarker, WriteMarker, TypeOK
  <2>2. StateOf(p) = "answered" /\ StateOf(p)' = "answered" /\ ~Lookup(p)
    BY <2>1 DEF StateOf, Lookup
  <2>3. States' = States
    BY <1>2, <2>2 DEF States
  <2>4. op[p].kind = "use" /\ KeyOf(p) \in Key
    BY <1>1, <2>1, UseHasKey DEF CacheInv, ClearGoesOn
  <2>5. files' = files \/ files' = [files EXCEPT ![KeyOf(p)] = Absent]
    BY <1>9 DEF EvictPoisoned, Evict, Miss, EnsureDir, EnsureMarker, CreateMarker, WriteMarker, disk
  <2>6. CASE files' = files
    BY <1>3, <1>4, <1>6, <2>2, <2>3, <2>6
  <2>7. CASE files' = [files EXCEPT ![KeyOf(p)] = Absent]
    <3>1. Entries' = [Entries EXCEPT ![KeyOf(p)] = Absent]
      BY <2>4, <2>7, DropIsDrop
    <3>2. Contract!Drop(KeyOf(p))
      BY <1>3, <1>6, <2>2, <2>3, <3>1 DEF Contract!Drop, Entries, States, AskedKeys, AnswersGiven, Dues
    <3> QED
      BY <2>4, <3>2 DEF Contract!Next
  <2> QED
    BY <2>5, <2>6, <2>7
<1> QED
  BY <1>5, <1>7, <1>8, <1>9 DEF RunStep

LEMMA ClearImplements ==
    ASSUME CacheInv, GivenNothing, NEW p \in Process, ClearStep(p) \/ Crash(p)
    PROVE  [Contract!Next]_<<Entries, States, AskedKeys, AnswersGiven, Dues>>
<1> USE DEF Step, Ends
<1>1. TypeOK /\ GivenNothing
  BY DEF CacheInv
<1>2. /\ States' = [States EXCEPT ![p] = StateOf(p)'] /\ States[p] = StateOf(p)
      /\ Dues' = [Dues EXCEPT ![p] = DueFor(p)'] /\ Dues[p] = DueFor(p)
  BY OneMoves DEF States, Dues
<1>3. ~Lookup(p)
  BY <1>1 DEF ClearStep, ClearBegins, ClearNext, ClearEnds, Crash, Lookup, RemoveFails
<1>4. AskedKeys' = AskedKeys /\ AnswersGiven' = AnswersGiven
  BY <1>3, AskedStay
<1>5. files' = files => Entries' = Entries
  BY DEF Entries, Whole, Stored
<1>6. ~ClearBegins(p) => Dues' = Dues
  BY DuesStay
<1>7. CASE ClearBegins(p)
  <2>1. step[p] = "start" /\ StateOf(p) = "new" /\ files' = files /\ before'[p] = files
    BY <1>1, <1>7 DEF ClearBegins, TypeOK, StateOf, disk
  <2>2. CASE dir /\ IsOwned
    <3>1. step'[p] = "clear" /\ StateOf(p)' = "clearing" /\ outcome'[p] # "skipped"
      BY <1>1, <1>7, <2>1, <2>2 DEF ClearBegins, TypeOK, StateOf, GivenNothing
    <3>2. DueFor(p)' = Entries
      BY <2>1, <3>1 DEF DueFor, Entries, Whole, Stored
    <3>3. Contract!StartClear(p)
      BY <1>2, <1>4, <1>5, <2>1, <3>1, <3>2
         DEF Contract!StartClear, Contract!Becomes, Entries, States, AskedKeys, AnswersGiven, Dues
    <3> QED
      BY <3>3 DEF Contract!Next
  <2>3. CASE ~(dir /\ IsOwned)
    <3>1. step'[p] = "done" /\ outcome'[p] = "skipped" /\ StateOf(p)' = "refused"
      BY <1>1, <1>7, <2>3 DEF ClearBegins, TypeOK, StateOf
    <3>2. DueFor(p)' = DueFor(p)
      <4>1. before[p] = NoFiles
        BY <1>1, <2>1 DEF GivenNothing
      <4> QED
        BY <3>1, <4>1 DEF DueFor, NoFiles, Name, Whole
    <3>3. Dues' = Dues
      BY <1>2, <3>2 DEF Dues
    <3>4. Contract!Refuse(p)
      BY <1>2, <1>4, <1>5, <2>1, <3>1, <3>3
         DEF Contract!Refuse, Contract!Becomes, Entries, States, AskedKeys, AnswersGiven, Dues
    <3> QED
      BY <3>4 DEF Contract!Next
  <2> QED
    BY <2>2, <2>3
<1>8. CASE ClearNext(p)
  <2>1. PICK n \in todo[p] :
          \/ step[p] = "clear" /\ UNCHANGED <<step, outcome, files>>
          \/ RemoveFails(p) /\ UNCHANGED files
          \/ step[p] = "clear" /\ UNCHANGED <<step, outcome>> /\ files' = [files EXCEPT ![n] = Absent]
    BY <1>8 DEF ClearNext
  <2>2. ~ClearBegins(p) /\ step[p] = "clear" /\ StateOf(p) = "clearing" /\ n \in Name
    BY <1>1, <2>1 DEF RemoveFails, ClearBegins, StateOf, TypeOK
  <2>3. CASE UNCHANGED <<step, outcome>>
    <3>1. States' = States
      BY <2>3 DEF States, StateOf
    <3>2. CASE files' = files
      BY <1>4, <1>5, <1>6, <2>2, <3>1, <3>2
    <3>3. CASE n \in Key /\ files' = [files EXCEPT ![n] = Absent]
      <4>1. Entries' = [Entries EXCEPT ![n] = Absent]
        BY <3>3, DropIsDrop
      <4>2. Contract!Drop(n)
        BY <1>4, <1>6, <2>2, <3>1, <4>1 DEF Contract!Drop, Entries, States, AskedKeys, AnswersGiven, Dues
      <4> QED
        BY <3>3, <4>2 DEF Contract!Next
    <3>4. CASE n \notin Key /\ files' = [files EXCEPT ![n] = Absent]
      <4>1. \A k \in Key : files'[k] = files[k]
        BY <1>1, <3>4 DEF TypeOK, Name
      <4>2. Entries' = Entries
        BY <4>1 DEF Entries, Whole, Stored
      <4> QED
        BY <1>4, <1>6, <2>2, <3>1, <4>2
    <3> QED
      BY <1>1, <2>1, <2>3, <3>2, <3>3, <3>4 DEF RemoveFails, TypeOK
  <2>4. CASE RemoveFails(p) /\ UNCHANGED files
    <3>1. step'[p] = "done" /\ outcome'[p] = "error" /\ StateOf(p)' = "refused"
      BY <1>1, <2>4 DEF RemoveFails, TypeOK, StateOf
    <3>2. Contract!Refuse(p)
      BY <1>2, <1>4, <1>5, <1>6, <2>2, <2>4, <3>1
         DEF Contract!Refuse, Contract!Becomes, Entries, States, AskedKeys, AnswersGiven, Dues
    <3> QED
      BY <3>2 DEF Contract!Next
  <2> QED
    BY <2>1, <2>3, <2>4
<1>9. CASE ClearEnds(p)
  <2>1. /\ step[p] = "clear" /\ todo[p] = {} /\ step'[p] = "done" /\ outcome'[p] = "cleared"
        /\ files' = files
    BY <1>1, <1>9 DEF ClearEnds, TypeOK, disk
  <2>2. StateOf(p) = "clearing" /\ StateOf(p)' = "cleared" /\ ~ClearBegins(p)
    BY <2>1 DEF StateOf, ClearBegins
  <2>3. \A k \in Key : Dues[p][k] # Absent => Entries[k] # Dues[p][k]
    <3>1. \A k \in Key : before[p][k] # Absent => files[k] # before[p][k]
      BY <2>1 DEF CacheInv, ClearGoesOn
    <3> QED
      BY <1>2, <3>1 DEF DueFor, Entries, Whole
  <2>4. Contract!Cleared(p)
    BY <1>2, <1>4, <1>5, <1>6, <2>1, <2>2, <2>3
       DEF Contract!Cleared, Contract!Becomes, Entries, States, AskedKeys, AnswersGiven, Dues
  <2> QED
    BY <2>4 DEF Contract!Next
<1>10. CASE Crash(p)
  <2>1. step[p] \notin {"start", "done"} /\ step'[p] = "crashed" /\ files' = files /\ ~ClearBegins(p)
    BY <1>1, <1>10 DEF Crash, TypeOK, disk, ClearBegins
  <2>2. StateOf(p) \in {"answered", "clearing", "killed"} /\ StateOf(p)' = "killed"
    BY <2>1 DEF StateOf
  <2>3. CASE StateOf(p) = "killed"
    <3>1. States' = States
      BY <1>2, <2>2, <2>3 DEF States
    <3> QED
      BY <1>4, <1>5, <1>6, <2>1, <3>1
  <2>4. CASE StateOf(p) \in {"answered", "clearing"}
    <3>1. Contract!Killed(p)
      BY <1>2, <1>4, <1>5, <1>6, <2>1, <2>2, <2>4
         DEF Contract!Killed, Contract!Becomes, Entries, States, AskedKeys, AnswersGiven, Dues
    <3> QED
      BY <3>1 DEF Contract!Next
  <2> QED
    BY <2>2, <2>3, <2>4
<1> QED
  BY <1>7, <1>8, <1>9, <1>10 DEF ClearStep

LEMMA ContractStep ==
    CacheInv /\ GivenNothing /\ [StoreNext]_storeVars
      => [Contract!Next]_<<Entries, States, AskedKeys, AnswersGiven, Dues>>
<1> SUFFICES ASSUME CacheInv, GivenNothing, [StoreNext]_storeVars
             PROVE  [Contract!Next]_<<Entries, States, AskedKeys, AnswersGiven, Dues>>
  OBVIOUS
<1>1. CASE UNCHANGED storeVars
  <2>1. UNCHANGED <<Entries, States, AskedKeys, AnswersGiven, Dues>>
    BY <1>1 DEF storeVars, disk, Entries, States, AskedKeys, AnswersGiven, Dues, Whole, StateOf, AskedBy,
       DueFor, KeyOf, Stored
  <2> QED
    BY <2>1
<1> QED
  BY <1>1, RunImplements, ClearImplements DEF StoreNext, StoreOver

LEMMA ContractInitially ==
    ASSUME StoreInit
    PROVE  Contract!Init /\ GivenNothing
<1>1. CacheInv
  BY CacheInitially
<1>2. GivenNothing
  BY DEF StoreInit, GivenNothing, Storing
<1>3. PICK x \in Directories : files = [n \in Name |-> IF n \in Key THEN x.f[n]
                                   ELSE IF x.d /\ x.m # "ours" THEN "foreign" ELSE Absent]
  BY DEF StoreInit
<1>4. \A k \in Key : files[k] \in {Absent, Earlier} \cup Bad
  <2>1. \A k \in Key : files[k] \notin Process
    BY <1>1 DEF CacheInv, EntriesAreStored, StoredUnder, StoreInit
  <2> QED
    BY <1>1, <2>1 DEF CacheInv, TypeOK, Content, Stored, Name
<1>5. [k \in Key |-> Whole(files[k])] \in [Key -> {Earlier, Absent}]
  BY <1>4 DEF Whole, Stored, Bad, Earlier, Absent
<1>6. \A p \in Process : StateOf(p) = "new" /\ AskedBy(p) = Absent /\ Whole(found[p]) = Absent
  BY DEF StoreInit, StateOf, AskedBy, Whole
<1>7. \A p \in Process : DueFor(p) = [k \in Key |-> Absent]
  BY DEF StoreInit, DueFor, Whole, NoFiles, Name
<1> QED
  BY <1>2, <1>5, <1>6, <1>7 DEF Contract!Init, Contract!NoEntries

\* The store implements the contract: whatever is damaged, removed late or twice,
\* written by two at once or left behind by a crash, its users see entries that
\* somebody made for their key, or none, and who clears it has cleared it.
THEOREM ImplementsCacheContract == StoreSpec => CacheSpec
<1>1. StoreInit => Contract!Init /\ GivenNothing
  BY ContractInitially
<1>2. CacheInv /\ GivenNothing /\ [StoreNext]_storeVars => GivenNothing'
  BY GivenNothingKept
<1>3. CacheInv /\ GivenNothing /\ [StoreNext]_storeVars
        => [Contract!Next]_<<Entries, States, AskedKeys, AnswersGiven, Dues>>
  BY ContractStep
<1> QED
  BY CacheInvariant, <1>1, <1>2, <1>3, PTL
     DEF StoreSpec, CacheSpec, Contract!Spec, Entries, States, AskedKeys, AnswersGiven, Dues
=============================================================================
