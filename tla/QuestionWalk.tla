---------------------------- MODULE QuestionWalk ----------------------------
(***************************************************************************)
(* The question-and-answer walk of TemplateEngine with one template:       *)
(* start_with, which prompts a user, and start_headless, which replays a   *)
(* supplied set of answers and stops at the first question that has none.  *)
(* A headless caller runs the command again with one more answer, until it *)
(* is done: no state is kept between two invocations.                      *)
(*                                                                         *)
(* The template runs behind the coordinator.  It is a decision tree over   *)
(* questions, and one of two kinds: `first` asks the first question on the *)
(* path that has no answer, `sequence` asks every question, answered or    *)
(* not, until the deterministic state it sent with it comes back.  A       *)
(* misbehaving one (`stuck`) asks the same question for ever.              *)
(*                                                                         *)
(* The state echoed back is modelled by the set of questions it stands     *)
(* for, and an error message by the questions whose answers it contains.   *)
(***************************************************************************)
EXTENDS Integers, FiniteSets

CONSTANTS Question, Answer, NoAnswer, End,
          First,     \* the template's first question
          Follow,    \* Follow[<<q, v>>]: its next one when q is answered by v
          Kind,      \* text, password, select or confirm
          Clash,     \* <<q, v, s>>: v is not accepted for q once s is answered
          Wrong,     \* <<q, v>>: v is never accepted for q
          Model,     \* the kinds of template considered
          Faults,    \* whether a call can fail
          MaxIter    \* MAX_HEADLESS_ITERATIONS, MAX_VALIDATION_ITERATIONS

Reply == Question \cup {End}
Answers == [Question -> Answer \cup {NoAnswer}]

ASSUME QuestionAssumption == IsFiniteSet(Question)
ASSUME FollowAssumption == First \in Question /\ Follow \in [Question \X Answer -> Reply]
ASSUME KindAssumption == Kind \in [Question -> {"text", "password", "select", "confirm"}]
ASSUME NoAnswerAssumption == NoAnswer \notin Answer /\ End \notin Question
ASSUME BoundAssumption == MaxIter \in Nat \ {0} /\ Faults \in BOOLEAN
ASSUME ModelAssumption == Model \subseteq {"first", "sequence", "stuck"}

VARIABLES
    phase,        \* idle, discover, outcome, prompt or ended
    model,     \* what kind the template is
    headless,
    supplied,  \* the answers on the command line
    answers,   \* start_with: the answers so far
    discovered, walked,  \* start_headless: answers the walks went past
    det,       \* the deterministic state to send
    iter,      \* iterations of the current walk
    tracked,   \* InFlightAnswers: questions whose values are known
    result     \* what the walk reports

walk == <<answers, discovered, walked, det, iter, tracked>>
walkVars == <<phase, model, headless, supplied, walk, result>>

Unanswered == [q \in Question |-> NoAnswer]
Answered(a) == {q \in Question : a[q] # NoAnswer}

NoResult == [kind |-> "none", question |-> End, answers |-> Unanswered, echo |-> {}]

-----------------------------------------------------------------------------
(***************************************************************************)
(* The template, as it is seen through prompt_template and                 *)
(* validate_template.                                                      *)
(***************************************************************************)
\* From question q on, if its answer is one the template goes by: those in S.
Onward(a, S, q) == IF q # End /\ a[q] # NoAnswer /\ q \in S THEN Follow[<<q, a[q]>>] ELSE q

\* The question reached after n steps.
Position(a, S) ==
    LET at[n \in 0..Cardinality(Question)] == IF n = 0 THEN First ELSE Onward(a, S, at[n - 1])
    IN  at

\* The first question on the path that has no answer.
FirstUnanswered(a) == Position(a, Question)[Cardinality(Question)]

\* The answered questions on the path.
OnPath(a) ==
    {q \in Answered(a) : \E n \in 0..Cardinality(Question) : Position(a, Question)[n] = q}

\* What the template replies: End stands for TemplateOutput::Final.
PromptTemplate(a, d) ==
    CASE model = "first"    -> FirstUnanswered(a)
      [] model = "sequence" -> Position(a, d)[Cardinality(Question)]
      [] model = "stuck"    -> First

Accepts(q, v, siblings) ==
    /\ <<q, v>> \notin Wrong
    /\ \A s \in siblings : <<q, v, s>> \notin Clash

Supplied(q) == q # End /\ supplied[q] # NoAnswer

\* validate_answer asks the template only about texts (and dates).
AsksTemplate(q) == Kind[q] \in {"text", "password"}

-----------------------------------------------------------------------------
(***************************************************************************)
(* Redaction of error messages.                                            *)
(***************************************************************************)
\* answer_renderings: booleans are not tracked.
Renderings(S) == {q \in S : Kind[q] # "confirm"}

\* redact_error: a message that echoes a tracked value is dropped whole.
RedactError(echo) == IF echo \cap tracked = {} THEN echo ELSE {}

\* redact_coordinator_message of validate_answer.
RedactMessage(q, siblings, echo) ==
    IF Kind[q] = "password" \/ echo \cap Renderings(siblings \cup {q}) # {} THEN {} ELSE echo

-----------------------------------------------------------------------------
WalkInit ==
    /\ phase = "idle" /\ model \in Model /\ headless \in BOOLEAN
    /\ supplied \in Answers
    /\ answers = Unanswered /\ discovered = Unanswered /\ walked = Unanswered
    /\ det = {} /\ iter = 0 /\ tracked = {}
    /\ result = NoResult

End_(r) ==
    /\ phase' = "ended"
    /\ result' = r
    /\ UNCHANGED <<model, headless, supplied>>

Error(echo) == End_([NoResult EXCEPT !.kind = "error", !.echo = echo])

(***************************************************************************)
(* start_headless.                                                         *)
(***************************************************************************)
\* Mutant: the tracker starts the second walk empty.
StartOutcomeUnseeded(revealed) ==
    /\ phase' = "outcome"
    /\ discovered' = revealed
    /\ walked' = Unanswered /\ det' = {} /\ iter' = 0
    /\ tracked' = {}
    /\ UNCHANGED <<model, headless, supplied, answers, result>>

\* The second walk sends all supplied answers, and its tracker knows them all.
StartOutcome(revealed) ==
    /\ phase' = "outcome"
    /\ discovered' = revealed
    /\ walked' = Unanswered /\ det' = {} /\ iter' = 0
    /\ tracked' = Renderings(Answered(supplied))
    /\ UNCHANGED <<model, headless, supplied, answers, result>>

\* Without supplied answers there is nothing to discover.
StartHeadless ==
    /\ phase = "idle" /\ headless
    /\ IF supplied = Unanswered
         THEN StartOutcome(Unanswered)
         ELSE /\ phase' = "discover"
              /\ discovered' = Unanswered /\ walked' = Unanswered
              /\ det' = {} /\ iter' = 0 /\ tracked' = {}
              /\ UNCHANGED <<model, headless, supplied, answers, result>>

\* prompt_template fails; the message may echo any answer it was sent.
PromptFails(sent) ==
    /\ Faults
    /\ \E echo \in SUBSET sent : Error(RedactError(echo))

\* A supplied answer is refused, or the call that validates it fails.
ValidationFails(q, siblings) ==
    /\ \/ ~Accepts(q, supplied[q], siblings)
       \/ Faults /\ AsksTemplate(q)
    /\ \E echo \in SUBSET (IF AsksTemplate(q) THEN siblings \cup {q} ELSE {}) :
          Error(RedactMessage(q, siblings, echo))

MayGoOn == iter < MaxIter

\* Mutant: the first walk sends all supplied answers at once.
DiscoverSendsAll == supplied

\* The first walk sends the answers one at a time, so that every question on
\* their path is asked and each answer validated.
DiscoverSends == discovered

\* validate_supplied_answers
Discover ==
    /\ phase = "discover" /\ MayGoOn
    /\ LET q == PromptTemplate(DiscoverSends, det)
           siblings == Answered(discovered) \ {q}
       IN \/ /\ PromptFails(Answered(DiscoverSends))
             /\ UNCHANGED walk
          \/ /\ ~Supplied(q)
             /\ StartOutcome(discovered)
          \/ /\ Supplied(q)
             /\ ValidationFails(q, siblings)
             /\ UNCHANGED walk
          \/ /\ Supplied(q)
             /\ Accepts(q, supplied[q], siblings)
             /\ tracked' = tracked \cup Renderings({q})
             /\ discovered' = [discovered EXCEPT ![q] = supplied[q]]
             /\ det' = det \cup {q} /\ iter' = iter + 1
             /\ UNCHANGED <<phase, model, headless, supplied, answers, walked, result>>

\* Mutant: everything that was supplied is reported, asked for or not.
ReportsSupplied == supplied

\* The answers of a complete walk are those that the first walk revealed.
Reports == discovered

Outcome ==
    /\ phase = "outcome" /\ MayGoOn
    /\ LET q == PromptTemplate(supplied, det)
           siblings == Answered(walked)
       IN \/ /\ PromptFails(Answered(supplied))
             /\ UNCHANGED walk
          \/ /\ q = End
             /\ End_([NoResult EXCEPT !.kind = "done", !.answers = Reports])
             /\ UNCHANGED walk
          \/ /\ q # End /\ ~Supplied(q)
             /\ End_([NoResult EXCEPT !.kind = "need_input", !.question = q])
             /\ UNCHANGED walk
          \/ /\ Supplied(q)
             /\ ValidationFails(q, siblings)
             /\ UNCHANGED walk
          \/ /\ Supplied(q)
             /\ Accepts(q, supplied[q], siblings)
             /\ tracked' = tracked \cup Renderings({q})
             /\ walked' = [walked EXCEPT ![q] = supplied[q]]
             /\ det' = det \cup {q} /\ iter' = iter + 1
             /\ UNCHANGED <<phase, model, headless, supplied, answers, discovered, result>>

\* Mutant: the walks have no bound.
NoGiveUp == FALSE /\ UNCHANGED walkVars

GiveUp ==
    /\ phase \in {"discover", "outcome"} /\ iter = MaxIter
    /\ Error({})
    /\ UNCHANGED walk

(***************************************************************************)
(* start_with.                                                             *)
(***************************************************************************)
StartWith ==
    /\ phase = "idle" /\ ~headless
    /\ phase' = "prompt"
    /\ answers' = supplied
    /\ UNCHANGED <<model, headless, supplied, discovered, walked, det, iter, tracked, result>>

\* The user answers, and the prompt keeps asking until the answer is accepted.
\* A user who skips is asked the same question again, unless there is no answer
\* at all yet: then the program exits.
Prompt ==
    /\ phase = "prompt"
    /\ LET q == PromptTemplate(answers, det)
       IN \/ /\ Faults
             /\ Error(Answered(answers))
             /\ UNCHANGED walk
          \/ /\ q = End
             /\ End_([NoResult EXCEPT !.kind = "done", !.answers = answers])
             /\ UNCHANGED walk
          \/ /\ q # End
             /\ \E v \in Answer :
                   /\ Accepts(q, v, Answered(answers))
                   /\ answers' = [answers EXCEPT ![q] = v]
             /\ det' = det \cup {q}
             /\ UNCHANGED <<phase, model, headless, supplied, discovered, walked, iter, tracked, result>>
          \/ /\ q # End /\ answers # Unanswered
             /\ answers' = [answers EXCEPT ![q] = NoAnswer]
             /\ UNCHANGED <<phase, model, headless, supplied, discovered, walked, det, iter, tracked, result>>
          \/ /\ q # End /\ answers = Unanswered
             /\ End_([NoResult EXCEPT !.kind = "exited"])
             /\ UNCHANGED walk

(***************************************************************************)
(* The headless caller: it adds the answer that was asked for, one that    *)
(* the template accepts, and runs the command again.                       *)
(***************************************************************************)
NextInvocation ==
    /\ phase = "ended" /\ result.kind = "need_input"
    /\ \E v \in Answer :
          /\ Accepts(result.question, v, Answered(walked))
          /\ supplied' = [supplied EXCEPT ![result.question] = v]
    /\ phase' = "idle" /\ result' = NoResult
    /\ answers' = Unanswered /\ discovered' = Unanswered /\ walked' = Unanswered
    /\ det' = {} /\ iter' = 0 /\ tracked' = {}
    /\ UNCHANGED <<model, headless>>

WalkOver == phase = "ended" /\ UNCHANGED walkVars

HeadlessRun == StartHeadless \/ Discover \/ Outcome \/ GiveUp

WalkNext == HeadlessRun \/ NextInvocation \/ StartWith \/ Prompt \/ WalkOver

WalkSpec == WalkInit /\ [][WalkNext]_walkVars

\* Every call has a timeout, and the caller keeps answering.
FairWalk == WalkSpec /\ WF_walkVars(HeadlessRun) /\ WF_walkVars(NextInvocation)

-----------------------------------------------------------------------------
\* What a headless run reports as done are exactly the answers on one path
\* through the template: complete, and nothing that was supplied for a question
\* not asked (a secret for another branch must not get into the state file).
DoneIsOnePath ==
    headless /\ result.kind = "done" =>
        /\ FirstUnanswered(result.answers) = End
        /\ Answered(result.answers) = OnPath(result.answers)

\* No message of a headless run contains a supplied answer, whichever call
\* failed (booleans, which are words of any message, are let through).
MessagesHideAnswers == headless => Renderings(result.echo) = {}

\* A headless session, and an interactive one that starts without answers, keep
\* the promise of PromptSession: each answer that is taken was asked for in this
\* order and accepted given those before it.
Asked == ~headless /\ supplied = Unanswered /\ model # "stuck"

Given == IF headless THEN discovered ELSE IF Asked THEN answers ELSE Unanswered

Status ==
    IF result.kind = "done" /\ (headless \/ Asked) THEN "done"
    ELSE IF result.kind \in {"need_input", "error", "exited"} THEN "stopped"
    ELSE "open"

Session ==
    INSTANCE PromptSession WITH
        Next0 <- [a \in Answers |-> FirstUnanswered(a)], given <- Given, status <- Status
SessionSpec == Session!Spec

\* A caller who keeps answering gets an outcome, from any kind of template.
CallerGetsOutcome == headless => <>(result.kind \in {"done", "error"})
=============================================================================
