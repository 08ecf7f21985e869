---------------------------- MODULE PromptSession ---------------------------
(***************************************************************************)
(* What a question-and-answer session with one template promises: the      *)
(* template's questions are answered in the order in which it asks them,   *)
(* each answer is accepted given the ones before it, and the session is    *)
(* done, with just these answers, when the template has no more questions. *)
(* It may stop early at any time, and start over.                          *)
(***************************************************************************)
CONSTANTS Question, Answer, NoAnswer,
          End,        \* no more questions
          Next0,      \* Next0[a]: the question the template asks after answers a
          Accepts(_, _, _)  \* whether the template accepts an answer to a question

VARIABLES given,   \* the answers so far
          status   \* open, done or stopped

Unanswered == [q \in Question |-> NoAnswer]
Answered(a) == {q \in Question : a[q] # NoAnswer}

Init == given = Unanswered /\ status = "open"

Give(q, v) ==
    /\ status = "open"
    /\ q = Next0[given] /\ given[q] = NoAnswer
    /\ Accepts(q, v, Answered(given))
    /\ given' = [given EXCEPT ![q] = v]
    /\ UNCHANGED status

Done ==
    /\ status = "open"
    /\ Next0[given] = End
    /\ status' = "done"
    /\ UNCHANGED given

Stop == status = "open" /\ status' = "stopped" /\ UNCHANGED given

StartOver == status # "done" /\ given' = Unanswered /\ status' = "open"

Next ==
    \/ \E q \in Question, v \in Answer : Give(q, v)
    \/ Done \/ Stop \/ StartOver

Spec == Init /\ [][Next]_<<given, status>>
=============================================================================
