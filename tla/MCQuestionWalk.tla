--------------------------- MODULE MCQuestionWalk ---------------------------
(* Four questions: name, then token if its answer is a, or region and lint    *)
(* if it is b, then back together at confirm.                                 *)
EXTENDS QuestionWalk

CONSTANTS name, token, region, sure, a, b

MCQuestion == {name, token, region, sure}
MCAnswer == {a, b}
MCFollow ==
    [p \in MCQuestion \X MCAnswer |->
        CASE p[1] = name -> IF p[2] = a THEN token ELSE region
          [] p[1] \in {token, region} -> sure
          [] p[1] = sure -> End]
MCKind ==
    [q \in MCQuestion |->
        CASE q = name -> "text" [] q = token -> "password"
          [] q = region -> "text" [] q = sure -> "confirm"]
(* region = b is refused once sure is answered, token = b always, and sure = b *)
(* is refused in the branch of region.                                         *)
MCClash == {<<region, b, sure>>, <<sure, b, region>>}
MCWrong == {<<token, b>>}
=============================================================================
