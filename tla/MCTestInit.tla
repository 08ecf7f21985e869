----------------------------- MODULE MCTestInit -----------------------------
(* lang, then db; then sure, or, for the second language and the second       *)
(* database, first extra.  The databases read the same in the name of a test. *)
EXTENDS TestInit

CONSTANTS lang, db, extra, sure, a, b, x, y

MCQuestion == {lang, db, extra, sure}
MCValue == {a, b, x, y}
MCFollow ==
    [p \in MCQuestion \X MCValue \X (MCValue \cup {None}) |->
        CASE p[1] = lang -> db
          [] p[1] = db -> IF p[2] = y /\ p[3] = b THEN extra ELSE sure
          [] p[1] = extra -> sure
          [] p[1] = sure -> End]
MCOffer ==
    [p \in MCQuestion \X (MCValue \cup {None}) |->
        CASE p[1] = lang -> <<a, b>> [] p[1] = db -> <<x, y>>
          [] p[1] = extra -> <<x>>   [] p[1] = sure -> <<a>>]
MCKind ==
    [q \in MCQuestion |->
        CASE q = lang -> "confirm" [] q = db -> "select" [] q \in {extra, sure} -> "text"]
MCTyped == [q \in MCQuestion |-> IF q = sure THEN {b} ELSE {}]
Piece(s) == [stem |-> s, tail |-> <<>>]
MCPieceOf ==
    [v \in MCValue |->
        CASE v = a -> Piece("a") [] v = b -> Piece("b") [] v \in {x, y} -> Piece("c")]

(* Another template: the second language has other databases than the first.  *)
MCOfferByLanguage ==
    [p \in MCQuestion \X (MCValue \cup {None}) |->
        IF p = <<db, b>> THEN <<y>> ELSE MCOffer[p]]

(* "A" and "A 1" are answers to one question: what reads a, and a-1.          *)
MCPieceWithNumber ==
    [v \in MCValue |-> IF v = b THEN [stem |-> "a", tail |-> <<1>>] ELSE MCPieceOf[v]]
=============================================================================
