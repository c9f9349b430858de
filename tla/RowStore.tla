------------------------------- MODULE RowStore -------------------------------
(***************************************************************************)
(* What the logging of messages promises (README.rst:49), one row at a     *)
(* time and wherever it is stored meanwhile: a row that MailScanner has    *)
(* handed over is waiting, kept in a backup, or delivered to PostgreSQL,   *)
(* and moves in this direction only. MessageLog implements it.             *)
(***************************************************************************)
CONSTANTS
    Row,
    Refused     \* rows that the database refuses whatever its state

VARIABLES
    up,         \* the database answers: not for the store to say
    place       \* of a row

Place == {"waiting", "kept", "delivered"}

Init == up \in BOOLEAN /\ place = [r \in Row |-> "waiting"]

Keep(r) == place[r] = "waiting" /\ place'[r] = "kept"
Deliver(r) ==
    /\ up /\ r \notin Refused
    /\ place[r] \in {"waiting", "kept"} /\ place'[r] = "delivered"

(* A step may move any number of rows.                                       *)
Next ==
    /\ up' \in BOOLEAN /\ place' \in [Row -> Place]
    /\ \A r \in Row : Keep(r) \/ Deliver(r) \/ place'[r] = place[r]

Spec == Init /\ [][Next]_<<up, place>>

(* What is kept is delivered if the database stays up.                       *)
Live ==
    \A r \in Row \ Refused :
        <>[]up => (place[r] = "kept" ~> place[r] = "delivered")
FairSpec == Spec /\ Live
=============================================================================
