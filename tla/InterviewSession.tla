--------------------------- MODULE InterviewSession ---------------------------
(***************************************************************************)
(* What one exchange does to a session, for whoever only stores it: the    *)
(* snapshot as the API sees it, a stage and the next turn's seq.  It is    *)
(* the contract of POST /interview/advance that InterviewEngine implements *)
(* and that SessionExchange is built on.                                   *)
(***************************************************************************)
EXTENDS Integers

Actions == {"start", "answer", "skip", "end"}

(* "intro" and "ended" are the states of those names; "open" is every      *)
(* state between them in which the candidate may be waited for.            *)
Stages == {"intro", "open", "ended"}

Point == [stage : Stages, next : Nat]

Beginning == [stage |-> "intro", next |-> 0]

(* The stages in which the engine takes an action rather than refuse it.   *)
Takes(stage, action) ==
  CASE action = "start"              -> stage = "intro"
    [] action \in {"answer", "skip"} -> stage = "open"
    [] action = "end"                -> stage # "ended"

(* How many turns an exchange adds: the candidate's words, if there are    *)
(* any, and what the interviewer says to them; a start is greeted first.   *)
TurnsOf(action) ==
  CASE action \in {"start", "answer"} -> 2
    [] action \in {"skip", "end"}     -> 1

(* Any exchange but an early end may leave the session open or ended.      *)
Outcomes(point, action) ==
  {[stage |-> stage, next |-> point.next + TurnsOf(action)] :
     stage \in IF action = "end" THEN {"ended"} ELSE {"open", "ended"}}

VARIABLE point

Init == point = Beginning

Exchange(action) ==
  /\ Takes(point.stage, action)
  /\ point' \in Outcomes(point, action)

Next == \E action \in Actions : Exchange(action)

Spec == Init /\ [][Next]_point
=============================================================================
