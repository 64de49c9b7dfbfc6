-------------------------- MODULE MCInterviewScreen --------------------------
(***************************************************************************)
(* A bound for TLC: after interview_busy one tab at a time looks again, and*)
(* the next is not refused before that look is done with, or, if it threw, *)
(* before that tab's next call ends.                                       *)
(***************************************************************************)
EXTENDS InterviewScreen

OneLooks == \A t, u \in Tabs : t # u => "none" \in {tab[t].wait, tab[u].wait}
=============================================================================
