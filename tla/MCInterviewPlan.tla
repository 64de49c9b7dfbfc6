-------------------------- MODULE MCInterviewPlan --------------------------
(* InterviewPlan for TLC: three questions of one type, the third of them   *)
(* for one variant, and two of another.                                    *)
EXTENDS InterviewPlan, TLC
CONSTANTS t1, t2, java, b1, b2, technical, behavioral, spring
MCTypeOf == [q \in {t1, t2, java} |-> technical] @@ [q \in {b1, b2} |-> behavioral]
MCStacksOf == [q \in {java} |-> {spring}] @@ [q \in {t1, t2, b1, b2} |-> {}]
MCSupported == <<technical, behavioral>>
(* Questions alike in type and tags are told apart by nothing: no two were *)
(* last asked at the same time.                                            *)
Symmetry == Permutations({t1, t2}) \cup Permutations({b1, b2})
=============================================================================
