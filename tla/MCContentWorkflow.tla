------------------------- MODULE MCContentWorkflow -------------------------
(***************************************************************************)
(* ContentWorkflow for TLC: two things done at once to one item.           *)
(***************************************************************************)
EXTENDS ContentWorkflow, TLC

(* Requests and words are told apart by nothing but equality, and no       *)
(* liveness is checked.                                                    *)
Symmetry == Permutations(Requests) \cup Permutations(Words)

(* What a version said is written once and read by no step: states that    *)
(* differ only in it go on alike, and each snapshot is checked as it is    *)
(* written.                                                                *)
View == <<kind, row, {s.version : s \in history}, vector, pc, job, overtaken, muddled>>
=============================================================================
