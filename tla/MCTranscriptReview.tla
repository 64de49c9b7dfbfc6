------------------------- MODULE MCTranscriptReview -------------------------
(***************************************************************************)
(* TranscriptReview for TLC: an author, a reviewer, two requests at once.  *)
(***************************************************************************)
EXTENDS TranscriptReview, TLC

(* Users and requests are told apart by nothing but equality, and no       *)
(* liveness is checked.                                                    *)
Symmetry == Permutations(Users) \cup Permutations(Requests)

(* No step and no property asks what has been put on record or scored, so  *)
(* that states which differ only in that go on alike.                      *)
Undocumented == <<latest, version, open, staff, job, settled, seen>>
=============================================================================
