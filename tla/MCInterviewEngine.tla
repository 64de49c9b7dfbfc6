-------------------------- MODULE MCInterviewEngine --------------------------
(* InterviewEngine for TLC.  The first question carries two probes on one   *)
(* criterion and one on another, as sixteen of the seeded questions do, so  *)
(* that the cap of two, the preference for a fresh criterion and coverage   *)
(* all bite.  The readings stand either side of each reserve.               *)
EXTENDS InterviewEngine, TLC

MCPlannedFollowUps == 0 :> <<1, 1, 2>> @@ 1 :> <<1>> @@ 2 :> <<>>

MCReadings == {900, 195, 194, 90, 89, 75, 74, 0}
=============================================================================
