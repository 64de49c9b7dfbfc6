------------------------ MODULE MCEvaluationPipeline ------------------------
(* Three answers: one asked about alone and two together, so that one of   *)
(* them can be left running when the other fails; two attempts at once.    *)
EXTENDS EvaluationPipeline

MCQuestions == {0, 1, 2}

(* Interviews of no, two or three answers; those of three do not come back *)
(* and meet one fault, as do those that come back.  No step that fairness  *)
(* speaks of is cut.                                                       *)
Few ==
  /\ answered \in {{}, {0, 1}, MCQuestions}
  /\ aside => answered = {}
  /\ answered = MCQuestions => late = "none"
  /\ answered = MCQuestions \/ late = "written" => faults <= 1
=============================================================================
