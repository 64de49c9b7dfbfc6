-------------------------- MODULE MCAnswerScoring --------------------------
(* AnswerScoring for TLC: rubrics of three criteria (one of them lopsided, *)
(* one with a probe for every criterion, one with two probes for the       *)
(* first), and sessions of one to four answers.                            *)
EXTENDS AnswerScoring

MCRubrics ==
  { [topic |-> "sql", weight |-> [c \in {0, 1, 2} |-> CASE c = 0 -> 40 [] c = 1 -> 35 [] c = 2 -> 25],
     probes |-> <<0, 0, 2>>],
    [topic |-> "sql", weight |-> [c \in {0, 1, 2} |-> CASE c = 0 -> 50 [] c = 1 -> 30 [] c = 2 -> 20],
     probes |-> <<0, 1, 2>>],
    [topic |-> "sql", weight |-> [c \in {0, 1, 2} |-> IF c = 0 THEN 98 ELSE 1], probes |-> <<1, 2>>] }

Of(overall, tip, topic) == [scored |-> TRUE, topic |-> topic, overall |-> overall, tip |-> tip]
Not == [scored |-> FALSE]

MCOthers ==
  { <<>>, <<Not>>, <<Of(50, "shorter", "sql"), Of(51, "numbers", "http")>>,
    <<Of(0, "shorter", "http"), Not, Of(100, "numbers", "sql")>> }
=============================================================================
