--------------------------- MODULE AnswerScoring ---------------------------
(***************************************************************************)
(* From an answer to a report: the probes the interview asked of it, the   *)
(* reading a model makes of it and the worker checks, the number the API   *)
(* makes of the reading, and the report over the session's answers.        *)
(*                                                                         *)
(* One answer is followed from its first probe; the session's others are   *)
(* already scored.  The jobs that bring an answer here, and lose it on the *)
(* way, are EvaluationPipeline's.                                          *)
(*                                                                         *)
(* A quote is either the candidate's or it is not (evidence.is_quoted);    *)
(* how much tidying the match forgives is left out.                        *)
(*                                                                         *)
(* (The names that every specification has are this module's own, so that  *)
(* PracticeProofs can extend it beside InterviewPlan.)                     *)
(***************************************************************************)
EXTENDS Integers, FiniteSets, SequencesExt

CONSTANTS
  Criteria,
  Topics,
  Rubrics,        \* a question's topic, its criteria's weights and its probes
  Others,         \* sequences of the session's other answers
  Tips,
  MaxFollowUps,
  MaxAttempts,
  Highlights      \* reportHighlights

MaxScore == 4

Rubric == [topic : Topics, weight : [Criteria -> 1 .. 100], probes : Seq(Criteria)]

(* What the report needs of an answer.                                     *)
Answer == [scored : {TRUE}, topic : Topics, overall : 0 .. 100, tip : Tips] \cup [scored : {FALSE}]

ASSUME ScoringAssumption ==
  /\ IsFiniteSet(Criteria) /\ Criteria # {} /\ Rubrics \subseteq Rubric
  /\ \A others \in Others : others \in Seq(Answer)
  /\ {MaxFollowUps, MaxAttempts, Highlights} \subseteq Nat \ {0}

VARIABLES
  rubric,    \* as it was pinned with the question
  others,
  stage,     \* of the answer: "asking", "reading", "stored", "reported"
  asked,     \* the places in the menu of the probes that were asked
  attempts,  \* calls made to the evaluator
  row,       \* the stored evaluation
  report

scoringVars == <<rubric, others, stage, asked, attempts, row, report>>

NoRow == [scored |-> FALSE, prompted |-> {}, notAssessed |-> {}]
NoReport == [status |-> "none"]

ScoringInit ==
  /\ rubric \in Rubrics /\ others \in Others
  /\ stage = "asking" /\ asked = {} /\ attempts = 0
  /\ row = NoRow /\ report = NoReport

-----------------------------------------------------------------------------
(* The interview *)

AskProbe ==
  /\ stage = "asking" /\ Cardinality(asked) < MaxFollowUps
  /\ \E i \in DOMAIN rubric.probes \ asked : asked' = asked \cup {i}
  /\ UNCHANGED <<rubric, others, stage, attempts, row, report>>

(* The clock, the candidate or the cap leaves the rest unasked.            *)
MoveOn ==
  /\ stage = "asking"
  /\ stage' = "reading"
  /\ UNCHANGED <<rubric, others, asked, attempts, row, report>>

(* A criterion with two probes is prompted by either.                      *)
PromptedBy(probed) == {rubric.probes[i] : i \in probed}

UnaskedAfter(probed) == Range(rubric.probes) \ PromptedBy(probed)

-----------------------------------------------------------------------------
(* The arithmetic *)

(* Mutant: whatever was not asked about is left out.                       *)
WhateverWasNotAsked(reading, probed) ==
  LET excluded == UnaskedAfter(probed) IN IF excluded = Criteria THEN {} ELSE excluded

(* Nobody asked, and the answer did not reach it anyway.  Never all.       *)
NotAssessedCriteria(reading, probed) ==
  LET excluded == {c \in UnaskedAfter(probed) : reading[c].score = 0 /\ ~reading[c].quoted}
  IN  IF excluded = Criteria THEN {} ELSE excluded

(* Each criterion's part, in four-hundredths of its weight: 0.85 of it     *)
(* when it had to be prompted.                                             *)
Shares(reading, probed) ==
  [c \in Criteria |->
     reading[c].score * rubric.weight[c] * (IF c \in PromptedBy(probed) THEN 85 ELSE 100)]

Weight(criteria) == SumFunctionOnSet(rubric.weight, criteria)

(* overall as a ratio of integers, before it is rounded.                   *)
Ratio(reading, probed) ==
  LET assessed == Criteria \ NotAssessedCriteria(reading, probed)
  IN  [num |-> SumFunctionOnSet(Shares(reading, probed), assessed),
       den |-> MaxScore * Weight(assessed)]

RawRatio(reading) ==
  [num |-> SumFunctionOnSet([c \in Criteria |-> reading[c].score * rubric.weight[c] * 100], Criteria),
   den |-> MaxScore * Weight(Criteria)]

(* Math.round of a quotient of floats: half up, but an exact half may have *)
(* come out a little less (57.5 / 100 * 100 does).                         *)
Percent(ratio) ==
  LET twice == 2 * ratio.num + ratio.den
      up    == twice \div (2 * ratio.den)
  IN  {up} \cup {n \in {up - 1} : n >= 0 /\ twice % (2 * ratio.den) = 0}

-----------------------------------------------------------------------------
(* The evaluator, and what code checks before a score is stored            *)

Entry == [score : 0 .. MaxScore, quotes : SUBSET {"said", "invented"}]

(* Quotes that are not the candidate's are dropped.                        *)
Verified(entries) ==
  [c \in Criteria |-> [score |-> entries[c].score, quoted |-> "said" \in entries[c].quotes]]

(* A mark must be quoted for.                                              *)
EvidenceRule(reading) == \A c \in Criteria : reading[c].score > 0 => reading[c].quoted

Store(stored) ==
  /\ row' = stored
  /\ stage' = "stored"
  /\ UNCHANGED <<rubric, others, asked, report>>

Unscored == [scored |-> FALSE, prompted |-> PromptedBy(asked), notAssessed |-> {}]

ReadingStands ==
  /\ stage = "reading"
  /\ attempts' = attempts + 1
  /\ \E entries \in [Criteria -> Entry], tip \in Tips :
       LET reading == Verified(entries) IN
         /\ EvidenceRule(reading)
         /\ \E overall \in Percent(Ratio(reading, asked)), raw \in Percent(RawRatio(reading)) :
              Store([scored |-> TRUE, reading |-> reading, tip |-> tip,
                     overall |-> overall, raw |-> raw, prompted |-> PromptedBy(asked),
                     notAssessed |-> NotAssessedCriteria(reading, asked)])

(* Criteria missing or made up, a mark without a quote, the rubric's own   *)
(* words in the prose, no valid output or no answer: asked again, thrice   *)
(* in all.                                                                 *)
ReadingFails ==
  /\ stage = "reading"
  /\ attempts' = attempts + 1
  /\ IF attempts' < MaxAttempts
     THEN UNCHANGED <<rubric, others, stage, asked, row, report>>
     ELSE Store(Unscored)

(* A refusal is not asked again, nor is anybody once the worker has been   *)
(* out of reach for the job's last attempt.                                *)
Refused ==
  /\ stage = "reading"
  /\ UNCHANGED attempts
  /\ Store(Unscored)

-----------------------------------------------------------------------------
(* The report *)

Mine ==
  IF row.scored
  THEN [scored |-> TRUE, topic |-> rubric.topic, overall |-> row.overall, tip |-> row.tip]
  ELSE [scored |-> FALSE]

Answers == <<Mine>> \o others

ScoredOnes == {i \in DOMAIN Answers : Answers[i].scored}

(* Half up.                                                                *)
Mean(sum, n) == (2 * sum + n) \div (2 * n)

Overalls == [i \in ScoredOnes |-> Answers[i].overall]

Total(answers) == SumFunctionOnSet(Overalls, answers)

(* Mutant: an answer that could not be scored counts as 0.                 *)
MeanOfAll ==
  IF ScoredOnes = {} THEN -1 ELSE Mean(Total(ScoredOnes), Len(Answers))

(* Of the answers that could be scored; -1 for none.                       *)
SessionOverall ==
  IF ScoredOnes = {} THEN -1 ELSE Mean(Total(ScoredOnes), Cardinality(ScoredOnes))

(* A topic none of whose answers could be scored is not there.             *)
On(t) == {i \in ScoredOnes : Answers[i].topic = t}

ByTopic ==
  [t \in {Answers[i].topic : i \in ScoredOnes} |-> Mean(Total(On(t)), Cardinality(On(t)))]

StatusOf ==
  IF ScoredOnes = {} THEN "failed" ELSE IF ScoredOnes = DOMAIN Answers THEN "ready" ELSE "partial"

(* The sort is stable.                                                     *)
Worse(i, j) ==
  \/ Answers[i].overall < Answers[j].overall
  \/ Answers[i].overall = Answers[j].overall /\ i < j

(* A tip given twice is the worst answer's.                                *)
Deduped ==
  {i \in ScoredOnes : \A j \in ScoredOnes \ {i} : Answers[j].tip = Answers[i].tip => Worse(i, j)}

Place(i) == 1 + Cardinality({j \in Deduped : Worse(j, i)})

(* The tips of the answers that went worst, each once.                     *)
Fixes ==
  [k \in 1 .. Min({Highlights, Cardinality(Deduped)}) |-> CHOOSE i \in Deduped : Place(i) = k]

(* The answer's own part: what it was judged on, what it was not, and how  *)
(* much of it was volunteered.                                             *)
QuestionReport ==
  LET assessed == Criteria \ row.notAssessed
  IN  [criteria     |-> IF row.scored THEN assessed ELSE {},
       not_assessed |-> row.notAssessed,
       volunteered  |-> Max({0, Cardinality(assessed) - Cardinality(row.prompted)})]

Assemble ==
  /\ stage = "stored"
  /\ stage' = "reported"
  /\ report' = [status |-> StatusOf, overall |-> SessionOverall, by_topic |-> ByTopic,
                fixes |-> Fixes, question |-> QuestionReport]
  /\ UNCHANGED <<rubric, others, asked, attempts, row>>

ScoringNext == AskProbe \/ MoveOn \/ ReadingStands \/ ReadingFails \/ Refused \/ Assemble

ScoringSpec == ScoringInit /\ [][ScoringNext]_scoringVars

-----------------------------------------------------------------------------
(* Properties *)

LessOrEqual(r, s) == r.num * s.den <= s.num * r.den

(* The number is fair (the owner's decisions of 2026-09-26 and -27, in     *)
(* scoring's header): no nudge could have raised it, whatever else was     *)
(* asked; all the nudges together took at most 15 % of it; what was asked  *)
(* of nobody took nothing; and a full answer that needed none is a 100.    *)
ScoreIsFair ==
  row.scored =>
    LET mine     == Ratio(row.reading, asked)
        assessed == Criteria \ row.notAssessed
    IN  /\ \A i \in DOMAIN rubric.probes \ asked :
             LessOrEqual(Ratio(row.reading, asked \cup {i}), mine)
        /\ 100 * row.overall + 100 >= 85 * row.raw
        /\ row.prompted = {} => row.overall + 1 >= row.raw
        /\ (\A c \in assessed : row.reading[c].score = MaxScore /\ c \notin row.prompted) =>
             row.overall = 100
        /\ \A c \in Criteria : row.reading[c].quoted => c \in assessed

(* The report can be checked against the transcript: every criterion is    *)
(* shown as judged or as not asked about and never both; what was          *)
(* volunteered is what was judged and not prompted, so the clamp hides no  *)
(* disagreement; the session's number lies among those of its topics, each *)
(* rounded on its own, and is none only if no answer has one; and the      *)
(* fixes are of the answers that stand to gain the most.                   *)
ReportAddsUp ==
  stage = "reported" =>
    LET mine == report.question IN
    /\ mine.criteria \cap mine.not_assessed = {}
    /\ row.scored => mine.criteria \cup mine.not_assessed = Criteria /\ mine.criteria # {}
    /\ mine.volunteered = Cardinality((Criteria \ row.notAssessed) \ row.prompted)
    /\ report.overall = -1 <=> report.status = "failed"
    /\ report.status = "ready" <=> ScoredOnes = DOMAIN Answers
    /\ ScoredOnes # {} =>
         \E t, u \in DOMAIN report.by_topic :
           report.by_topic[t] <= report.overall /\ report.overall <= report.by_topic[u]
    /\ \A i \in ScoredOnes :
         \/ \E k \in DOMAIN report.fixes : Answers[report.fixes[k]].tip = Answers[i].tip
         \/ /\ Len(report.fixes) = Highlights
            /\ \A k \in DOMAIN report.fixes :
                 Answers[report.fixes[k]].overall <= Answers[i].overall
=============================================================================
