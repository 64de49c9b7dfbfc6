-------------------------- MODULE InterviewMachine --------------------------
(***************************************************************************)
(* The interview state machine of the worker, machine.py, with the probe   *)
(* choice of probes.py and the reserves of budgets.py: pure functions of   *)
(* the engine's state, the bundle and the time left.                       *)
(*                                                                         *)
(* The bundle is the CONSTANTS: how many questions it carries and, for     *)
(* each, its planned follow-ups as the sequence of the criteria they ask   *)
(* for (two probes may ask for one criterion).  `left' is seconds_left:    *)
(* the deadline less the `now' of the request, negative once it is past.   *)
(* Questions are numbered from 0 as in the code, probes from 1.            *)
(***************************************************************************)
EXTENDS Integers, Sequences, FiniteSetsExt, Functions

CONSTANTS
  NumQuestions,     \* len(bundle.questions)
  QuestionBudget,   \* bundle.question_budget
  MaxFollowUps,     \* bundle.max_follow_ups
  PlannedFollowUps  \* question -> sequence of criteria, one per probe

Positions == 0 .. NumQuestions - 1

ASSUME BundleAssumption ==
  /\ NumQuestions \in Nat
  /\ QuestionBudget \in Nat \ {0}
  /\ MaxFollowUps \in Nat
  /\ PlannedFollowUps \in [Positions -> Seq(Nat)]

SecondsForAQuestion          == 120
SecondsForAFollowUp          == 75
SecondsToOpenAQuestion       == SecondsForAQuestion + SecondsForAFollowUp
SecondsForCandidateQuestions == 90

OutOfTime(left) == left <= 0

HasTimeFor(seconds, left) == left >= seconds

-----------------------------------------------------------------------------
(* The state.  None stands for Python's None wherever the code stores one. *)

None == "none"

NoQuestion == -1

States == {"intro", "question", "follow_up", "candidate_questions",
           "wrap_up", "ended"}

EndReasons == {"questions_done", "out_of_time", "candidate_ended"}

Probes(q) == DOMAIN PlannedFollowUps[q]

CriterionOf(q, p) == PlannedFollowUps[q][p]

QuestionProgress ==
  [asked : BOOLEAN, probesAsked : Seq(Nat), probesCovered : SUBSET Nat]

EngineState ==
  [state          : States,
   current        : Positions \cup {NoQuestion},
   nextSeq        : Nat,
   questionsAsked : Nat,
   progress       : [Positions -> QuestionProgress],
   endReason      : EndReasons \cup {None},
   awaiting       : BOOLEAN,
   pending        : BOOLEAN]   \* is there a pending_text?

Snapshot ==
  [state          : States,
   current        : Positions \cup {NoQuestion},
   nextSeq        : Nat,
   questionsAsked : Nat,
   progress       : [Positions -> QuestionProgress],
   endReason      : EndReasons \cup {None}]

Begin ==
  [state          |-> "intro",
   current        |-> NoQuestion,
   nextSeq        |-> 0,
   questionsAsked |-> 0,
   progress       |-> [q \in Positions |-> [asked         |-> FALSE,
                                            probesAsked   |-> <<>>,
                                            probesCovered |-> {}]],
   endReason      |-> None,
   awaiting       |-> TRUE,
   pending        |-> FALSE]

ToSnapshot(e) ==
  [state          |-> e.state,
   current        |-> e.current,
   nextSeq        |-> e.nextSeq,
   questionsAsked |-> e.questionsAsked,
   progress       |-> e.progress,
   endReason      |-> e.endReason]

FromSnapshot(s) ==
  [state          |-> s.state,
   current        |-> s.current,
   nextSeq        |-> s.nextSeq,
   questionsAsked |-> s.questionsAsked,
   progress       |-> s.progress,
   endReason      |-> s.endReason,
   awaiting       |-> s.state # "ended",
   pending        |-> FALSE]

InAQuestion(e) == e.state \in {"question", "follow_up"}

-----------------------------------------------------------------------------
(* Choosing a probe.                                                       *)

ProbesInPlay(q, asked, covered) == Probes(q) \ (Range(asked) \cup covered)

(* Open probes on a criterion nothing has probed yet; when there is none,  *)
(* every open probe.                                                       *)
PreferredProbes(q, asked, covered) ==
  LET open   == ProbesInPlay(q, asked, covered)
      probed == {CriterionOf(q, p) : p \in Range(asked)}
      fresh  == {p \in open : CriterionOf(q, p) \notin probed}
  IN  IF fresh # {} THEN fresh ELSE open

CanProbe(q, asked, covered) ==
  /\ Len(asked) < MaxFollowUps
  /\ ProbesInPlay(q, asked, covered) # {}

ChooseProbe(q, asked, covered) == Min(PreferredProbes(q, asked, covered))

ProbesToJudge(e, left) ==
  LET entry == e.progress[e.current]
  IN  IF /\ InAQuestion(e)
         /\ HasTimeFor(SecondsForAFollowUp, left)
         /\ Len(entry.probesAsked) < MaxFollowUps
      THEN ProbesInPlay(e.current, entry.probesAsked, entry.probesCovered)
      ELSE {}

-----------------------------------------------------------------------------
(* Where the engine goes.                                                  *)

ToWrapUp(e, reason) ==
  [e EXCEPT !.state     = "wrap_up",
            !.current   = NoQuestion,
            !.endReason = IF @ = "candidate_ended" THEN @ ELSE reason,
            !.awaiting  = FALSE]

NaturalReason(e) ==
  CASE e.endReason # None -> e.endReason
    [] e.endReason = None ->
         IF e.questionsAsked >= QuestionBudget \/ e.questionsAsked >= NumQuestions
         THEN "questions_done" ELSE "out_of_time"

ToQuestion(e, q) ==
  [e EXCEPT !.state = "question", !.current = q, !.awaiting = FALSE]

Opening(e, left) ==
  CASE NumQuestions = 0                     -> ToWrapUp(e, "questions_done")
    [] NumQuestions # 0 /\ OutOfTime(left)  -> ToWrapUp(e, "out_of_time")
    [] OTHER                                -> ToQuestion(e, 0)

(* Mutant: the last question is never reached.                             *)
NoRoomForTheLast(e, following) ==
  e.questionsAsked + 1 < QuestionBudget /\ following < NumQuestions

RoomInTheCount(e, following) ==
  e.questionsAsked < QuestionBudget /\ following < NumQuestions

(* The reserves are ordered (195 > 90 > 0), so each test subsumes the      *)
(* weaker ones the code makes before it.                                   *)
PastCurrentQuestion(e, left) ==
  LET following == e.current + 1
      mayOpen   == /\ RoomInTheCount(e, following)
                   /\ HasTimeFor(SecondsToOpenAQuestion, left)
      mayInvite == HasTimeFor(SecondsForCandidateQuestions, left)
  IN  CASE mayOpen -> ToQuestion(e, following)
        [] ~mayOpen /\ mayInvite -> [e EXCEPT !.state    = "candidate_questions",
                                             !.current  = NoQuestion,
                                             !.awaiting = FALSE]
        [] ~mayOpen /\ ~mayInvite ->
             ToWrapUp(e, IF OutOfTime(left) THEN "out_of_time" ELSE NaturalReason(e))

-----------------------------------------------------------------------------
(* What the candidate did: when the engine accepts it, and what it makes   *)
(* of it.  A refusal (EngineError) changes nothing.                        *)

CanStart(e) == e.state = "intro"

Start(e) == [e EXCEPT !.awaiting = FALSE]

CanAnswer(e) == e.state \notin {"intro", "wrap_up", "ended"} /\ e.awaiting

(* Mutant: what the model found covered is dropped.                         *)
ForgetCovered(e, covered) == e.progress

MergeCovered(e, covered) ==
  IF InAQuestion(e)
  THEN [e.progress EXCEPT ![e.current].probesCovered = @ \cup covered]
  ELSE e.progress

TakeAnswer(e, covered) ==
  [e EXCEPT !.nextSeq  = @ + 1,
            !.progress = MergeCovered(e, covered),
            !.awaiting = FALSE,
            !.pending  = e.state = "candidate_questions"]

CanSkip(e) == e.awaiting /\ (InAQuestion(e) \/ e.state = "candidate_questions")

(* Mutant: skipping the candidate's own questions ends by the natural       *)
(* reason.                                                                  *)
SkipNaturally(e, left) ==
  IF InAQuestion(e)
  THEN PastCurrentQuestion([e EXCEPT !.awaiting = FALSE], left)
  ELSE ToWrapUp([e EXCEPT !.awaiting = FALSE], NaturalReason(e))

Skip(e, left) ==
  IF InAQuestion(e)
  THEN PastCurrentQuestion([e EXCEPT !.awaiting = FALSE], left)
  ELSE ToWrapUp([e EXCEPT !.awaiting = FALSE], "questions_done")

(* Mutant: an ended session may be ended again.                             *)
EndAnything(e) == TRUE

CanEndEarly(e) == e.state # "ended"

EndEarly(e) == ToWrapUp([e EXCEPT !.awaiting = FALSE], "candidate_ended")

-----------------------------------------------------------------------------
(* plan(): the next thing to say.  An answer that earns no follow-up, and  *)
(* a candidate's question past the deadline, first move the engine on and  *)
(* plan again from there; Settled is the state it then speaks from.        *)

(* Mutant: the time for a follow-up is not reserved.                        *)
ProbeWithoutRoom(e, left) ==
  LET entry == e.progress[e.current]
  IN  CanProbe(e.current, entry.probesAsked, entry.probesCovered)

ProbeIsDue(e, left) ==
  LET entry == e.progress[e.current]
  IN  /\ HasTimeFor(SecondsForAFollowUp, left)
      /\ CanProbe(e.current, entry.probesAsked, entry.probesCovered)

AnswerIsIn(e) ==
  \/ e.state = "follow_up"
  \/ e.state = "question" /\ e.progress[e.current].asked

Settled(e, left) ==
  CASE AnswerIsIn(e) /\ ~ProbeIsDue(e, left) -> PastCurrentQuestion(e, left)
    [] e.state = "candidate_questions" /\ e.pending /\ OutOfTime(left) ->
         ToWrapUp([e EXCEPT !.pending = FALSE], NaturalReason(e))
    [] OTHER -> e

Resting(e) == e.awaiting \/ e.state = "ended"

Spoken(e) == [e EXCEPT !.nextSeq = @ + 1]

(* Mutant: the interviewer greets and then waits.                           *)
GreetAndWait(e, left) == [Spoken(e) EXCEPT !.awaiting = TRUE]

AfterIntro(e, left) == Opening(Spoken(e), left)

AfterQuestion(e) ==
  [Spoken(e) EXCEPT !.questionsAsked            = @ + 1,
                    !.progress[e.current].asked = TRUE,
                    !.awaiting                  = TRUE]

(* Mutant: the follow-up takes no seq of its own.                           *)
AfterUncountedFollowUp(e, probe) ==
  [e EXCEPT !.state = "follow_up",
            !.progress[e.current].probesAsked = Append(@, probe),
            !.awaiting = TRUE]

AfterFollowUp(e, probe) ==
  [Spoken(e) EXCEPT !.state = "follow_up",
                    !.progress[e.current].probesAsked = Append(@, probe),
                    !.awaiting = TRUE]

AfterInvitation(e) == [Spoken(e) EXCEPT !.awaiting = TRUE]

(* Mutant: the candidate's question stays pending once it is answered.      *)
StillPending(e) == [Spoken(e) EXCEPT !.awaiting = TRUE]

AfterCandidateQuestion(e) ==
  [Spoken(e) EXCEPT !.awaiting = TRUE, !.pending = FALSE]

AfterWrapUp(e) ==
  [Spoken(e) EXCEPT !.state     = "ended",
                    !.current   = NoQuestion,
                    !.endReason = IF e.endReason # None THEN @ ELSE NaturalReason(e),
                    !.awaiting  = FALSE]
=============================================================================
