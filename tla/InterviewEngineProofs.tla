------------------------ MODULE InterviewEngineProofs ------------------------
(***************************************************************************)
(* What holds of InterviewEngine for every bundle, every set of clock      *)
(* readings and every behaviour of the candidate and the model.            *)
(***************************************************************************)
EXTENDS InterviewEngine, FiniteSetTheorems, TLAPS

-----------------------------------------------------------------------------
(* The machine's operators keep the type of the state.                     *)

(* A probe's number is a natural number. *)
LEMMA ProbesAreNat ==
  ASSUME NEW q \in Positions
  PROVE  Probes(q) \subseteq Nat
<1>1. PlannedFollowUps[q] \in Seq(Nat)
  BY BundleAssumption
<1>2. DOMAIN PlannedFollowUps[q] = 1 .. Len(PlannedFollowUps[q])
  BY <1>1
<1>3. Len(PlannedFollowUps[q]) \in Nat
  BY <1>1
<1> QED
  BY <1>2, <1>3 DEF Probes

(* Probes are numbered from 1, so that NoProbe is none of them. *)
LEMMA ProbesArePositive ==
  ASSUME NEW q \in Positions
  PROVE  0 \notin Probes(q)
<1>1. PlannedFollowUps[q] \in Seq(Nat)
  BY BundleAssumption
<1>2. DOMAIN PlannedFollowUps[q] = 1 .. Len(PlannedFollowUps[q])
  BY <1>1
<1> QED
  BY <1>1, <1>2 DEF Probes

(* Min of a nonempty set of numbers is one of them and bounds the rest:    *)
(* the initial segments up to its members are well founded by inclusion.   *)
LEMMA MinOfNat ==
  ASSUME NEW S \in SUBSET Nat, S # {}
  PROVE  /\ Min(S) \in S
         /\ \A n \in S : Min(S) <= n
<1> DEFINE segments == {0 .. n : n \in S}
<1>1. segments \subseteq FiniteSubsetsOf(Nat) /\ segments # {}
  <2>1. ASSUME NEW n \in S
        PROVE  0 .. n \in FiniteSubsetsOf(Nat)
    <3>1. 0 .. n \subseteq Nat
      OBVIOUS
    <3>2. IsFiniteSet(0 .. n)
      BY FS_Interval
    <3> QED
      BY <3>1, <3>2 DEF FiniteSubsetsOf
  <2> QED
    BY <2>1
<1>2. PICK T \in segments :
        \A U \in segments : ~(<<U, T>> \in StrictSubsetOrdering(Nat))
  <2> HIDE DEF segments
  <2> QED
    BY <1>1, FS_StrictSubsetOrderingWellFounded, WFMin
<1>3. PICK m \in S : T = 0 .. m
  OBVIOUS
<1>4. ASSUME NEW n \in S, n < m
      PROVE  FALSE
  <2>1. 0 .. n \subseteq 0 .. m /\ 0 .. n # 0 .. m
    BY <1>4
  <2>2. 0 .. n \in segments /\ 0 .. n \in SUBSET Nat /\ 0 .. m \in SUBSET Nat
    OBVIOUS
  <2> QED
    BY <1>2, <1>3, <2>1, <2>2 DEF StrictSubsetOrdering
<1>5. \A n \in S : m <= n
  BY <1>4
<1> QED
  BY <1>5 DEF Min

(* The probe choose_probe returns is one still in play. *)
LEMMA ChosenProbe ==
  ASSUME NEW q \in Positions, NEW asked, NEW covered,
         CanProbe(q, asked, covered)
  PROVE  /\ ChooseProbe(q, asked, covered) \in PreferredProbes(q, asked, covered)
         /\ ChooseProbe(q, asked, covered) \in ProbesInPlay(q, asked, covered)
         /\ ChooseProbe(q, asked, covered) \in Nat
<1> DEFINE open == ProbesInPlay(q, asked, covered)
           preferred == PreferredProbes(q, asked, covered)
<1>1. open \subseteq Nat
  BY ProbesAreNat DEF ProbesInPlay
<1>2. preferred # {} /\ preferred \subseteq open
  BY DEF PreferredProbes, CanProbe
<1>3. Min(preferred) \in preferred
  BY <1>1, <1>2, MinOfNat
<1> QED
  BY <1>1, <1>2, <1>3 DEF ChooseProbe

(* The operators that move the engine on without a word keep it an         *)
(* EngineState, place it well and leave numbering and progress alone.      *)
Moved(e, f) ==
  /\ f \in EngineState
  /\ WellPlaced(f)
  /\ ~f.awaiting
  /\ f.nextSeq = e.nextSeq
  /\ f.progress = e.progress

(* A reason is always found. *)
LEMMA NaturalReasonType ==
  ASSUME NEW e \in EngineState
  PROVE  NaturalReason(e) \in EndReasons
BY DEF EngineState, NaturalReason, EndReasons, None

(* Turning to the close keeps the count, the progress and the types. *)
LEMMA ToWrapUpMoves ==
  ASSUME NEW e \in EngineState, ~e.pending, NEW reason \in EndReasons
  PROVE  Moved(e, ToWrapUp(e, reason)) /\ ToWrapUp(e, reason).state = "wrap_up"
BY DEF Moved, WellPlaced, InAQuestion, EngineState, ToWrapUp, EndReasons, States

(* So does turning to a question of the bundle. *)
LEMMA ToQuestionMoves ==
  ASSUME NEW e \in EngineState, ~e.pending, NEW q \in Positions
  PROVE  /\ Moved(e, ToQuestion(e, q))
         /\ ToQuestion(e, q).state = "question"
         /\ ToQuestion(e, q).current = q
BY DEF Moved, WellPlaced, InAQuestion, EngineState, ToQuestion, States

(* Leaving a question keeps them too, and opens another only with room. *)
LEMMA PastCurrentQuestionMoves ==
  ASSUME NEW e \in EngineState, ~e.pending, NEW l \in Int
  PROVE  /\ Moved(e, PastCurrentQuestion(e, l))
         /\ PastCurrentQuestion(e, l).state = "question" =>
              HasTimeFor(SecondsToOpenAQuestion, l)
         /\ PastCurrentQuestion(e, l).state # "ended"
<1> DEFINE following == e.current + 1
           mayOpen   == /\ RoomInTheCount(e, following)
                        /\ HasTimeFor(SecondsToOpenAQuestion, l)
           mayInvite == HasTimeFor(SecondsForCandidateQuestions, l)
<1>1. CASE mayOpen
  <2>1. following \in Positions
    BY <1>1, BundleAssumption DEF RoomInTheCount, EngineState, Positions, NoQuestion
  <2>2. PastCurrentQuestion(e, l) = ToQuestion(e, following)
    BY <1>1 DEF PastCurrentQuestion
  <2> QED
    BY <1>1, <2>1, <2>2, ToQuestionMoves
<1>2. CASE ~mayOpen /\ mayInvite
  <2>1. PastCurrentQuestion(e, l) = [e EXCEPT !.state = "candidate_questions",
                                              !.current = NoQuestion,
                                              !.awaiting = FALSE]
    BY <1>2 DEF PastCurrentQuestion
  <2> QED
    BY <2>1 DEF Moved, WellPlaced, InAQuestion, EngineState, States
<1>3. CASE ~mayOpen /\ ~mayInvite
  <2> DEFINE reason == IF OutOfTime(l) THEN "out_of_time" ELSE NaturalReason(e)
  <2>1. reason \in EndReasons
    BY NaturalReasonType DEF EndReasons
  <2>2. PastCurrentQuestion(e, l) = ToWrapUp(e, reason)
    BY <1>3 DEF PastCurrentQuestion
  <2> QED
    BY <2>1, <2>2, ToWrapUpMoves
<1> QED
  BY <1>1, <1>2, <1>3

(* Planning moves the engine on at most past its question, which it only   *)
(* opens another after with room to.                                       *)
LEMMA SettledMoves ==
  ASSUME NEW e \in EngineState, WellPlaced(e), ~Resting(e), NEW l \in Int
  PROVE  /\ Moved(e, Settled(e, l))
         /\ Settled(e, l).state # "ended"
         /\ Settled(e, l).state = "question" =>
              Settled(e, l) = e \/ HasTimeFor(SecondsToOpenAQuestion, l)
<1> DEFINE moves  == AnswerIsIn(e) /\ ~ProbeIsDue(e, l)
           closes == e.state = "candidate_questions" /\ e.pending /\ OutOfTime(l)
<1>1. CASE moves
  <2>1. Settled(e, l) = PastCurrentQuestion(e, l)
    BY <1>1 DEF Settled, AnswerIsIn
  <2>2. ~e.pending
    BY <1>1 DEF AnswerIsIn, WellPlaced
  <2> QED
    BY <2>1, <2>2, PastCurrentQuestionMoves
<1>2. CASE ~moves /\ closes
  <2> DEFINE f == [e EXCEPT !.pending = FALSE]
  <2>1. f \in EngineState /\ ~f.pending /\ f.nextSeq = e.nextSeq /\ f.progress = e.progress
    BY DEF EngineState
  <2>2. Settled(e, l) = ToWrapUp(f, NaturalReason(e))
    BY <1>2 DEF Settled, AnswerIsIn
  <2> HIDE DEF f
  <2>3. Moved(f, ToWrapUp(f, NaturalReason(e))) /\ ToWrapUp(f, NaturalReason(e)).state = "wrap_up"
    BY <2>1, NaturalReasonType, ToWrapUpMoves
  <2> QED
    BY <2>1, <2>2, <2>3 DEF Moved
<1>3. CASE ~moves /\ ~closes
  <2>1. Settled(e, l) = e
    BY <1>3 DEF Settled
  <2> QED
    BY <2>1 DEF Moved, Resting
<1> HIDE DEF moves, closes
<1> QED
  BY <1>1, <1>2, <1>3

(* What Append adds to the range of a sequence. *)
LEMMA AppendRange ==
  ASSUME NEW s \in Seq(Nat), NEW n \in Nat
  PROVE  /\ Append(s, n) \in Seq(Nat)
         /\ Range(s) \subseteq Range(Append(s, n))
         /\ n \in Range(Append(s, n))
<1>1. /\ Append(s, n) \in Seq(Nat)
      /\ DOMAIN Append(s, n) = 1 .. Len(s) + 1
      /\ DOMAIN s = 1 .. Len(s)
      /\ Len(s) \in Nat
  OBVIOUS
<1>2. \A i \in 1 .. Len(s) : Append(s, n)[i] = s[i]
  OBVIOUS
<1>3. Append(s, n)[Len(s) + 1] = n
  OBVIOUS
<1> QED
  BY <1>1, <1>2, <1>3 DEF Range

-----------------------------------------------------------------------------
(* A spoken turn takes the next seq.                                       *)
Grows(before, after) ==
  \A q \in Positions :
    /\ before[q].probesCovered \subseteq after[q].probesCovered
    /\ Range(before[q].probesAsked) \subseteq Range(after[q].probesAsked)

Advanced(e, f) ==
  /\ f \in EngineState
  /\ WellPlaced(f)
  /\ f.nextSeq = e.nextSeq + 1
  /\ Grows(e.progress, f.progress)

(* A turn takes one seq. *)
LEMMA SpokenType ==
  ASSUME NEW e \in EngineState
  PROVE  /\ Spoken(e) \in EngineState
         /\ Spoken(e) = [e EXCEPT !.nextSeq = e.nextSeq + 1]
BY DEF EngineState, Spoken

(* The greeting advances the engine by one turn, to the opening. *)
LEMMA AfterIntroAdvances ==
  ASSUME NEW e \in EngineState, ~e.pending, NEW l \in Int
  PROVE  /\ Advanced(e, AfterIntro(e, l))
         /\ AfterIntro(e, l).state = "question" => AfterIntro(e, l).current = 0
<1> DEFINE s == Spoken(e)
<1>1. s \in EngineState /\ ~s.pending /\ s.nextSeq = e.nextSeq + 1 /\ s.progress = e.progress
  BY SpokenType DEF EngineState
<1>2. "questions_done" \in EndReasons /\ "out_of_time" \in EndReasons
  BY DEF EndReasons
<1>3. NumQuestions # 0 => 0 \in Positions
  BY BundleAssumption DEF Positions
<1>4. AfterIntro(e, l) = Opening(s, l)
  BY DEF AfterIntro
<1> HIDE DEF s
<1>5. /\ Moved(s, Opening(s, l))
      /\ Opening(s, l).state = "question" => Opening(s, l).current = 0
  BY <1>1, <1>2, <1>3, ToWrapUpMoves, ToQuestionMoves DEF Opening
<1> QED
  BY <1>1, <1>4, <1>5 DEF Moved, Advanced, Grows

(* Putting a question marks it asked, and no other. *)
LEMMA AfterQuestionAdvances ==
  ASSUME NEW e \in EngineState, WellPlaced(e), e.state = "question"
  PROVE  /\ Advanced(e, AfterQuestion(e))
         /\ AfterQuestion(e).progress[AfterQuestion(e).current].asked
         /\ \A q \in Positions \ {e.current} :
              AfterQuestion(e).progress[q] = e.progress[q]
         /\ \A q \in Positions :
              AfterQuestion(e).progress[q].probesAsked = e.progress[q].probesAsked
<1> DEFINE s == Spoken(e)
           entry == [s.progress[e.current] EXCEPT !.asked = TRUE]
           progress == [s.progress EXCEPT ![e.current] = entry]
<1>1. s \in EngineState /\ e.current \in Positions /\ ~e.pending
  BY SpokenType DEF WellPlaced, InAQuestion
<1>2. /\ s.progress = e.progress /\ s.current = e.current /\ s.state = e.state
      /\ s.nextSeq = e.nextSeq + 1 /\ s.pending = e.pending
  BY SpokenType DEF EngineState
<1>3. /\ s.progress[e.current] \in QuestionProgress
      /\ s.questionsAsked + 1 \in Nat
  BY <1>1 DEF EngineState
<1>4. AfterQuestion(e) = [s EXCEPT !.questionsAsked = s.questionsAsked + 1,
                                   !.progress = progress,
                                   !.awaiting = TRUE]
  BY <1>1 DEF AfterQuestion, EngineState
<1> HIDE DEF s
<1>5. entry \in QuestionProgress /\ entry.asked
      /\ entry.probesCovered = s.progress[e.current].probesCovered
      /\ entry.probesAsked = s.progress[e.current].probesAsked
  BY <1>3 DEF QuestionProgress
<1> HIDE DEF entry
<1>6. /\ progress \in [Positions -> QuestionProgress]
      /\ progress[e.current] = entry
      /\ \A q \in Positions \ {e.current} : progress[q] = e.progress[q]
  BY <1>1, <1>2, <1>5 DEF EngineState
<1> HIDE DEF progress
<1>7. AfterQuestion(e) \in EngineState
  BY <1>1, <1>3, <1>4, <1>6 DEF EngineState
<1>8. /\ AfterQuestion(e).progress = progress
      /\ AfterQuestion(e).current = e.current
      /\ AfterQuestion(e).state = "question"
      /\ AfterQuestion(e).nextSeq = e.nextSeq + 1
      /\ ~AfterQuestion(e).pending
  BY <1>1, <1>2, <1>4 DEF EngineState
<1>9. Grows(e.progress, progress)
  BY <1>2, <1>5, <1>6 DEF Grows
<1> QED
  BY <1>1, <1>2, <1>5, <1>6, <1>7, <1>8, <1>9 DEF Advanced, WellPlaced, InAQuestion

(* A follow-up adds its probe to those asked, and touches no other question. *)
LEMMA AfterFollowUpAdvances ==
  ASSUME NEW e \in EngineState, WellPlaced(e), InAQuestion(e), NEW probe \in Nat
  PROVE  /\ Advanced(e, AfterFollowUp(e, probe))
         /\ AfterFollowUp(e, probe).state = "follow_up"
         /\ probe \in Range(AfterFollowUp(e, probe).progress[e.current].probesAsked)
         /\ \A q \in Positions :
              AfterFollowUp(e, probe).progress[q].asked = e.progress[q].asked
<1> DEFINE s == Spoken(e)
           asked == s.progress[e.current].probesAsked
           entry == [s.progress[e.current] EXCEPT !.probesAsked = Append(asked, probe)]
           progress == [s.progress EXCEPT ![e.current] = entry]
<1>1. s \in EngineState /\ e.current \in Positions /\ ~e.pending
  BY SpokenType DEF WellPlaced, InAQuestion
<1>2. /\ s.progress = e.progress /\ s.current = e.current
      /\ s.nextSeq = e.nextSeq + 1 /\ s.pending = e.pending
  BY SpokenType DEF EngineState
<1>3. s.progress[e.current] \in QuestionProgress /\ asked \in Seq(Nat)
  BY <1>1 DEF EngineState, QuestionProgress
<1>4. AfterFollowUp(e, probe) = [s EXCEPT !.state = "follow_up",
                                          !.progress = progress,
                                          !.awaiting = TRUE]
  BY <1>1 DEF AfterFollowUp, EngineState
<1> HIDE DEF s
<1>5. /\ Append(asked, probe) \in Seq(Nat)
      /\ Range(asked) \subseteq Range(Append(asked, probe))
      /\ probe \in Range(Append(asked, probe))
  BY <1>3, AppendRange
<1>6. /\ entry \in QuestionProgress
      /\ entry.asked = s.progress[e.current].asked
      /\ entry.probesCovered = s.progress[e.current].probesCovered
      /\ entry.probesAsked = Append(asked, probe)
  BY <1>3, <1>5 DEF QuestionProgress
<1> HIDE DEF entry
<1>7. /\ progress \in [Positions -> QuestionProgress]
      /\ progress[e.current] = entry
      /\ \A q \in Positions \ {e.current} : progress[q] = e.progress[q]
  BY <1>1, <1>2, <1>6 DEF EngineState
<1> HIDE DEF progress
<1>8. AfterFollowUp(e, probe) \in EngineState
  BY <1>1, <1>4, <1>7 DEF EngineState, States
<1>9. /\ AfterFollowUp(e, probe).progress = progress
      /\ AfterFollowUp(e, probe).current = e.current
      /\ AfterFollowUp(e, probe).state = "follow_up"
      /\ AfterFollowUp(e, probe).nextSeq = e.nextSeq + 1
      /\ ~AfterFollowUp(e, probe).pending
  BY <1>1, <1>2, <1>4 DEF EngineState
<1>10. Grows(e.progress, progress)
  BY <1>2, <1>5, <1>6, <1>7 DEF Grows
<1> QED
  BY <1>1, <1>2, <1>5, <1>6, <1>7, <1>8, <1>9, <1>10
     DEF Advanced, WellPlaced, InAQuestion

(* The invitation and the replies leave every progress alone. *)
LEMMA CandidateQuestionsAdvance ==
  ASSUME NEW e \in EngineState, WellPlaced(e), e.state = "candidate_questions"
  PROVE  /\ ~e.pending => Advanced(e, AfterInvitation(e))
         /\ Advanced(e, AfterCandidateQuestion(e))
         /\ AfterInvitation(e).progress = e.progress
         /\ AfterCandidateQuestion(e).progress = e.progress
         /\ AfterInvitation(e).state # "question"
         /\ AfterCandidateQuestion(e).state # "question"
<1> DEFINE s == Spoken(e)
<1>1. /\ s \in EngineState /\ s.progress = e.progress /\ s.state = e.state
      /\ s.nextSeq = e.nextSeq + 1 /\ s.pending = e.pending
  BY SpokenType DEF EngineState
<1>2. /\ AfterInvitation(e) = [s EXCEPT !.awaiting = TRUE]
      /\ AfterCandidateQuestion(e) = [s EXCEPT !.awaiting = TRUE, !.pending = FALSE]
  BY DEF AfterInvitation, AfterCandidateQuestion
<1> HIDE DEF s
<1>3. Grows(e.progress, e.progress)
  BY DEF Grows
<1> QED
  BY <1>1, <1>2, <1>3 DEF Advanced, WellPlaced, InAQuestion, EngineState

(* The close ends the session and leaves every progress alone. *)
LEMMA AfterWrapUpAdvances ==
  ASSUME NEW e \in EngineState, WellPlaced(e), e.state = "wrap_up"
  PROVE  /\ Advanced(e, AfterWrapUp(e))
         /\ AfterWrapUp(e).progress = e.progress
         /\ AfterWrapUp(e).state = "ended"
<1> DEFINE s == Spoken(e)
           reason == IF e.endReason # None THEN s.endReason ELSE NaturalReason(e)
<1>1. /\ s \in EngineState /\ s.progress = e.progress
      /\ s.nextSeq = e.nextSeq + 1 /\ s.pending = e.pending /\ ~e.pending
  BY SpokenType DEF EngineState, WellPlaced
<1>2. reason \in EndReasons \cup {None}
  BY <1>1, NaturalReasonType DEF EngineState
<1>3. AfterWrapUp(e) = [s EXCEPT !.state = "ended", !.current = NoQuestion,
                                 !.endReason = reason, !.awaiting = FALSE]
  BY <1>1 DEF AfterWrapUp, EngineState
<1> HIDE DEF s, reason
<1>4. Grows(e.progress, e.progress)
  BY DEF Grows
<1> QED
  BY <1>1, <1>2, <1>3, <1>4 DEF Advanced, WellPlaced, InAQuestion, EngineState, States

(* An answer adds what it covered to its own question. *)
LEMMA TakeAnswerAdvances ==
  ASSUME NEW e \in EngineState, WellPlaced(e), NEW covered \in SUBSET Nat
  PROVE  /\ Advanced(e, TakeAnswer(e, covered))
         /\ InAQuestion(e) =>
              covered \subseteq TakeAnswer(e, covered).progress[e.current].probesCovered
         /\ \A q \in Positions : /\ TakeAnswer(e, covered).progress[q].asked
                                    = e.progress[q].asked
                                /\ TakeAnswer(e, covered).progress[q].probesAsked
                                    = e.progress[q].probesAsked
         /\ TakeAnswer(e, covered).state = e.state
         /\ TakeAnswer(e, covered).current = e.current
<1> DEFINE all == e.progress[e.current].probesCovered \cup covered
           entry == [e.progress[e.current] EXCEPT !.probesCovered = all]
           merged == MergeCovered(e, covered)
<1>1. /\ merged \in [Positions -> QuestionProgress]
      /\ Grows(e.progress, merged)
      /\ InAQuestion(e) => covered \subseteq merged[e.current].probesCovered
      /\ \A q \in Positions : /\ merged[q].asked = e.progress[q].asked
                             /\ merged[q].probesAsked = e.progress[q].probesAsked
  <2>1. CASE InAQuestion(e)
    <3>1. e.current \in Positions /\ e.progress[e.current] \in QuestionProgress
      BY <2>1 DEF EngineState, WellPlaced
    <3>2. /\ entry \in QuestionProgress
          /\ entry.probesCovered = all
          /\ entry.asked = e.progress[e.current].asked
          /\ entry.probesAsked = e.progress[e.current].probesAsked
      BY <3>1 DEF QuestionProgress
    <3>3. merged = [e.progress EXCEPT ![e.current] = entry]
      BY <2>1 DEF MergeCovered
    <3> HIDE DEF entry, merged
    <3> QED
      BY <3>1, <3>2, <3>3 DEF EngineState, Grows
  <2>2. CASE ~InAQuestion(e)
    BY <2>2 DEF EngineState, MergeCovered, Grows
  <2> QED
    BY <2>1, <2>2
<1>2. e.nextSeq + 1 \in Nat /\ (e.state = "candidate_questions") \in BOOLEAN
  BY DEF EngineState
<1>3. TakeAnswer(e, covered) = [e EXCEPT !.nextSeq = e.nextSeq + 1,
                                         !.progress = merged,
                                         !.awaiting = FALSE,
                                         !.pending = (e.state = "candidate_questions")]
  BY DEF TakeAnswer, EngineState
<1> HIDE DEF merged
<1>4. /\ TakeAnswer(e, covered) \in EngineState
      /\ TakeAnswer(e, covered).progress = merged
      /\ TakeAnswer(e, covered).nextSeq = e.nextSeq + 1
      /\ TakeAnswer(e, covered).state = e.state
      /\ TakeAnswer(e, covered).current = e.current
      /\ ~TakeAnswer(e, covered).awaiting
      /\ TakeAnswer(e, covered).pending => e.state = "candidate_questions"
  BY <1>1, <1>2, <1>3 DEF EngineState
<1>5. WellPlaced(TakeAnswer(e, covered))
  BY <1>4 DEF WellPlaced, InAQuestion
<1> QED
  BY <1>1, <1>4, <1>5 DEF Advanced

-----------------------------------------------------------------------------
(* Snapshots.                                                              *)

(* Snapshots and states are typed alike. *)
LEMMA SnapshotType ==
  /\ \A e \in EngineState : ToSnapshot(e) \in Snapshot
  /\ \A s \in Snapshot : FromSnapshot(s) \in EngineState
BY DEF ToSnapshot, FromSnapshot, Snapshot, EngineState

(* A state at rest is restored from its own snapshot. *)
LEMMA RestoredIsStored ==
  ASSUME NEW e \in EngineState,
         e.awaiting = (e.state # "ended"), e.pending = FALSE
  PROVE  FromSnapshot(ToSnapshot(e)) = e
BY DEF ToSnapshot, FromSnapshot, EngineState

(* At rest, awaiting and pending_text have the values a restore gives them. *)
LEMMA RestIsAtRest ==
  ASSUME NEW e \in EngineState, WellPlaced(e), Resting(e)
  PROVE  e.awaiting = (e.state # "ended") /\ e.pending = FALSE
BY DEF WellPlaced, Resting, EngineState

-----------------------------------------------------------------------------
(* The log of turns.                                                       *)

(* A turn that takes the next seq, and is a follow-up only if the menu     *)
(* still owed it, extends a log.                                           *)
LEMMA LogGrows ==
  ASSUME NEW T \in SUBSET Turn, NEW e \in EngineState, NEW f,
         Logged(T, e), Advanced(e, f),
         NEW t \in Turn, t.seq = e.nextSeq,
         t.question # NoQuestion =>
           /\ t.answered \subseteq f.progress[t.question].probesCovered
           /\ t.probe \in {NoProbe} \cup Range(f.progress[t.question].probesAsked),
         t \in Said({t}, "follow_up") =>
           /\ t.question # NoQuestion
           /\ t.probe \in Probes(t.question) \ (Range(e.progress[t.question].probesAsked)
                                                \cup e.progress[t.question].probesCovered)
  PROVE  Logged(T \cup {t}, f)
<1>1. e.nextSeq \in Nat /\ f.nextSeq = e.nextSeq + 1
  BY DEF EngineState, Advanced
<1>2. Numbered(T \cup {t}, f.nextSeq)
  <2>1. \A u \in T : u.seq \in 0 .. e.nextSeq - 1
    BY DEF Logged, Numbered
  <2>2. \A u \in T : u.seq # t.seq
    BY <1>1, <2>1
  <2>3. {u.seq : u \in T \cup {t}} = {u.seq : u \in T} \cup {t.seq}
    OBVIOUS
  <2>4. 0 .. f.nextSeq - 1 = (0 .. e.nextSeq - 1) \cup {e.nextSeq}
    BY <1>1
  <2> QED
    BY <2>2, <2>3, <2>4 DEF Logged, Numbered
<1>3. Recorded(T \cup {t}, f.progress)
  <2>1. ASSUME NEW u \in T, u.question # NoQuestion
        PROVE  /\ u.answered \subseteq f.progress[u.question].probesCovered
               /\ u.probe \in {NoProbe} \cup Range(f.progress[u.question].probesAsked)
    <3>1. u.question \in Positions
      BY <2>1 DEF Turn
    <3> QED
      BY <2>1, <3>1 DEF Logged, Recorded, Advanced, Grows
  <2> QED
    BY <2>1 DEF Recorded
<1>4. Earned(T \cup {t})
  <2> SUFFICES ASSUME NEW g \in Said(T \cup {t}, "follow_up")
               PROVE  /\ g.question # NoQuestion
                      /\ g.probe \in Probes(g.question)
                      /\ \A u \in T \cup {t} :
                           u.question = g.question /\ u.seq < g.seq =>
                             g.probe \notin u.answered \cup {u.probe}
    BY DEF Earned
  <2>1. CASE g = t
    <3>1. /\ g.question # NoQuestion
          /\ g.probe \in Probes(g.question)
          /\ g.probe \notin Range(e.progress[g.question].probesAsked)
          /\ g.probe \notin e.progress[g.question].probesCovered
      BY <2>1 DEF Said
    <3>2. g.question \in Positions
      BY <2>1, <3>1 DEF Turn
    <3>3. g.probe # NoProbe
      BY <3>1, <3>2, ProbesArePositive DEF NoProbe
    <3>4. ASSUME NEW u \in T, u.question = g.question
          PROVE  g.probe \notin u.answered \cup {u.probe}
      BY <3>1, <3>3, <3>4 DEF Logged, Recorded
    <3> QED
      BY <2>1, <3>1, <3>4 DEF Turn
  <2>2. CASE g # t
    <3>1. g \in Said(T, "follow_up")
      BY <2>2 DEF Said
    <3>2. g \in T /\ g.seq < t.seq /\ t.seq \in Nat /\ g.seq \in Nat
      BY <1>1, <3>1 DEF Said, Logged, Numbered, Turn
    <3> QED
      BY <3>1, <3>2 DEF Logged, Earned
  <2> QED
    BY <2>1, <2>2
<1> QED
  BY <1>2, <1>3, <1>4 DEF Logged

(* What the interviewer and the candidate say are turns. *)
LEMMA TurnTypes ==
  ASSUME NEW e \in EngineState
  PROVE  /\ \A state \in States, q \in Positions \cup {NoQuestion}, p \in Nat :
              Says(e, state, q, p) \in Turn
         /\ \A answered \in SUBSET Nat : CandidateTurn(e, answered) \in Turn
BY DEF Turn, Says, CandidateTurn, EngineState, NoProbe

(* A move without a word keeps the log. *)
LEMMA LogKept ==
  ASSUME NEW T, NEW e, NEW f, Logged(T, e),
         f.nextSeq = e.nextSeq, f.progress = e.progress
  PROVE  Logged(T, f)
BY DEF Logged

-----------------------------------------------------------------------------
(* The inductive invariant.                                                *)

(* What RoomToOpen asks of an engine state and the reading it is held to. *)
RoomFor(e, l) ==
  /\ e.state = "question"
  /\ e.current > 0
  /\ ~e.progress[e.current].asked
  => HasTimeFor(SecondsToOpenAQuestion, l)

(* The invariant holds before the first exchange. *)
LEMMA InitIInv == Init => IInv
<1> SUFFICES ASSUME Init PROVE IInv
  OBVIOUS
<1>1. Begin \in EngineState
  BY DEF Begin, EngineState, States, QuestionProgress, EndReasons, None
<1>2. stored \in Snapshot /\ FromSnapshot(stored) = Begin
  <2>1. stored \in Snapshot
    BY <1>1, SnapshotType DEF Init
  <2>2. Begin.awaiting = (Begin.state # "ended") /\ Begin.pending = FALSE
    BY DEF Begin
  <2> QED
    BY <1>1, <2>1, <2>2, RestoredIsStored DEF Init
<1>3. WellPlaced(Begin)
  BY DEF WellPlaced, Begin, InAQuestion
<1>4. Logged({}, Begin) /\ Logged({}, stored)
  <2>1. Begin.nextSeq = 0 /\ stored.nextSeq = 0
    BY DEF Begin, Init, ToSnapshot
  <2>2. {t.seq : t \in {}} = 0 .. 0 - 1
    OBVIOUS
  <2> QED
    BY <2>1, <2>2 DEF Logged, Numbered, Recorded, Earned, Said
<1>5. TypeOK
  BY <1>1, <1>2 DEF Init, TypeOK
<1>6. RoomToOpen
  BY DEF Init, RoomToOpen
<1> QED
  BY <1>1, <1>2, <1>3, <1>4, <1>5, <1>6 DEF Init, IInv

(* A request that leaves the engine well placed keeps the invariant. *)
LEMMA ReceiveKeeps ==
  ASSUME IInv, NEW moved \in EngineState, NEW heard \in SUBSET Turn,
         Receive(moved, heard), engine.state # "ended", WellPlaced(moved),
         Logged(transcript \cup heard, moved), RoomFor(moved, left)
  PROVE  IInv'
BY DEF IInv, TypeOK, Receive, RoomToOpen, RoomFor, FromSnapshot

(* A turn spoken from where planning moved the engine to keeps it too. *)
LEMMA SpeakKeeps ==
  ASSUME IInv, NEW e \in EngineState, NEW said \in Turn, NEW after,
         phase = "speaking", Moved(engine, e),
         Speak(said, after), Advanced(e, after), RoomFor(after, asOf),
         said.seq = e.nextSeq,
         said.question # NoQuestion =>
           /\ said.answered \subseteq after.progress[said.question].probesCovered
           /\ said.probe \in {NoProbe} \cup Range(after.progress[said.question].probesAsked),
         said \in Said({said}, "follow_up") =>
           /\ said.question # NoQuestion
           /\ said.probe \in Probes(said.question)
                \ (Range(e.progress[said.question].probesAsked)
                    \cup e.progress[said.question].probesCovered)
  PROVE  IInv'
<1>1. Logged(transcript \cup turns, e)
  BY LogKept DEF IInv, Moved
<1>2. transcript \cup turns \in SUBSET Turn
  BY DEF IInv, TypeOK
<1>3. Logged((transcript \cup turns) \cup {said}, after)
  BY <1>1, <1>2, LogGrows
<1>4. transcript' \cup turns' = (transcript \cup turns) \cup {said}
  BY DEF Speak
<1>5. Logged(transcript \cup turns, engine)'
  BY <1>3, <1>4 DEF Speak
<1>6. TypeOK'
  BY DEF IInv, TypeOK, Speak, Advanced
<1>7. RoomToOpen'
  BY DEF Speak, RoomToOpen, RoomFor
<1>8. Logged(transcript, stored)' /\ WellPlaced(FromSnapshot(stored))'
  BY DEF IInv, Speak
<1>9. WellPlaced(engine)' /\ phase' # "idle"
  BY DEF Speak, Advanced
<1>10. stored' = stored /\ stored.state # "ended"
  BY DEF IInv, Speak
<1> QED
  BY <1>5, <1>6, <1>7, <1>8, <1>9, <1>10 DEF IInv

(* What planning gives the speaking actions. *)
LEMMA PlannedMoves ==
  ASSUME IInv, Planning
  PROVE  /\ phase = "speaking"
         /\ Planned \in EngineState
         /\ WellPlaced(Planned)
         /\ ~Planned.awaiting
         /\ Moved(engine, Planned)
         /\ Planned.progress = engine.progress
         /\ Planned.state = "question" /\ ~Planned.progress[Planned.current].asked
              /\ Planned.current > 0 =>
              HasTimeFor(SecondsToOpenAQuestion, asOf)
<1>1. engine \in EngineState /\ WellPlaced(engine) /\ ~Resting(engine) /\ asOf \in Int
  BY ReadingsAssumption DEF IInv, TypeOK, Planning
<1>2. Moved(engine, Planned)
  BY <1>1, SettledMoves DEF Planned
<1>3. Planned.state = "question" =>
        Planned = engine \/ HasTimeFor(SecondsToOpenAQuestion, asOf)
  BY <1>1, SettledMoves DEF Planned
<1> QED
  BY <1>2, <1>3 DEF Moved, IInv, RoomToOpen, Planning

(* Taking in a start keeps the invariant. *)
LEMMA ReceiveStartKeeps == IInv /\ ReceiveStart => IInv'
<1> SUFFICES ASSUME IInv, ReceiveStart PROVE IInv'
  OBVIOUS
<1> DEFINE moved == Start(engine)
<1>1. /\ engine \in EngineState /\ engine.state = "intro" /\ WellPlaced(engine)
      /\ Logged(transcript \cup {}, engine)
  BY DEF IInv, TypeOK, ReceiveStart, Receive, CanStart
<1>2. /\ moved \in EngineState /\ WellPlaced(moved) /\ RoomFor(moved, left)
      /\ moved.nextSeq = engine.nextSeq /\ moved.progress = engine.progress
  BY <1>1 DEF Start, EngineState, WellPlaced, InAQuestion, RoomFor
<1>3. Logged(transcript \cup {}, moved)
  BY <1>1, <1>2, LogKept
<1>4. Receive(moved, {})
  BY DEF ReceiveStart
<1> HIDE DEF moved
<1> QED
  BY <1>1, <1>2, <1>3, <1>4, ReceiveKeeps

(* Taking in an answer keeps it: the turn records what was covered. *)
LEMMA ReceiveAnswerKeeps == IInv /\ ReceiveAnswer => IInv'
<1> SUFFICES ASSUME IInv, ReceiveAnswer PROVE IInv'
  OBVIOUS
<1>1. PICK answered \in SUBSET ProbesToJudge(engine, left) :
        Receive(TakeAnswer(engine, answered), {CandidateTurn(engine, answered)})
  BY DEF ReceiveAnswer
<1>2. /\ engine \in EngineState /\ WellPlaced(engine) /\ engine.awaiting
      /\ transcript \in SUBSET Turn /\ Logged(transcript, engine)
      /\ engine.state # "ended"
  BY DEF IInv, TypeOK, ReceiveAnswer, CanAnswer, Receive
<1>3. answered \in SUBSET Nat
  <2>1. InAQuestion(engine) => engine.current \in Positions
    BY <1>2 DEF WellPlaced
  <2> QED
    BY <2>1, ProbesAreNat DEF ProbesToJudge, ProbesInPlay
<1>4. ~InAQuestion(engine) => answered = {}
  BY DEF ProbesToJudge
<1> DEFINE moved == TakeAnswer(engine, answered)
           said  == CandidateTurn(engine, answered)
<1>5. /\ Advanced(engine, moved)
      /\ InAQuestion(engine) =>
           answered \subseteq moved.progress[engine.current].probesCovered
      /\ \A q \in Positions : moved.progress[q].asked = engine.progress[q].asked
      /\ moved.state = engine.state /\ moved.current = engine.current
  BY <1>2, <1>3, TakeAnswerAdvances
<1>6. /\ said \in Turn /\ said.seq = engine.nextSeq /\ said.probe = NoProbe
      /\ said.answered = answered
      /\ said.question = IF InAQuestion(engine) THEN engine.current ELSE NoQuestion
      /\ said \notin Said({said}, "follow_up")
  BY <1>2, <1>3, TurnTypes DEF CandidateTurn, Said
<1>7. Logged(transcript \cup {said}, moved)
  <2> HIDE DEF moved, said
  <2>1. said.question # NoQuestion =>
          /\ said.answered \subseteq moved.progress[said.question].probesCovered
          /\ said.probe \in {NoProbe} \cup Range(moved.progress[said.question].probesAsked)
    BY <1>5, <1>6
  <2> QED
    BY <1>2, <1>5, <1>6, <2>1, LogGrows
<1>8. RoomFor(moved, left)
  BY <1>2, <1>5 DEF RoomFor, WellPlaced, InAQuestion
<1> HIDE DEF moved, said
<1>9. Receive(moved, {said}) /\ {said} \in SUBSET Turn
  BY <1>1, <1>6 DEF moved, said
<1> QED
  BY <1>2, <1>5, <1>7, <1>8, <1>9, ReceiveKeeps DEF Advanced

(* Taking in a skip keeps it. *)
LEMMA ReceiveSkipKeeps == IInv /\ ReceiveSkip => IInv'
<1> SUFFICES ASSUME IInv, ReceiveSkip PROVE IInv'
  OBVIOUS
<1> DEFINE f     == [engine EXCEPT !.awaiting = FALSE]
           moved == Skip(engine, left)
<1>1. /\ engine \in EngineState /\ engine.awaiting /\ WellPlaced(engine)
      /\ Logged(transcript \cup {}, engine) /\ left \in Int
      /\ engine.state # "ended"
  BY ReadingsAssumption DEF IInv, TypeOK, ReceiveSkip, Receive, CanSkip, InAQuestion
<1>2. /\ f \in EngineState /\ ~f.pending
      /\ f.nextSeq = engine.nextSeq /\ f.progress = engine.progress
  BY <1>1 DEF EngineState, WellPlaced
<1>3. moved = IF InAQuestion(engine) THEN PastCurrentQuestion(f, left)
              ELSE ToWrapUp(f, "questions_done")
  BY DEF Skip
<1> HIDE DEF f, moved
<1>4. "questions_done" \in EndReasons
  BY DEF EndReasons
<1>5. Moved(f, moved) /\ RoomFor(moved, left)
  BY <1>1, <1>2, <1>3, <1>4, PastCurrentQuestionMoves, ToWrapUpMoves DEF RoomFor
<1>6. Logged(transcript \cup {}, moved)
  BY <1>1, <1>2, <1>5, LogKept DEF Moved
<1>7. Receive(moved, {})
  BY DEF ReceiveSkip, moved
<1> QED
  BY <1>1, <1>5, <1>6, <1>7, ReceiveKeeps DEF Moved

(* Taking in an early end keeps it. *)
LEMMA ReceiveEndKeeps == IInv /\ ReceiveEnd => IInv'
<1> SUFFICES ASSUME IInv, ReceiveEnd PROVE IInv'
  OBVIOUS
<1> DEFINE f     == [engine EXCEPT !.awaiting = FALSE]
           moved == EndEarly(engine)
<1>1. /\ engine \in EngineState /\ ~engine.pending
      /\ Logged(transcript \cup {}, engine) /\ engine.state # "ended"
  BY DEF IInv, TypeOK, ReceiveEnd, Receive, FromSnapshot, CanEndEarly
<1>2. /\ f \in EngineState /\ ~f.pending
      /\ f.nextSeq = engine.nextSeq /\ f.progress = engine.progress
  BY <1>1 DEF EngineState
<1>3. moved = ToWrapUp(f, "candidate_ended") /\ "candidate_ended" \in EndReasons
  BY DEF EndEarly, EndReasons
<1> HIDE DEF f, moved
<1>4. Moved(f, moved) /\ RoomFor(moved, left)
  BY <1>2, <1>3, ToWrapUpMoves DEF RoomFor
<1>5. Logged(transcript \cup {}, moved)
  BY <1>1, <1>2, <1>4, LogKept DEF Moved
<1>6. Receive(moved, {})
  BY DEF ReceiveEnd, moved
<1> QED
  BY <1>1, <1>4, <1>5, <1>6, ReceiveKeeps DEF Moved

(* The greeting keeps it. *)
LEMMA SpeakIntroKeeps == IInv /\ SpeakIntro => IInv'
<1> SUFFICES ASSUME IInv, SpeakIntro PROVE IInv'
  OBVIOUS
<1> DEFINE said  == Says(Planned, "intro", NoQuestion, NoProbe)
           after == AfterIntro(Planned, asOf)
<1>1. /\ phase = "speaking" /\ Planned \in EngineState /\ Moved(engine, Planned)
      /\ ~Planned.pending /\ asOf \in Int
  BY PlannedMoves, ReadingsAssumption DEF SpeakIntro, WellPlaced, IInv, TypeOK
<1>2. Advanced(Planned, after) /\ RoomFor(after, asOf)
  BY <1>1, AfterIntroAdvances DEF RoomFor
<1>3. /\ said \in Turn /\ said.seq = Planned.nextSeq /\ said.question = NoQuestion
      /\ said \notin Said({said}, "follow_up")
  BY <1>1, TurnTypes DEF Says, Said, States, NoProbe
<1>4. Speak(said, after)
  BY DEF SpeakIntro
<1> HIDE DEF said, after
<1> QED
  BY <1>1, <1>2, <1>3, <1>4, SpeakKeeps

(* Putting a question keeps it. *)
LEMMA AskQuestionKeeps == IInv /\ AskQuestion => IInv'
<1> SUFFICES ASSUME IInv, AskQuestion PROVE IInv'
  OBVIOUS
<1> DEFINE said  == Says(Planned, "question", Planned.current, NoProbe)
           after == AfterQuestion(Planned)
<1>1. /\ phase = "speaking" /\ Planned \in EngineState /\ Moved(engine, Planned)
      /\ WellPlaced(Planned) /\ Planned.state = "question"
  BY PlannedMoves DEF AskQuestion
<1>2. Advanced(Planned, after) /\ RoomFor(after, asOf)
  BY <1>1, AfterQuestionAdvances DEF RoomFor
<1>3. /\ said \in Turn /\ said.seq = Planned.nextSeq
      /\ said.answered = {} /\ said.probe = NoProbe
      /\ said \notin Said({said}, "follow_up")
  BY <1>1, TurnTypes DEF Says, Said, States, NoProbe, EngineState
<1>4. Speak(said, after)
  BY DEF AskQuestion
<1> HIDE DEF said, after
<1> QED
  BY <1>1, <1>2, <1>3, <1>4, SpeakKeeps

(* A follow-up keeps it: its probe was neither asked nor covered before. *)
LEMMA AskFollowUpKeeps == IInv /\ AskFollowUp => IInv'
<1> SUFFICES ASSUME IInv, AskFollowUp PROVE IInv'
  OBVIOUS
<1> DEFINE entry == Planned.progress[Planned.current]
           probe == ChooseProbe(Planned.current, entry.probesAsked, entry.probesCovered)
           said  == Says(Planned, "follow_up", Planned.current, probe)
           after == AfterFollowUp(Planned, probe)
<1>1. /\ phase = "speaking" /\ Planned \in EngineState /\ Moved(engine, Planned)
      /\ WellPlaced(Planned) /\ InAQuestion(Planned) /\ Planned.current \in Positions
  BY PlannedMoves DEF AskFollowUp, AnswerIsIn, InAQuestion, WellPlaced
<1>2. CanProbe(Planned.current, entry.probesAsked, entry.probesCovered)
  BY DEF AskFollowUp, ProbeIsDue
<1>3. /\ probe \in Nat
      /\ probe \in Probes(Planned.current)
                   \ (Range(entry.probesAsked) \cup entry.probesCovered)
  BY <1>1, <1>2, ChosenProbe DEF ProbesInPlay
<1> HIDE DEF probe
<1>4. /\ Advanced(Planned, after) /\ RoomFor(after, asOf)
      /\ probe \in Range(after.progress[Planned.current].probesAsked)
  BY <1>1, <1>3, AfterFollowUpAdvances DEF RoomFor
<1>5. /\ said \in Turn /\ said.seq = Planned.nextSeq
      /\ said.answered = {} /\ said.probe = probe /\ said.question = Planned.current
  BY <1>1, <1>3, TurnTypes DEF Says, States
<1>6. Speak(said, after)
  BY DEF AskFollowUp, probe
<1>7. Planned.current # NoQuestion
  BY <1>1 DEF Positions, NoQuestion
<1> HIDE DEF said, after
<1> QED
  BY <1>1, <1>3, <1>4, <1>5, <1>6, <1>7, SpeakKeeps

(* The invitation and the replies to the candidate keep it. *)
LEMMA CandidateQuestionsKeep ==
  IInv /\ (InviteCandidateQuestions \/ AnswerCandidateQuestion) => IInv'
<1> SUFFICES ASSUME IInv, InviteCandidateQuestions \/ AnswerCandidateQuestion
             PROVE IInv'
  OBVIOUS
<1> DEFINE said == Says(Planned, "candidate_questions", NoQuestion, NoProbe)
<1>1. /\ phase = "speaking" /\ Planned \in EngineState /\ Moved(engine, Planned)
      /\ WellPlaced(Planned) /\ Planned.state = "candidate_questions"
  BY PlannedMoves DEF InviteCandidateQuestions, AnswerCandidateQuestion
<1>2. /\ said \in Turn /\ said.seq = Planned.nextSeq /\ said.question = NoQuestion
      /\ said \notin Said({said}, "follow_up")
  BY <1>1, TurnTypes DEF Says, Said, States, NoProbe
<1>3. CASE InviteCandidateQuestions
  <2> DEFINE after == AfterInvitation(Planned)
  <2>1. Advanced(Planned, after) /\ RoomFor(after, asOf)
    BY <1>1, <1>3, CandidateQuestionsAdvance DEF InviteCandidateQuestions, RoomFor
  <2>2. Speak(said, after)
    BY <1>3 DEF InviteCandidateQuestions
  <2> HIDE DEF said, after
  <2> QED
    BY <1>1, <1>2, <2>1, <2>2, SpeakKeeps
<1>4. CASE AnswerCandidateQuestion
  <2> DEFINE after == AfterCandidateQuestion(Planned)
  <2>1. Advanced(Planned, after) /\ RoomFor(after, asOf)
    BY <1>1, CandidateQuestionsAdvance DEF RoomFor
  <2>2. Speak(said, after)
    BY <1>4 DEF AnswerCandidateQuestion
  <2> HIDE DEF said, after
  <2> QED
    BY <1>1, <1>2, <2>1, <2>2, SpeakKeeps
<1> QED
  BY <1>3, <1>4

(* The close keeps it. *)
LEMMA SpeakWrapUpKeeps == IInv /\ SpeakWrapUp => IInv'
<1> SUFFICES ASSUME IInv, SpeakWrapUp PROVE IInv'
  OBVIOUS
<1> DEFINE said  == Says(Planned, "wrap_up", NoQuestion, NoProbe)
           after == AfterWrapUp(Planned)
<1>1. /\ phase = "speaking" /\ Planned \in EngineState /\ Moved(engine, Planned)
      /\ WellPlaced(Planned) /\ Planned.state = "wrap_up"
  BY PlannedMoves DEF SpeakWrapUp
<1>2. Advanced(Planned, after) /\ RoomFor(after, asOf)
  BY <1>1, AfterWrapUpAdvances DEF RoomFor
<1>3. /\ said \in Turn /\ said.seq = Planned.nextSeq /\ said.question = NoQuestion
      /\ said \notin Said({said}, "follow_up")
  BY <1>1, TurnTypes DEF Says, Said, States, NoProbe
<1>4. Speak(said, after)
  BY DEF SpeakWrapUp
<1> HIDE DEF said, after
<1> QED
  BY <1>1, <1>2, <1>3, <1>4, SpeakKeeps

(* Storing the exchange keeps it: what is stored restores to what was held. *)
LEMMA RespondKeeps == IInv /\ Respond => IInv'
<1> SUFFICES ASSUME IInv, Respond PROVE IInv'
  OBVIOUS
<1>1. engine \in EngineState /\ WellPlaced(engine) /\ Resting(engine)
  BY DEF IInv, TypeOK, Respond
<1>2. FromSnapshot(ToSnapshot(engine)) = engine /\ ToSnapshot(engine) \in Snapshot
  BY <1>1, RestIsAtRest, RestoredIsStored, SnapshotType
<1>3. engine' = engine /\ stored' = ToSnapshot(engine) /\ FromSnapshot(stored') = engine
  BY <1>2 DEF Respond
<1>4. transcript' = transcript \cup turns /\ turns' = {} /\ phase' = "idle"
      /\ left' = left /\ asOf' = asOf
  BY DEF Respond
<1>5. TypeOK'
  BY <1>1, <1>2, <1>3, <1>4 DEF IInv, TypeOK
<1>6. Logged(transcript, stored)' /\ Logged(transcript \cup turns, engine)'
  <2>1. Logged(transcript', engine)
    BY <1>4 DEF IInv
  <2>2. stored'.nextSeq = engine.nextSeq /\ stored'.progress = engine.progress
    BY <1>3 DEF ToSnapshot
  <2>3. transcript' \cup turns' = transcript'
    BY <1>4
  <2> QED
    BY <1>3, <2>1, <2>2, <2>3, LogKept
<1>7. RoomToOpen'
  BY <1>4 DEF RoomToOpen
<1> QED
  BY <1>1, <1>3, <1>4, <1>5, <1>6, <1>7 DEF IInv

(* Dropping the exchange keeps it: the engine is the stored one again. *)
LEMMA ExchangeFailsKeeps == IInv /\ ExchangeFails => IInv'
<1> SUFFICES ASSUME IInv, ExchangeFails PROVE IInv'
  OBVIOUS
<1>1. /\ engine' = FromSnapshot(stored) /\ turns' = {} /\ phase' = "idle"
      /\ stored' = stored /\ transcript' = transcript /\ left' = left /\ asOf' = asOf
  BY DEF ExchangeFails
<1>2. FromSnapshot(stored) \in EngineState
  BY SnapshotType DEF IInv, TypeOK
<1>3. Logged(transcript, FromSnapshot(stored))
  BY LogKept DEF IInv, FromSnapshot
<1>4. transcript' \cup turns' = transcript
  BY <1>1
<1>5. TypeOK' /\ RoomToOpen'
  BY <1>1, <1>2 DEF IInv, TypeOK, RoomToOpen
<1> QED
  BY <1>1, <1>3, <1>4, <1>5 DEF IInv

(* The clock changes nothing the invariant is about. *)
LEMMA TickKeeps == IInv /\ (Tick \/ UNCHANGED vars) => IInv'
<1> SUFFICES ASSUME IInv, Tick \/ UNCHANGED vars PROVE IInv'
  OBVIOUS
<1>1. UNCHANGED <<stored, transcript, phase, asOf, engine, turns>> /\ left' \in Readings
  BY DEF Tick, vars, IInv, TypeOK
<1> QED
  BY <1>1 DEF IInv, TypeOK, RoomToOpen

(* Every step keeps the invariant: one lemma per action. *)
LEMMA NextKeeps == IInv /\ [Next]_vars => IInv'
BY ReceiveStartKeeps, ReceiveAnswerKeeps, ReceiveSkipKeeps, ReceiveEndKeeps,
   SpeakIntroKeeps, AskQuestionKeeps, AskFollowUpKeeps, CandidateQuestionsKeep,
   SpeakWrapUpKeeps, RespondKeeps, ExchangeFailsKeeps, TickKeeps DEF Next

-----------------------------------------------------------------------------
(* What IInv gives: theorems about the turns and the snapshot.             *)

(* The inductive invariant holds of every reachable state. *)
THEOREM Invariance == Spec => []IInv
BY InitIInv, NextKeeps, PTL DEF Spec

(* Whatever bundle, clock, candidate and model: the variables keep their   *)
(* types.                                                                  *)
THEOREM TypeCorrect == Spec => []TypeOK
<1>1. IInv => TypeOK
  BY DEF IInv
<1> QED
  BY <1>1, Invariance, PTL

(* The stored transcript is numbered without a hole or a clash, which is   *)
(* what the upsert of turns by (session, seq) relies on.                   *)
THEOREM TranscriptWhole == Spec => []TranscriptIsWhole
<1>1. IInv => TranscriptIsWhole
  BY DEF IInv, Logged, TranscriptIsWhole
<1> QED
  BY <1>1, Invariance, PTL

(* No follow-up repeats a probe or asks for what an answer had reached.    *)
THEOREM FollowUpsEarned == Spec => []FollowUpsAreEarned
<1>1. IInv => FollowUpsAreEarned
  BY DEF IInv, Logged, FollowUpsAreEarned
<1> QED
  BY <1>1, Invariance, PTL

(* Nothing of the engine's state is lost by not being in the snapshot.     *)
THEOREM RestRestorable == Spec => []RestIsRestorable
<1>1. IInv => RestIsRestorable
  BY RestIsAtRest, RestoredIsStored DEF IInv, TypeOK, RestIsRestorable
<1> QED
  BY <1>1, Invariance, PTL

(* A step in the middle of an exchange starts only what there is room for. *)
LEMMA StepsHaveRoom ==
  ASSUME IInv, Next, phase = "speaking", phase' = "speaking", NEW q \in Positions
  PROVE  /\ q > 0 /\ engine'.progress[q].asked /\ ~engine.progress[q].asked =>
              HasTimeFor(SecondsToOpenAQuestion, asOf)
         /\ Len(engine'.progress[q].probesAsked) > Len(engine.progress[q].probesAsked) =>
              HasTimeFor(SecondsForAFollowUp, asOf)
<1>1. Len(engine.progress[q].probesAsked) \in Nat
  BY DEF IInv, TypeOK, EngineState, QuestionProgress
<1>2. CASE Planning
  <2>1. /\ Planned \in EngineState /\ WellPlaced(Planned) /\ ~Planned.awaiting
        /\ Planned.progress = engine.progress /\ asOf \in Int
    BY <1>2, PlannedMoves, ReadingsAssumption DEF IInv, TypeOK
  <2>2. CASE AskQuestion
    <3>1. engine' = AfterQuestion(Planned) /\ Planned.state = "question"
      BY <2>2 DEF AskQuestion, Speak
    <3>2. /\ \A r \in Positions \ {Planned.current} :
               engine'.progress[r] = engine.progress[r]
          /\ \A r \in Positions :
               engine'.progress[r].probesAsked = engine.progress[r].probesAsked
      BY <2>1, <3>1, AfterQuestionAdvances
    <3> QED
      BY <1>1, <1>2, <2>1, <3>1, <3>2, PlannedMoves
  <2>3. CASE AskFollowUp
    <3> DEFINE entry == Planned.progress[Planned.current]
               probe == ChooseProbe(Planned.current, entry.probesAsked, entry.probesCovered)
    <3>1. /\ engine' = AfterFollowUp(Planned, probe) /\ InAQuestion(Planned)
          /\ HasTimeFor(SecondsForAFollowUp, asOf)
          /\ CanProbe(Planned.current, entry.probesAsked, entry.probesCovered)
      BY <2>3 DEF AskFollowUp, Speak, AnswerIsIn, InAQuestion, ProbeIsDue
    <3>2. probe \in Nat
      BY <2>1, <3>1, ChosenProbe DEF WellPlaced
    <3> HIDE DEF probe
    <3>3. engine'.progress[q].asked = engine.progress[q].asked
      BY <2>1, <3>1, <3>2, AfterFollowUpAdvances
    <3> QED
      BY <3>1, <3>3
  <2>4. CASE SpeakIntro \/ InviteCandidateQuestions \/ AnswerCandidateQuestion
             \/ SpeakWrapUp
    <3>1. engine'.progress = engine.progress
      <4>1. CASE SpeakIntro
        <5>1. ~Planned.pending /\ engine' = Opening(Spoken(Planned), asOf)
          BY <2>1, <4>1 DEF SpeakIntro, Speak, WellPlaced, AfterIntro
        <5>2. Spoken(Planned).progress = Planned.progress
          BY <2>1, SpokenType DEF EngineState
        <5>3. Opening(Spoken(Planned), asOf).progress = Spoken(Planned).progress
          BY <2>1, SpokenType DEF Opening, ToWrapUp, ToQuestion, EngineState
        <5> QED
          BY <2>1, <5>1, <5>2, <5>3
      <4>2. CASE InviteCandidateQuestions \/ AnswerCandidateQuestion
        BY <2>1, <4>2, CandidateQuestionsAdvance
           DEF InviteCandidateQuestions, AnswerCandidateQuestion, Speak
      <4>3. CASE SpeakWrapUp
        BY <2>1, <4>3, AfterWrapUpAdvances DEF SpeakWrapUp, Speak
      <4> QED
        BY <2>4, <4>1, <4>2, <4>3
    <3> QED
      BY <1>1, <3>1
  <2> QED
    BY <1>1, <1>2, <2>2, <2>3, <2>4
       DEF Next, ReceiveStart, ReceiveAnswer, ReceiveSkip, ReceiveEnd, Receive,
           Respond, ExchangeFails, Tick
<1>3. CASE ~Planning
  BY <1>1, <1>3
     DEF Next, ReceiveStart, ReceiveAnswer, ReceiveSkip, ReceiveEnd, Receive,
         SpeakIntro, AskQuestion, AskFollowUp, InviteCandidateQuestions,
         AnswerCandidateQuestion, SpeakWrapUp, Respond, ExchangeFails, Tick
<1> QED
  BY <1>2, <1>3

(* No question after the first, and no follow-up, is started without the   *)
(* time the reserves ask for.                                              *)
THEOREM StartedWithRoom == Spec => NothingStartedWithoutRoom
<1> DEFINE Room == \A q \in Positions :
             LET before == engine.progress[q]
                 after  == engine'.progress[q]
             IN  phase = "speaking" /\ phase' = "speaking" =>
                   /\ q > 0 /\ after.asked /\ ~before.asked =>
                        HasTimeFor(SecondsToOpenAQuestion, asOf)
                   /\ Len(after.probesAsked) > Len(before.probesAsked) =>
                        HasTimeFor(SecondsForAFollowUp, asOf)
<1>1. IInv /\ [Next]_vars => [Room]_vars
  BY StepsHaveRoom
<1> QED
  BY <1>1, Invariance, PTL DEF Spec, NothingStartedWithoutRoom

-----------------------------------------------------------------------------
(* The second invariant, KInv: what an exchange as a whole does.           *)
(* EndsForGood, ClockIsObeyed, NoQuestionIsDropped and the refinement of   *)
(* InterviewSession need how the count, the state and the end reason agree *)
(* and what an exchange on its way still owes.                             *)

(* What has been asked is what the count says, and where the engine stands *)
(* agrees with it; there is a reason to end from the close on.             *)
Counted(e) ==
  /\ \A q \in Positions : e.progress[q].asked <=> q < e.questionsAsked
  /\ e.state = "intro" => e.questionsAsked = 0
  /\ e.state = "question" =>
       \/ e.current = e.questionsAsked - 1
       \/ e.current = e.questionsAsked /\ e.questionsAsked < QuestionBudget
  /\ e.state = "follow_up" => e.current = e.questionsAsked - 1
  /\ e.endReason = None <=> e.state \notin {"wrap_up", "ended"}
  /\ e.state = "wrap_up" => ~e.awaiting

(* The close is the last turn of an ended session, and of no other.        *)
Closed(turnSet, e) ==
  /\ \A t \in Said(turnSet, "wrap_up") : t.seq = e.nextSeq - 1
  /\ e.state = "ended" <=> Said(turnSet, "wrap_up") # {}

QuestionsLeft(e) == e.questionsAsked < QuestionBudget /\ e.questionsAsked < NumQuestions

Leaving(e) == e.state \in {"candidate_questions", "wrap_up", "ended"}

(* An engine that neither waits nor has ended has one turn to speak, and   *)
(* the greeting before it when the session starts.                         *)
TurnsToCome(e) ==
  IF Resting(e) THEN 0 ELSE IF e.state = "intro" THEN 2 ELSE 1

(* What the engine may have come to by the reading l of the clock, in an   *)
(* exchange that began from s.                                             *)
InTime(s, e, l) ==
  /\ e.endReason = "out_of_time" => ~HasTimeFor(SecondsForCandidateQuestions, l)
  /\ OutOfTime(l) =>
       IF Resting(e) THEN e.state = "ended"
       ELSE e.state = "intro" \/ Settled(e, l).state = "wrap_up"
  /\ (InAQuestion(s) \/ s.state = "intro") /\ Leaving(e) /\ QuestionsLeft(e) =>
       ~HasTimeFor(SecondsToOpenAQuestion, l) \/ e.endReason = "candidate_ended"

(* What the engine may have come to after the candidate did a.             *)
Answers(s, e, a) ==
  /\ Abstract!Takes(StageOf(s), a)
  /\ e.nextSeq + TurnsToCome(e) = s.nextSeq + Abstract!TurnsOf(a)
  /\ Resting(e) => e.state # "intro"
  /\ a = "end" => e.state \in {"wrap_up", "ended"}

Underway ==
  phase = "speaking" =>
    /\ InTime(stored, engine, asOf)
    /\ \E a \in Abstract!Actions : Answers(stored, engine, a)

KInv ==
  /\ IInv
  /\ Counted(engine)
  /\ Counted(FromSnapshot(stored))
  /\ Closed(transcript, FromSnapshot(stored))
  /\ Closed(transcript \cup turns, engine)
  /\ Underway

-----------------------------------------------------------------------------
(* Moves without a word.                                                   *)

(* What moving the engine on from e to f by the reading l leaves to hold.  *)
Onward(e, f, l) ==
  /\ Counted(f)
  /\ f.questionsAsked = e.questionsAsked
  /\ f.state \in {"question", "candidate_questions", "wrap_up"}
  /\ f.endReason = "out_of_time" => ~HasTimeFor(SecondsForCandidateQuestions, l)
  /\ OutOfTime(l) => f.state = "wrap_up"
  /\ Leaving(f) /\ QuestionsLeft(f) => ~HasTimeFor(SecondsToOpenAQuestion, l)

(* The reserves are ordered. *)
LEMMA Reserves ==
  ASSUME NEW l \in Int
  PROVE  /\ OutOfTime(l) => ~HasTimeFor(SecondsForCandidateQuestions, l)
         /\ OutOfTime(l) => ~HasTimeFor(SecondsToOpenAQuestion, l)
         /\ ~HasTimeFor(SecondsForCandidateQuestions, l) =>
              ~HasTimeFor(SecondsToOpenAQuestion, l)
BY DEF OutOfTime, HasTimeFor, SecondsForCandidateQuestions, SecondsToOpenAQuestion,
       SecondsForAQuestion, SecondsForAFollowUp

(* Turning to the close for any reason gives the engine one. *)
LEMMA ToWrapUpCounts ==
  ASSUME NEW e \in EngineState, Counted(e), NEW reason \in EndReasons
  PROVE  /\ Counted(ToWrapUp(e, reason))
         /\ ToWrapUp(e, reason).questionsAsked = e.questionsAsked
         /\ ToWrapUp(e, reason).state = "wrap_up"
         /\ ToWrapUp(e, reason).endReason
              = IF e.endReason = "candidate_ended" THEN e.endReason ELSE reason
         /\ ToWrapUp(e, reason).nextSeq = e.nextSeq
<1>1. e.endReason \in EndReasons \cup {None} /\ None \notin EndReasons
  BY DEF EngineState, EndReasons, None
<1> QED
  BY <1>1 DEF Counted, EngineState, ToWrapUp, None, EndReasons

(* Leaving the question last asked drops none that there was room for. *)
LEMMA PastCurrentQuestionOnward ==
  ASSUME NEW e \in EngineState, Counted(e), InAQuestion(e),
         e.current = e.questionsAsked - 1, NEW l \in Int
  PROVE  Onward(e, PastCurrentQuestion(e, l), l)
<1> DEFINE following == e.current + 1
           mayOpen   == /\ RoomInTheCount(e, following)
                        /\ HasTimeFor(SecondsToOpenAQuestion, l)
           mayInvite == HasTimeFor(SecondsForCandidateQuestions, l)
<1>1. following = e.questionsAsked /\ e.questionsAsked \in Nat /\ e.endReason = None
  BY DEF EngineState, Counted, InAQuestion
<1>2. CASE mayOpen
  <2>1. PastCurrentQuestion(e, l) = [e EXCEPT !.state = "question",
                                              !.current = following,
                                              !.awaiting = FALSE]
    BY <1>2 DEF PastCurrentQuestion, ToQuestion
  <2>2. e.questionsAsked < QuestionBudget
    BY <1>2 DEF RoomInTheCount
  <2>3. ~OutOfTime(l)
    BY <1>2, Reserves
  <2> QED
    BY <1>1, <2>1, <2>2, <2>3
       DEF Onward, Counted, EngineState, Leaving, None, EndReasons
<1>3. CASE ~mayOpen /\ mayInvite
  <2>1. PastCurrentQuestion(e, l) = [e EXCEPT !.state = "candidate_questions",
                                              !.current = NoQuestion,
                                              !.awaiting = FALSE]
    BY <1>3 DEF PastCurrentQuestion
  <2>2. ~OutOfTime(l)
    BY <1>3, Reserves
  <2>3. QuestionsLeft(e) => ~HasTimeFor(SecondsToOpenAQuestion, l)
    BY <1>1, <1>3 DEF QuestionsLeft, RoomInTheCount
  <2> QED
    BY <1>1, <2>1, <2>2, <2>3
       DEF Onward, Counted, EngineState, QuestionsLeft, None, EndReasons
<1>4. CASE ~mayOpen /\ ~mayInvite
  <2> DEFINE reason == IF OutOfTime(l) THEN "out_of_time" ELSE NaturalReason(e)
  <2>1. reason \in EndReasons
    BY NaturalReasonType DEF EndReasons
  <2>2. PastCurrentQuestion(e, l) = ToWrapUp(e, reason)
    BY <1>4 DEF PastCurrentQuestion
  <2>3. ~HasTimeFor(SecondsToOpenAQuestion, l)
    BY <1>4, Reserves
  <2> HIDE DEF reason
  <2> QED
    BY <1>4, <2>1, <2>2, <2>3, ToWrapUpCounts DEF Onward
<1> QED
  BY <1>2, <1>3, <1>4

(* The question an answer is in for is the last one asked. *)
LEMMA AnswerIsToTheLast ==
  ASSUME NEW e \in EngineState, Counted(e), WellPlaced(e), AnswerIsIn(e)
  PROVE  InAQuestion(e) /\ e.current = e.questionsAsked - 1
<1>1. e.questionsAsked \in Nat /\ InAQuestion(e) /\ e.current \in Positions
  BY DEF EngineState, AnswerIsIn, InAQuestion, WellPlaced
<1>2. e.current \in Int
  BY <1>1, BundleAssumption DEF Positions
<1> QED
  BY <1>1, <1>2 DEF Counted, AnswerIsIn

(* Planning again from where an answer, or a question of the candidate's,  *)
(* leaves the engine moves it onward or not at all.                        *)
LEMMA SettledOnward ==
  ASSUME NEW e \in EngineState, Counted(e), WellPlaced(e), ~Resting(e), NEW l \in Int
  PROVE  /\ Settled(e, l) = e \/ Onward(e, Settled(e, l), l)
         /\ AnswerIsIn(e) /\ OutOfTime(l) => Onward(e, Settled(e, l), l)
         /\ e.state = "candidate_questions" /\ e.pending /\ OutOfTime(l) =>
              Onward(e, Settled(e, l), l)
         /\ e.state \in {"intro", "wrap_up"} => Settled(e, l) = e
<1> DEFINE moves  == AnswerIsIn(e) /\ ~ProbeIsDue(e, l)
           closes == e.state = "candidate_questions" /\ e.pending /\ OutOfTime(l)
<1>1. AnswerIsIn(e) /\ OutOfTime(l) => moves
  BY DEF ProbeIsDue, OutOfTime, HasTimeFor, SecondsForAFollowUp
<1>2. /\ AnswerIsIn(e) => e.state \in {"question", "follow_up"}
      /\ ~(AnswerIsIn(e) /\ e.state = "candidate_questions")
  BY DEF AnswerIsIn
<1>3. CASE moves
  <2>1. Settled(e, l) = PastCurrentQuestion(e, l)
    BY <1>2, <1>3 DEF Settled
  <2> QED
    BY <1>2, <1>3, <2>1, AnswerIsToTheLast, PastCurrentQuestionOnward
<1>4. CASE ~moves /\ closes
  <2> DEFINE f == [e EXCEPT !.pending = FALSE]
  <2>1. f \in EngineState /\ Counted(f) /\ f.questionsAsked = e.questionsAsked
    BY DEF EngineState, Counted
  <2>2. Settled(e, l) = ToWrapUp(f, NaturalReason(e))
    BY <1>4 DEF Settled, AnswerIsIn
  <2> HIDE DEF f
  <2>3. NaturalReason(e) \in EndReasons
    BY NaturalReasonType
  <2>4. Onward(e, Settled(e, l), l)
    BY <1>4, <2>1, <2>2, <2>3, ToWrapUpCounts, Reserves DEF Onward
  <2> QED
    BY <1>2, <1>4, <2>4
<1>5. CASE ~moves /\ ~closes
  <2>1. Settled(e, l) = e
    BY <1>5 DEF Settled
  <2> QED
    BY <1>1, <1>5, <2>1
<1> HIDE DEF moves, closes
<1> QED
  BY <1>3, <1>4, <1>5

-----------------------------------------------------------------------------
(* A turn spoken.                                                          *)

(* What planning gives the speaking actions, of the count and the clock. *)
LEMMA PlannedCounts ==
  ASSUME KInv, Planning
  PROVE  /\ Planned \in EngineState /\ WellPlaced(Planned) /\ Counted(Planned)
         /\ asOf \in Int /\ Planned.nextSeq = engine.nextSeq
         /\ Planned.questionsAsked = engine.questionsAsked
         /\ Planned.state # "ended"
         /\ Planned.state = "intro" <=> engine.state = "intro"
         /\ engine.state = "wrap_up" => Planned.state = "wrap_up"
         /\ Planned.endReason = "out_of_time" =>
              ~HasTimeFor(SecondsForCandidateQuestions, asOf)
         /\ OutOfTime(asOf) => Planned.state \in {"intro", "wrap_up"}
         /\ (InAQuestion(stored) \/ stored.state = "intro")
              /\ Leaving(Planned) /\ QuestionsLeft(Planned) =>
              \/ ~HasTimeFor(SecondsToOpenAQuestion, asOf)
              \/ Planned.endReason = "candidate_ended"
<1>1. /\ Planned \in EngineState /\ WellPlaced(Planned) /\ Moved(engine, Planned)
      /\ asOf \in Int /\ Planned.nextSeq = engine.nextSeq
  BY PlannedMoves, ReadingsAssumption DEF KInv, IInv, TypeOK, Moved
<1>2. engine \in EngineState /\ WellPlaced(engine) /\ Counted(engine) /\ ~Resting(engine)
  BY DEF KInv, IInv, TypeOK, Planning
<1>3. InTime(stored, engine, asOf)
  BY DEF KInv, Underway, Planning
<1>4. /\ Planned = engine \/ Onward(engine, Planned, asOf)
      /\ engine.state \in {"intro", "wrap_up"} => Planned = engine
  BY <1>1, <1>2, SettledOnward DEF Planned
<1>5. Planned.state \in {"intro", "wrap_up"} \/ ~OutOfTime(asOf)
  BY <1>2, <1>3, <1>4 DEF InTime, Planned
<1>6. engine.state # "ended"
  BY <1>2 DEF Resting
<1>7. CASE Planned = engine
  BY <1>1, <1>2, <1>3, <1>5, <1>6, <1>7 DEF InTime
<1>8. CASE Planned # engine
  BY <1>1, <1>4, <1>5, <1>8 DEF Onward
<1> QED
  BY <1>7, <1>8

(* A turn spoken from there keeps the invariant. *)
LEMMA SpokeKeeps ==
  ASSUME KInv, Planning, NEW said \in Turn, NEW after \in EngineState,
         Speak(said, after), IInv',
         said.seq = Planned.nextSeq, said.speaker = "interviewer",
         after.nextSeq = Planned.nextSeq + 1,
         after.state = "ended" <=> said.state = "wrap_up",
         Planned.state = "wrap_up" => after.state = "ended",
         after.state # "intro",
         Resting(after) <=> Planned.state # "intro",
         Counted(after), InTime(stored, after, asOf)
  PROVE  KInv'
<1>1. /\ engine \in EngineState /\ ~Resting(engine) /\ Planned.nextSeq = engine.nextSeq
      /\ Planned.state = "intro" <=> engine.state = "intro"
      /\ engine.state = "wrap_up" => Planned.state = "wrap_up"
  BY PlannedCounts DEF KInv, IInv, TypeOK, Planning
<1>2. Closed(transcript \cup turns, engine)'
  <2>1. engine.state # "ended"
    BY <1>1 DEF Resting
  <2>2. Said(transcript \cup turns, "wrap_up") = {}
    BY <2>1 DEF KInv, Closed
  <2>3. transcript' \cup turns' = (transcript \cup turns) \cup {said} /\ engine' = after
    BY DEF Speak
  <2>4. Said(transcript' \cup turns', "wrap_up")
          = IF said.state = "wrap_up" THEN {said} ELSE {}
    BY <2>2, <2>3 DEF Said
  <2>5. said.seq = after.nextSeq - 1
    BY <1>1 DEF EngineState
  <2> QED
    BY <2>3, <2>4, <2>5 DEF Closed
<1>3. Underway'
  <2>1. PICK a \in Abstract!Actions : Answers(stored, engine, a)
    BY DEF KInv, Underway, Planning
  <2>2. TurnsToCome(engine) = IF engine.state = "intro" THEN 2 ELSE 1
    BY <1>1 DEF TurnsToCome
  <2>3. TurnsToCome(after) = IF Planned.state = "intro" THEN 1 ELSE 0
    BY DEF TurnsToCome
  <2>4. after.nextSeq + TurnsToCome(after) = engine.nextSeq + TurnsToCome(engine)
    BY <1>1, <2>2, <2>3 DEF EngineState
  <2>5. a = "end" => after.state \in {"wrap_up", "ended"}
    BY <1>1, <2>1 DEF Answers, Resting
  <2>6. Answers(stored, after, a)
    BY <2>1, <2>4, <2>5 DEF Answers
  <2>7. stored' = stored /\ engine' = after /\ asOf' = asOf
    BY DEF Speak
  <2> QED
    BY <2>6, <2>7 DEF Underway
<1>4. /\ Counted(engine)' /\ Counted(FromSnapshot(stored))'
      /\ Closed(transcript, FromSnapshot(stored))'
  BY DEF Speak, KInv
<1> QED
  BY <1>2, <1>3, <1>4 DEF KInv

(* The greeting is on the way to the first question, or to the close. *)
LEMMA SpeakIntroGoesOn == KInv /\ SpeakIntro => KInv'
<1> SUFFICES ASSUME KInv, SpeakIntro PROVE KInv'
  OBVIOUS
<1> DEFINE said  == Says(Planned, "intro", NoQuestion, NoProbe)
           s     == Spoken(Planned)
           after == AfterIntro(Planned, asOf)
<1>1. /\ Planning /\ Planned.state = "intro" /\ Speak(said, after) /\ IInv'
  BY SpeakIntroKeeps DEF SpeakIntro, KInv
<1>2. /\ Planned \in EngineState /\ WellPlaced(Planned) /\ Counted(Planned) /\ asOf \in Int
  BY <1>1, PlannedCounts
<1>3. said \in Turn /\ said.seq = Planned.nextSeq /\ said.speaker = "interviewer"
      /\ said.state = "intro"
  BY <1>2, TurnTypes DEF Says, States, NoProbe
<1>4. /\ s \in EngineState /\ Counted(s) /\ s.nextSeq = Planned.nextSeq + 1
      /\ s.endReason = None /\ s.questionsAsked = 0 /\ s.state = "intro"
  <2>1. /\ s \in EngineState /\ s = [Planned EXCEPT !.nextSeq = Planned.nextSeq + 1]
    BY <1>2, SpokenType
  <2>2. /\ s.state = "intro" /\ s.questionsAsked = Planned.questionsAsked
        /\ s.endReason = Planned.endReason /\ s.progress = Planned.progress
        /\ s.nextSeq = Planned.nextSeq + 1
    BY <1>1, <1>2, <2>1 DEF EngineState
  <2> QED
    BY <1>1, <1>2, <2>1, <2>2 DEF Counted
<1> HIDE DEF s
<1>5. /\ "questions_done" \in EndReasons /\ "out_of_time" \in EndReasons
      /\ "candidate_ended" # None /\ "questions_done" # "out_of_time"
  BY DEF EndReasons, None
<1>6. /\ after \in EngineState /\ ~after.awaiting /\ after.nextSeq = Planned.nextSeq + 1
  BY <1>1, <1>2, AfterIntroAdvances DEF Speak, IInv, TypeOK, AfterIntro, Opening,
     ToWrapUp, ToQuestion, Spoken, EngineState, Advanced, WellPlaced
<1>7. /\ after.state \in {"question", "wrap_up"} /\ Counted(after)
      /\ InTime(stored, after, asOf)
  <2>1. CASE NumQuestions = 0
    <3>1. after = ToWrapUp(s, "questions_done")
      BY <2>1 DEF AfterIntro, Opening, s
    <3>2. ~QuestionsLeft(after)
      BY <2>1, <1>4, <1>5, <3>1, ToWrapUpCounts DEF QuestionsLeft
    <3>3. Settled(after, asOf) = after
      BY <1>4, <1>5, <3>1, ToWrapUpCounts DEF Settled, AnswerIsIn
    <3> QED
      BY <1>4, <1>5, <1>6, <3>1, <3>2, <3>3, ToWrapUpCounts DEF InTime, Resting
  <2>2. CASE NumQuestions # 0 /\ OutOfTime(asOf)
    <3>1. after = ToWrapUp(s, "out_of_time")
      BY <2>2 DEF AfterIntro, Opening, s
    <3>2. Settled(after, asOf) = after
      BY <1>4, <1>5, <3>1, ToWrapUpCounts DEF Settled, AnswerIsIn
    <3> QED
      BY <1>2, <1>4, <1>5, <1>6, <2>2, <3>1, <3>2, ToWrapUpCounts, Reserves
         DEF InTime, Resting
  <2>3. CASE NumQuestions # 0 /\ ~OutOfTime(asOf)
    <3>1. after = ToQuestion(s, 0)
      BY <2>3 DEF AfterIntro, Opening, s
    <3>2. /\ after.state = "question" /\ after.current = 0 /\ after.endReason = None
          /\ after.questionsAsked = 0 /\ after.progress = s.progress
      BY <1>4, <3>1 DEF ToQuestion, EngineState
    <3>3. Counted(after)
      BY <1>4, <3>2, BundleAssumption DEF Counted
    <3> QED
      BY <2>3, <3>2, <3>3 DEF InTime, Leaving, None
  <2> QED
    BY <2>1, <2>2, <2>3
<1>8. ~Resting(after)
  BY <1>6, <1>7 DEF Resting
<1> HIDE DEF said, after
<1> QED
  BY <1>1, <1>3, <1>6, <1>7, <1>8, SpokeKeeps

(* Putting a question counts it. *)
LEMMA AskQuestionGoesOn == KInv /\ AskQuestion => KInv'
<1> SUFFICES ASSUME KInv, AskQuestion PROVE KInv'
  OBVIOUS
<1> DEFINE said  == Says(Planned, "question", Planned.current, NoProbe)
           after == AfterQuestion(Planned)
           p     == Planned
<1>1. /\ Planning /\ p.state = "question" /\ ~p.progress[p.current].asked
      /\ Speak(said, after) /\ IInv'
  BY AskQuestionKeeps DEF AskQuestion, KInv
<1>2. /\ p \in EngineState /\ WellPlaced(p) /\ Counted(p) /\ asOf \in Int
      /\ ~OutOfTime(asOf) /\ p.endReason = None /\ p.current \in Positions
  BY <1>1, PlannedCounts DEF Counted, WellPlaced, InAQuestion
<1>3. said \in Turn /\ said.seq = Planned.nextSeq /\ said.speaker = "interviewer"
      /\ said.state = "question"
  BY <1>2, TurnTypes DEF Says, States, NoProbe, EngineState
<1>4. /\ after \in EngineState /\ after.nextSeq = p.nextSeq + 1
      /\ after.progress[after.current].asked
      /\ \A q \in Positions \ {p.current} : after.progress[q] = p.progress[q]
  BY <1>1, <1>2, AfterQuestionAdvances DEF Advanced
<1>5. /\ after.state = "question" /\ after.current = p.current /\ after.awaiting
      /\ after.questionsAsked = p.questionsAsked + 1 /\ after.endReason = None
  BY <1>1, <1>2 DEF AfterQuestion, Spoken, EngineState
<1>6. p.current = p.questionsAsked /\ p.questionsAsked \in Nat
  <2>1. p.current \in Int /\ p.questionsAsked \in Nat
    BY <1>2, BundleAssumption DEF Positions, EngineState
  <2> QED
    BY <1>1, <1>2, <2>1 DEF Counted
<1>7. Counted(after)
  <2>1. ASSUME NEW q \in Positions
        PROVE  after.progress[q].asked <=> q < after.questionsAsked
    <3>1. q \in Int
      BY BundleAssumption DEF Positions
    <3>2. CASE q = p.current
      BY <1>4, <1>5, <1>6, <3>1, <3>2
    <3>3. CASE q # p.current
      <4>1. after.progress[q].asked <=> q < p.questionsAsked
        BY <1>2, <1>4, <3>3 DEF Counted
      <4> QED
        BY <1>5, <1>6, <3>1, <3>3, <4>1
    <3> QED
      BY <3>2, <3>3
  <2> HIDE DEF after
  <2> QED
    BY <1>5, <1>6, <2>1 DEF Counted, None
<1>8. InTime(stored, after, asOf) /\ Resting(after)
  BY <1>2, <1>5 DEF InTime, Leaving, Resting, None
<1> HIDE DEF said, after
<1> QED
  BY <1>1, <1>3, <1>4, <1>5, <1>8, <1>7, SpokeKeeps

(* A follow-up stays on the question it is about. *)
LEMMA AskFollowUpGoesOn == KInv /\ AskFollowUp => KInv'
<1> SUFFICES ASSUME KInv, AskFollowUp PROVE KInv'
  OBVIOUS
<1> DEFINE p     == Planned
           entry == p.progress[p.current]
           probe == ChooseProbe(p.current, entry.probesAsked, entry.probesCovered)
           said  == Says(p, "follow_up", p.current, probe)
           after == AfterFollowUp(p, probe)
<1>1. /\ Planning /\ AnswerIsIn(p) /\ Speak(said, after) /\ IInv'
  BY AskFollowUpKeeps DEF AskFollowUp, KInv
<1>2. /\ p \in EngineState /\ WellPlaced(p) /\ Counted(p) /\ asOf \in Int
      /\ InAQuestion(p) /\ p.current \in Positions /\ p.current = p.questionsAsked - 1
      /\ CanProbe(p.current, entry.probesAsked, entry.probesCovered)
  BY <1>1, PlannedCounts, AnswerIsToTheLast DEF WellPlaced, AskFollowUp, ProbeIsDue
<1>3. ~OutOfTime(asOf) /\ p.endReason = None /\ p.state \notin {"intro", "wrap_up"}
  BY <1>1, <1>2, PlannedCounts DEF Counted, InAQuestion
<1>4. probe \in Nat
  BY <1>2, ChosenProbe
<1> HIDE DEF probe
<1>5. said \in Turn /\ said.seq = p.nextSeq /\ said.speaker = "interviewer"
      /\ said.state = "follow_up"
  BY <1>2, <1>4, TurnTypes DEF Says, States
<1>6. /\ after \in EngineState /\ after.nextSeq = p.nextSeq + 1 /\ after.state = "follow_up"
      /\ \A q \in Positions : after.progress[q].asked = p.progress[q].asked
  BY <1>2, <1>4, AfterFollowUpAdvances DEF Advanced
<1>7. /\ after.current = p.current /\ after.awaiting
      /\ after.questionsAsked = p.questionsAsked /\ after.endReason = None
  BY <1>2, <1>3 DEF AfterFollowUp, Spoken, EngineState
<1>8. Counted(after)
  BY <1>2, <1>6, <1>7 DEF Counted, None
<1>9. InTime(stored, after, asOf) /\ Resting(after)
  BY <1>3, <1>6, <1>7 DEF InTime, Leaving, Resting, None
<1> HIDE DEF said, after
<1> QED
  BY <1>1, <1>3, <1>5, <1>6, <1>8, <1>9, SpokeKeeps

(* The invitation, and a reply to the candidate, leave the close to come. *)
LEMMA CandidateQuestionsGoOn ==
  KInv /\ (InviteCandidateQuestions \/ AnswerCandidateQuestion) => KInv'
<1> SUFFICES ASSUME KInv, NEW after,
                    \/ InviteCandidateQuestions /\ after = AfterInvitation(Planned)
                    \/ /\ AnswerCandidateQuestion
                       /\ after = AfterCandidateQuestion(Planned)
             PROVE  KInv'
  OBVIOUS
<1> DEFINE p    == Planned
           said == Says(Planned, "candidate_questions", NoQuestion, NoProbe)
<1>1. /\ Planning /\ p.state = "candidate_questions" /\ Speak(said, after) /\ IInv'
      /\ InviteCandidateQuestions => ~p.pending
  BY CandidateQuestionsKeep DEF InviteCandidateQuestions, AnswerCandidateQuestion, KInv
<1>2. p \in EngineState /\ WellPlaced(p) /\ Counted(p) /\ ~OutOfTime(asOf)
      /\ p.endReason = None
  BY <1>1, PlannedCounts DEF Counted
<1>3. said \in Turn /\ said.seq = Planned.nextSeq /\ said.speaker = "interviewer"
      /\ said.state = "candidate_questions"
  BY <1>2, TurnTypes DEF Says, States, NoProbe
<1>4. after \in EngineState /\ after.nextSeq = p.nextSeq + 1 /\ after.progress = p.progress
  BY <1>1, <1>2, CandidateQuestionsAdvance DEF Advanced
<1>5. /\ after.state = p.state /\ after.awaiting /\ after.endReason = None
      /\ after.questionsAsked = p.questionsAsked
  BY <1>2 DEF AfterInvitation, AfterCandidateQuestion, Spoken, EngineState
<1>6. Counted(after)
  BY <1>1, <1>2, <1>4, <1>5 DEF Counted, None
<1>7. InTime(stored, after, asOf)
  BY <1>1, <1>2, <1>5, PlannedCounts DEF InTime, Leaving, QuestionsLeft, None
<1>8. Resting(after)
  BY <1>5 DEF Resting
<1> HIDE DEF said
<1> QED
  BY <1>1, <1>3, <1>4, <1>5, <1>6, <1>7, <1>8, SpokeKeeps

(* The close ends the session for the reason it was turned to. *)
LEMMA SpeakWrapUpGoesOn == KInv /\ SpeakWrapUp => KInv'
<1> SUFFICES ASSUME KInv, SpeakWrapUp PROVE KInv'
  OBVIOUS
<1> DEFINE p     == Planned
           said  == Says(Planned, "wrap_up", NoQuestion, NoProbe)
           after == AfterWrapUp(Planned)
<1>1. Planning /\ p.state = "wrap_up" /\ Speak(said, after) /\ IInv'
  BY SpeakWrapUpKeeps DEF SpeakWrapUp, KInv
<1>2. p \in EngineState /\ WellPlaced(p) /\ Counted(p) /\ p.endReason # None
  BY <1>1, PlannedCounts DEF Counted
<1>3. said \in Turn /\ said.seq = Planned.nextSeq /\ said.speaker = "interviewer"
      /\ said.state = "wrap_up"
  BY <1>2, TurnTypes DEF Says, States, NoProbe
<1>4. /\ after \in EngineState /\ after.nextSeq = p.nextSeq + 1
      /\ after.progress = p.progress /\ after.state = "ended"
  BY <1>1, <1>2, AfterWrapUpAdvances DEF Advanced
<1>5. after.endReason = p.endReason /\ after.questionsAsked = p.questionsAsked
  BY <1>2 DEF AfterWrapUp, Spoken, EngineState
<1>6. Counted(after)
  BY <1>1, <1>2, <1>4, <1>5 DEF Counted
<1>7. InTime(stored, after, asOf) /\ Resting(after)
  BY <1>1, <1>4, <1>5, PlannedCounts DEF InTime, Leaving, QuestionsLeft, Resting
<1> HIDE DEF said, after
<1> QED
  BY <1>1, <1>3, <1>4, <1>6, <1>7, SpokeKeeps

-----------------------------------------------------------------------------
(* What the candidate did, taken in.                                       *)

(* Between exchanges the engine is what is stored. *)
LEMMA IdleEngine ==
  ASSUME KInv, phase = "idle"
  PROVE  /\ engine = FromSnapshot(stored) /\ turns = {}
         /\ engine.state = stored.state /\ engine.nextSeq = stored.nextSeq
         /\ engine \in EngineState /\ WellPlaced(engine) /\ Counted(engine)
         /\ engine.nextSeq \in Nat /\ left \in Int
BY ReadingsAssumption DEF KInv, IInv, TypeOK, FromSnapshot, EngineState

(* A request that leaves the engine with a turn to speak starts an exchange. *)
LEMMA ReceiveGoesOn ==
  ASSUME KInv, NEW moved \in EngineState, NEW heard,
         Receive(moved, heard), IInv', Counted(moved), ~Resting(moved),
         \A t \in heard : t.speaker = "candidate",
         engine.state # "ended",
         InTime(stored, moved, left),
         NEW a \in Abstract!Actions, Answers(stored, moved, a)
  PROVE  KInv'
<1>1. engine = FromSnapshot(stored) /\ turns = {}
  BY IdleEngine DEF Receive
<1>2. /\ engine' = moved /\ turns' = heard /\ asOf' = left
      /\ stored' = stored /\ transcript' = transcript
  BY DEF Receive
<1>3. Closed(transcript \cup turns, engine)'
  <2>1. Said(transcript, "wrap_up") = {}
    BY <1>1 DEF KInv, Closed
  <2>2. Said(transcript \cup heard, "wrap_up") = {}
    BY <2>1 DEF Said
  <2> QED
    BY <1>2, <2>2 DEF Closed, Resting
<1>4. Underway'
  BY <1>2 DEF Underway
<1> QED
  BY <1>2, <1>3, <1>4 DEF KInv

(* A start is greeted and asked the first question. *)
LEMMA ReceiveStartGoesOn == KInv /\ ReceiveStart => KInv'
<1> SUFFICES ASSUME KInv, ReceiveStart PROVE KInv'
  OBVIOUS
<1> DEFINE moved == Start(engine)
<1>1. /\ engine \in EngineState /\ engine.state = "intro" /\ stored.state = "intro"
      /\ Counted(engine) /\ engine.nextSeq = stored.nextSeq
      /\ engine.nextSeq \in Nat /\ left \in Int
      /\ Receive(moved, {}) /\ IInv'
  BY IdleEngine, ReceiveStartKeeps DEF ReceiveStart, Receive, CanStart, KInv
<1>2. /\ moved \in EngineState /\ moved.state = "intro" /\ ~moved.awaiting
      /\ moved.nextSeq = engine.nextSeq /\ moved.endReason = engine.endReason
      /\ moved.progress = engine.progress /\ moved.questionsAsked = engine.questionsAsked
  BY <1>1 DEF Start, EngineState
<1> HIDE DEF moved
<1>3. Counted(moved) /\ ~Resting(moved) /\ moved.endReason = None
  BY <1>1, <1>2 DEF Counted, Resting
<1>4. InTime(stored, moved, left)
  BY <1>2, <1>3 DEF InTime, Leaving, None
<1>5. Answers(stored, moved, "start") /\ "start" \in Abstract!Actions
  BY <1>1, <1>2, <1>3
     DEF Answers, TurnsToCome, StageOf, Abstract!Takes, Abstract!TurnsOf, Abstract!Actions
<1> QED
  BY <1>1, <1>2, <1>3, <1>4, <1>5, ReceiveGoesOn

(* An answer is replied to; past the deadline the reply is the close. *)
LEMMA ReceiveAnswerGoesOn == KInv /\ ReceiveAnswer => KInv'
<1> SUFFICES ASSUME KInv, ReceiveAnswer PROVE KInv'
  OBVIOUS
<1>1. PICK answered \in SUBSET ProbesToJudge(engine, left) :
        Receive(TakeAnswer(engine, answered), {CandidateTurn(engine, answered)})
  BY DEF ReceiveAnswer
<1> DEFINE moved == TakeAnswer(engine, answered)
           said  == CandidateTurn(engine, answered)
<1>2. /\ engine \in EngineState /\ WellPlaced(engine) /\ Counted(engine)
      /\ engine.state = stored.state /\ engine.nextSeq = stored.nextSeq
      /\ engine.nextSeq \in Nat /\ left \in Int /\ engine.awaiting
      /\ engine.state \in {"question", "follow_up", "candidate_questions"}
      /\ IInv'
  <2>1. engine.state \in States
    BY <1>1, IdleEngine DEF Receive, EngineState
  <2> QED
    BY <1>1, <2>1, IdleEngine, ReceiveAnswerKeeps DEF ReceiveAnswer, Receive, CanAnswer, KInv, States
<1>3. answered \in SUBSET Nat
  <2>1. InAQuestion(engine) => engine.current \in Positions
    BY <1>2 DEF WellPlaced
  <2> QED
    BY <2>1, ProbesAreNat DEF ProbesToJudge, ProbesInPlay
<1>4. /\ moved \in EngineState /\ WellPlaced(moved) /\ moved.nextSeq = engine.nextSeq + 1
      /\ moved.state = engine.state /\ moved.current = engine.current
      /\ \A q \in Positions : moved.progress[q].asked = engine.progress[q].asked
  BY <1>2, <1>3, TakeAnswerAdvances DEF Advanced
<1>5. /\ ~moved.awaiting /\ moved.endReason = engine.endReason
      /\ moved.questionsAsked = engine.questionsAsked
      /\ engine.state = "candidate_questions" => moved.pending
  BY <1>2 DEF TakeAnswer, EngineState
<1>6. \A t \in {said} : t.speaker = "candidate"
  BY DEF CandidateTurn
<1>7. Receive(moved, {said})
  BY <1>1
<1> HIDE DEF moved, said
<1>8. Counted(moved) /\ ~Resting(moved) /\ moved.endReason = None
  BY <1>2, <1>4, <1>5 DEF Counted, Resting
<1>9. OutOfTime(left) => Settled(moved, left).state = "wrap_up"
  <2>1. engine.state # "candidate_questions" => AnswerIsIn(moved)
    BY <1>2, <1>4 DEF AnswerIsIn, WellPlaced, InAQuestion
  <2> QED
    BY <1>2, <1>4, <1>5, <1>8, <2>1, SettledOnward DEF Onward
<1>10. InTime(stored, moved, left)
  BY <1>2, <1>4, <1>8, <1>9 DEF InTime, InAQuestion, Leaving, None
<1>11. Answers(stored, moved, "answer") /\ "answer" \in Abstract!Actions
  BY <1>2, <1>4, <1>8
     DEF Answers, TurnsToCome, StageOf, Abstract!Takes, Abstract!TurnsOf, Abstract!Actions
<1> QED
  BY <1>2, <1>4, <1>6, <1>7, <1>8, <1>10, <1>11, ReceiveGoesOn

(* A skip moves past the question, or to the close. *)
LEMMA ReceiveSkipGoesOn == KInv /\ ReceiveSkip => KInv'
<1> SUFFICES ASSUME KInv, ReceiveSkip PROVE KInv'
  OBVIOUS
<1> DEFINE f     == [engine EXCEPT !.awaiting = FALSE]
           moved == Skip(engine, left)
<1>1. /\ engine \in EngineState /\ WellPlaced(engine) /\ Counted(engine)
      /\ engine.state = stored.state /\ engine.nextSeq = stored.nextSeq
      /\ engine.nextSeq \in Nat /\ left \in Int /\ engine.awaiting
      /\ engine.state \in {"question", "follow_up", "candidate_questions"}
      /\ Receive(moved, {}) /\ IInv'
  BY IdleEngine, ReceiveSkipKeeps DEF ReceiveSkip, Receive, CanSkip, InAQuestion, KInv
<1>2. /\ f \in EngineState /\ Counted(f) /\ ~f.pending
      /\ f.nextSeq = engine.nextSeq /\ f.state = engine.state
      /\ f.current = engine.current /\ f.questionsAsked = engine.questionsAsked
  BY <1>1 DEF EngineState, Counted, WellPlaced
<1>3. moved = IF InAQuestion(engine) THEN PastCurrentQuestion(f, left)
              ELSE ToWrapUp(f, "questions_done")
  BY DEF Skip
<1> HIDE DEF f, moved
<1>4. "questions_done" \in EndReasons
  BY DEF EndReasons
<1>5. moved \in EngineState /\ WellPlaced(moved) /\ ~moved.awaiting
      /\ moved.nextSeq = engine.nextSeq /\ moved.state # "ended"
  BY <1>1, <1>2, <1>3, <1>4, PastCurrentQuestionMoves, ToWrapUpMoves DEF Moved
<1>6. ~Resting(moved)
  BY <1>5 DEF Resting
<1>7. CASE InAQuestion(engine)
  <2>1. InAQuestion(f) /\ f.current = f.questionsAsked - 1
    <3>1. AnswerIsIn(engine)
      BY <1>1, <1>7 DEF AnswerIsIn, WellPlaced, InAQuestion
    <3> QED
      BY <1>1, <1>2, <3>1, AnswerIsToTheLast DEF InAQuestion
  <2>2. Onward(f, moved, left)
    BY <1>1, <1>2, <1>3, <1>7, <2>1, PastCurrentQuestionOnward
  <2>3. moved.state = "wrap_up" => Settled(moved, left) = moved
    BY <1>1, <1>5, <1>6, <2>2, SettledOnward DEF Onward
  <2> QED
    BY <2>2, <2>3, <1>6, <1>5, <1>1, ReceiveGoesOn DEF Onward, InTime, Answers, TurnsToCome, StageOf,
       Abstract!Takes, Abstract!TurnsOf, Abstract!Actions
<1>8. CASE ~InAQuestion(engine)
  <2>1. Counted(moved) /\ moved.state = "wrap_up" /\ moved.endReason # "out_of_time"
    BY <1>2, <1>3, <1>4, <1>8, ToWrapUpCounts
  <2>2. Settled(moved, left) = moved
    BY <1>1, <1>5, <1>6, <2>1, SettledOnward
  <2>3. ~InAQuestion(stored) /\ stored.state # "intro"
    BY <1>1, <1>8 DEF InAQuestion
  <2>4. InTime(stored, moved, left)
    BY <1>6, <2>1, <2>2, <2>3 DEF InTime
  <2>5. Answers(stored, moved, "skip") /\ "skip" \in Abstract!Actions
    BY <1>1, <1>5, <1>6, <2>1
       DEF Answers, TurnsToCome, StageOf, Abstract!Takes, Abstract!TurnsOf, Abstract!Actions
  <2> QED
    BY <1>1, <1>5, <1>6, <2>1, <2>4, <2>5, ReceiveGoesOn
<1> QED
  BY <1>7, <1>8

(* An early end turns to the close, and says who ended. *)
LEMMA ReceiveEndGoesOn == KInv /\ ReceiveEnd => KInv'
<1> SUFFICES ASSUME KInv, ReceiveEnd PROVE KInv'
  OBVIOUS
<1> DEFINE f     == [engine EXCEPT !.awaiting = FALSE]
           moved == EndEarly(engine)
<1>1. /\ engine \in EngineState /\ Counted(engine) /\ ~engine.pending
      /\ engine.state = stored.state /\ engine.nextSeq = stored.nextSeq
      /\ engine.nextSeq \in Nat /\ left \in Int /\ engine.state # "ended"
      /\ Receive(moved, {}) /\ IInv'
  BY IdleEngine, ReceiveEndKeeps DEF ReceiveEnd, Receive, CanEndEarly, KInv, FromSnapshot
<1>2. /\ f \in EngineState /\ Counted(f) /\ ~f.pending /\ f.nextSeq = engine.nextSeq
  BY <1>1 DEF EngineState, Counted
<1>3. moved = ToWrapUp(f, "candidate_ended") /\ "candidate_ended" \in EndReasons
  BY DEF EndEarly, EndReasons
<1> HIDE DEF f, moved
<1>4. moved \in EngineState /\ WellPlaced(moved) /\ ~moved.awaiting
      /\ moved.nextSeq = engine.nextSeq
  BY <1>2, <1>3, ToWrapUpMoves DEF Moved
<1>5. Counted(moved) /\ moved.state = "wrap_up" /\ moved.endReason = "candidate_ended"
  BY <1>2, <1>3, ToWrapUpCounts
<1>6. ~Resting(moved) /\ Settled(moved, left) = moved
  BY <1>1, <1>4, <1>5, SettledOnward DEF Resting
<1>7. InTime(stored, moved, left)
  BY <1>5, <1>6 DEF InTime
<1>8. Answers(stored, moved, "end") /\ "end" \in Abstract!Actions
  BY <1>1, <1>4, <1>5, <1>6
     DEF Answers, TurnsToCome, StageOf, Abstract!Takes, Abstract!TurnsOf, Abstract!Actions
<1> QED
  BY <1>1, <1>4, <1>5, <1>6, <1>7, <1>8, ReceiveGoesOn

-----------------------------------------------------------------------------
(* The other steps.                                                        *)

(* The invariant holds before the first exchange. *)
LEMMA InitKInv == Init => KInv
<1> SUFFICES ASSUME Init PROVE KInv
  OBVIOUS
<1>1. IInv /\ engine = Begin /\ FromSnapshot(stored) = Begin
  BY InitIInv DEF Init, IInv
<1>2. Counted(Begin)
  BY BundleAssumption DEF Counted, Begin, Positions, None
<1>3. Closed({}, Begin)
  BY DEF Closed, Said, Begin
<1> QED
  BY <1>1, <1>2, <1>3 DEF Init, KInv, Underway

(* Storing the exchange keeps it. *)
LEMMA RespondGoesOn == KInv /\ Respond => KInv'
<1> SUFFICES ASSUME KInv, Respond PROVE KInv'
  OBVIOUS
<1>1. IInv' /\ engine' = FromSnapshot(stored') /\ phase' = "idle" /\ turns' = {}
  BY RespondKeeps DEF Respond, KInv
<1>2. engine' = engine
  BY RestIsAtRest, RestoredIsStored DEF Respond, KInv, IInv, TypeOK
<1>3. transcript' = transcript \cup turns /\ transcript' \cup turns' = transcript'
  BY DEF Respond
<1> QED
  BY <1>1, <1>2, <1>3 DEF KInv, Underway

(* So does dropping it, and so does the clock. *)
LEMMA OthersGoOn == KInv /\ (ExchangeFails \/ Tick \/ UNCHANGED vars) => KInv'
<1>1. KInv /\ ExchangeFails => KInv'
  <2> SUFFICES ASSUME KInv, ExchangeFails PROVE KInv'
    OBVIOUS
  <2>1. /\ IInv' /\ engine' = FromSnapshot(stored) /\ turns' = {} /\ phase' = "idle"
        /\ stored' = stored /\ transcript' = transcript
    BY ExchangeFailsKeeps DEF ExchangeFails, KInv
  <2>2. transcript' \cup turns' = transcript
    BY <2>1
  <2> QED
    BY <2>1, <2>2 DEF KInv, Underway
<1>2. KInv /\ (Tick \/ UNCHANGED vars) => KInv'
  <2> SUFFICES ASSUME KInv, Tick \/ UNCHANGED vars PROVE KInv'
    OBVIOUS
  <2>1. IInv' /\ UNCHANGED <<stored, transcript, phase, asOf, engine, turns>>
    BY TickKeeps DEF Tick, vars, KInv
  <2> QED
    BY <2>1 DEF KInv, Underway
<1> QED
  BY <1>1, <1>2

(* Every step keeps the invariant. *)
LEMMA NextGoesOn == KInv /\ [Next]_vars => KInv'
BY ReceiveStartGoesOn, ReceiveAnswerGoesOn, ReceiveSkipGoesOn, ReceiveEndGoesOn,
   SpeakIntroGoesOn, AskQuestionGoesOn, AskFollowUpGoesOn, CandidateQuestionsGoOn,
   SpeakWrapUpGoesOn, RespondGoesOn, OthersGoOn DEF Next

(* The larger inductive invariant holds of every reachable state too. *)
THEOREM ExchangeInvariance == Spec => []KInv
BY InitKInv, NextGoesOn, PTL DEF Spec

(* Only a response changes what is stored, to the engine it was sent from. *)
LEMMA OnlyResponsesStore ==
  ASSUME KInv, Next
  PROVE  \/ UNCHANGED <<stored, transcript>>
         \/ /\ phase = "speaking" /\ Resting(engine)
            /\ stored' = ToSnapshot(engine) /\ transcript' = transcript \cup turns
            /\ engine \in EngineState /\ Counted(engine)
            /\ InTime(stored, engine, asOf)
            /\ \E a \in Abstract!Actions : Answers(stored, engine, a)
            /\ Closed(transcript', engine)
<1>1. CASE Respond
  BY <1>1 DEF Respond, KInv, IInv, TypeOK, Underway
<1>2. CASE ~Respond
  BY <1>2 DEF Next, ReceiveStart, ReceiveAnswer, ReceiveSkip, ReceiveEnd, Receive,
              SpeakIntro, AskQuestion, AskFollowUp, InviteCandidateQuestions,
              AnswerCandidateQuestion, SpeakWrapUp, Speak, ExchangeFails, Tick
<1> QED
  BY <1>1, <1>2

(* However an interview ends, it ends once: the close is the last turn     *)
(* stored, exactly the ended have one, and nothing is written after it.    *)
THEOREM OneEnd == Spec => EndsForGood
<1>1. KInv => ClosesOnce
  BY DEF KInv, ClosesOnce, Closed, Counted, FromSnapshot
<1>2. KInv /\ [Next]_vars => [stored.state = "ended" => UNCHANGED <<stored, transcript>>]_vars
  <2> SUFFICES ASSUME KInv, Next, stored.state = "ended"
               PROVE  UNCHANGED <<stored, transcript>>
    BY DEF vars
  <2>1. phase # "speaking"
    BY DEF KInv, IInv
  <2> QED
    BY <2>1, OnlyResponsesStore
<1>3. ClosesOnce' /\ [stored.state = "ended" => UNCHANGED <<stored, transcript>>]_vars =>
        [/\ ClosesOnce'
         /\ stored.state = "ended" => UNCHANGED <<stored, transcript>>]_vars
  OBVIOUS
<1> QED
  BY <1>1, <1>2, <1>3, ExchangeInvariance, PTL DEF Spec, EndsForGood

(* Past the deadline an exchange ends the session whatever the candidate   *)
(* did, and the clock is given as the reason only when it was one.         *)
THEOREM ClockObeyed == Spec => ClockIsObeyed
<1>1. KInv /\ [Next]_vars =>
        [Stores =>
           /\ OutOfTime(asOf) => stored'.state = "ended"
           /\ stored'.endReason = "out_of_time" =>
                ~HasTimeFor(SecondsForCandidateQuestions, asOf)]_vars
  <2> SUFFICES ASSUME KInv, Next, Stores
               PROVE  /\ OutOfTime(asOf) => stored'.state = "ended"
                      /\ stored'.endReason = "out_of_time" =>
                           ~HasTimeFor(SecondsForCandidateQuestions, asOf)
    OBVIOUS
  <2>1. Resting(engine) /\ stored' = ToSnapshot(engine) /\ InTime(stored, engine, asOf)
    BY OnlyResponsesStore DEF Stores
  <2>2. stored'.state = engine.state /\ stored'.endReason = engine.endReason
    BY <2>1 DEF ToSnapshot
  <2> QED
    BY <2>1, <2>2 DEF InTime
<1> QED
  BY <1>1, ExchangeInvariance, PTL DEF Spec, ClockIsObeyed

(* No question is left unasked but for want of time or by the candidate.   *)
THEOREM NoneDropped == Spec => NoQuestionIsDropped
<1> DEFINE Dropped == /\ Stores
                      /\ InAQuestion(stored) \/ stored.state = "intro"
                      /\ stored'.state \in {"candidate_questions", "ended"}
                      /\ stored'.questionsAsked < QuestionBudget
                      /\ stored'.questionsAsked < NumQuestions
           Excused == \/ ~HasTimeFor(SecondsToOpenAQuestion, asOf)
                      \/ stored'.endReason = "candidate_ended"
<1>1. KInv /\ [Next]_vars => [Dropped => Excused]_vars
  <2> SUFFICES ASSUME KInv, Next, Dropped
               PROVE  Excused
    OBVIOUS
  <2>1. Resting(engine) /\ stored' = ToSnapshot(engine) /\ InTime(stored, engine, asOf)
    BY OnlyResponsesStore DEF Stores
  <2>2. /\ stored'.state = engine.state /\ stored'.endReason = engine.endReason
        /\ stored'.questionsAsked = engine.questionsAsked
    BY <2>1 DEF ToSnapshot
  <2> QED
    BY <2>1, <2>2 DEF InTime, Leaving, QuestionsLeft
<1> QED
  BY <1>1, ExchangeInvariance, PTL DEF Spec, NoQuestionIsDropped

(* An exchange under way has a turn to speak as long as it neither waits   *)
(* nor has ended: plan() is never at a loss, whatever the model found,     *)
(* the clock reads and the bundle holds; and it has at most two turns to   *)
(* speak or to have heard in all.  (_speak_until_waiting is a loop with no *)
(* bound of its own, and plan() plans again after moving on.)              *)
HasSomethingToSay ==
  \/ Planned.state \in {"intro", "candidate_questions", "wrap_up"}
  \/ Planned.state = "question" /\ ~Planned.progress[Planned.current].asked
  \/ AnswerIsIn(Planned) /\ ProbeIsDue(Planned, asOf)

SpeakingEnds ==
  phase = "speaking" =>
    /\ ~Resting(engine) => HasSomethingToSay
    /\ engine.nextSeq + TurnsToCome(engine) \in {stored.nextSeq + 1, stored.nextSeq + 2}

(* A question moved on to has not been put.                                *)
LEMMA NextQuestionIsNew ==
  ASSUME NEW e \in EngineState, Counted(e), InAQuestion(e),
         e.current = e.questionsAsked - 1, NEW l \in Int,
         PastCurrentQuestion(e, l).state = "question"
  PROVE  LET f == PastCurrentQuestion(e, l) IN ~f.progress[f.current].asked
<1> DEFINE following == e.current + 1
<1>1. following = e.questionsAsked /\ e.questionsAsked \in Nat
  BY DEF EngineState
<1>2. ~(RoomInTheCount(e, following) /\ HasTimeFor(SecondsToOpenAQuestion, l)) =>
        PastCurrentQuestion(e, l).state # "question"
  BY DEF PastCurrentQuestion, ToWrapUp, EngineState
<1>3. RoomInTheCount(e, following) /\ HasTimeFor(SecondsToOpenAQuestion, l)
  BY <1>2
<1>4. PastCurrentQuestion(e, l) = [e EXCEPT !.state = "question", !.current = following,
                                           !.awaiting = FALSE]
  BY <1>3 DEF PastCurrentQuestion, ToQuestion
<1>5. following \in Positions
  BY <1>1, <1>3, BundleAssumption DEF RoomInTheCount, Positions
<1>6. ~e.progress[following].asked
  BY <1>1, <1>5 DEF Counted
<1>7. QED
  BY <1>4, <1>6 DEF EngineState

(* For any bundle and any readings of the clock, an exchange is never at a *)
(* loss for what to say, and comes to rest after two turns at the most.    *)
THEOREM SpeakingComesToRest == Spec => []SpeakingEnds
<1>1. KInv => SpeakingEnds
  <2> SUFFICES ASSUME KInv, phase = "speaking" PROVE
        /\ ~Resting(engine) => HasSomethingToSay
        /\ engine.nextSeq + TurnsToCome(engine) \in {stored.nextSeq + 1, stored.nextSeq + 2}
    BY DEF SpeakingEnds
  <2>1. engine.nextSeq + TurnsToCome(engine) \in {stored.nextSeq + 1, stored.nextSeq + 2}
    <3>1. PICK a \in Abstract!Actions : Answers(stored, engine, a)
      BY DEF KInv, Underway
    <3>2. Abstract!TurnsOf(a) \in {1, 2}
      BY DEF Abstract!TurnsOf, Abstract!Actions
    <3>3. QED
      BY <3>1, <3>2 DEF Answers
  <2>2. ASSUME ~Resting(engine) PROVE HasSomethingToSay
    <3>1. Planning
      BY <2>2 DEF Planning
    <3>2. /\ engine \in EngineState /\ Counted(engine) /\ WellPlaced(engine)
          /\ asOf \in Int /\ Planned.state # "ended" /\ Planned \in EngineState
      BY <3>1, PlannedCounts DEF KInv, IInv, TypeOK
    <3>3. CASE AnswerIsIn(engine) /\ ~ProbeIsDue(engine, asOf)
      <4>1. Planned = PastCurrentQuestion(engine, asOf)
        BY <3>3 DEF Planned, Settled, AnswerIsIn
      <4>2. InAQuestion(engine) /\ engine.current = engine.questionsAsked - 1
        BY <3>2, <3>3, AnswerIsToTheLast
      <4>3. Planned.state \in {"question", "candidate_questions", "wrap_up"}
        BY <3>2, <4>1, <4>2, PastCurrentQuestionOnward DEF Onward
      <4>4. Planned.state = "question" => ~Planned.progress[Planned.current].asked
        BY <3>2, <4>1, <4>2, NextQuestionIsNew
      <4>5. QED
        BY <4>3, <4>4 DEF HasSomethingToSay
    <3>4. CASE ~(AnswerIsIn(engine) /\ ~ProbeIsDue(engine, asOf))
      <4>1. Planned = engine \/ Planned.state = "wrap_up"
        BY <3>2, <3>4 DEF Planned, Settled, ToWrapUp, EngineState
      <4>2. AnswerIsIn(engine) => ProbeIsDue(engine, asOf)
        BY <3>4
      <4>3. engine.state \in States
        BY <3>2 DEF EngineState
      <4>4. CASE Planned = engine
        BY <3>2, <4>2, <4>3, <4>4 DEF HasSomethingToSay, AnswerIsIn, States
      <4>5. CASE Planned.state = "wrap_up"
        BY <4>5 DEF HasSomethingToSay
      <4>6. QED
        BY <4>1, <4>4, <4>5
    <3>5. QED
      BY <3>3, <3>4
  <2>3. QED
    BY <2>1, <2>2
<1> QED
  BY <1>1, ExchangeInvariance, PTL

(* The engine implements the abstract session: what a store sees of it     *)
(* moves by whole exchanges, each adding the turns its action is owed, and *)
(* a failed one moves nothing.                                             *)
THEOREM Implements == Spec => ImplementsSession
<1>1. Init => Abstract!Init
  BY DEF Init, Abstract!Init, Abstract!Beginning, StageOf, ToSnapshot, Begin
<1>2. KInv /\ [Next]_vars =>
        [Abstract!Next]_([stage |-> StageOf(stored), next |-> stored.nextSeq])
  <2> SUFFICES ASSUME KInv, Next, stored' # stored
               PROVE  Abstract!Next
    BY DEF vars
  <2>1. /\ Resting(engine) /\ stored' = ToSnapshot(engine)
        /\ engine \in EngineState /\ Counted(engine)
        /\ \E a \in Abstract!Actions : Answers(stored, engine, a)
    BY OnlyResponsesStore
  <2>2. PICK a \in Abstract!Actions : Answers(stored, engine, a)
    BY <2>1
  <2>3. stored'.nextSeq = stored.nextSeq + Abstract!TurnsOf(a)
    <3>1. TurnsToCome(engine) = 0 /\ stored'.nextSeq = engine.nextSeq
      BY <2>1 DEF TurnsToCome, ToSnapshot
    <3> QED
      BY <2>1, <2>2, <3>1 DEF Answers, EngineState
  <2>4. StageOf(stored') \in IF a = "end" THEN {"ended"} ELSE {"open", "ended"}
    BY <2>1, <2>2 DEF Answers, StageOf, ToSnapshot, Resting, Counted
  <2> QED
    BY <2>2, <2>3, <2>4
       DEF Abstract!Next, Abstract!Exchange, Abstract!Outcomes, Answers
<1> QED
  BY <1>1, <1>2, ExchangeInvariance, PTL DEF Spec, ImplementsSession, Abstract!Spec

-----------------------------------------------------------------------------
(* The third invariant, LInv: the conversation, what the turns show, and   *)
(* that the engine's progress, by which it chooses what to ask, shows the  *)
(* same.                                                                   *)

(* A turn belongs to a question that has been asked, or to none.           *)
Tagged(turnSet, e) ==
  \A t \in turnSet : t.question # NoQuestion => t.question \in 0 .. e.questionsAsked - 1

(* The turns said of a question. *)
About(turnSet, q) == {t \in turnSet : t.question = q}

Shown(turnSet, e) ==
  \A q \in Positions :
    /\ Range(e.progress[q].probesAsked) = ProbesPut(About(turnSet, q))
    /\ e.progress[q].probesCovered = ProbesReached(About(turnSet, q))

(* Whom the engine waits for has been spoken to last; what the candidate   *)
(* said has been replied to, or is about to be.                            *)
Conversing(turnSet, e) ==
  /\ e.awaiting /\ e.state # "intro" =>
       \E t \in turnSet : /\ t.seq = e.nextSeq - 1
                         /\ t.speaker = "interviewer"
                         /\ t.state = e.state
                         /\ t.question = IF InAQuestion(e) THEN e.current ELSE NoQuestion
  /\ \A c \in Heard(turnSet) :
       /\ Prompted(turnSet, c)
       /\ RepliedTo(turnSet, c) \/ (c.seq = e.nextSeq - 1 /\ ~Resting(e))

Conversed(turnSet, e) ==
  /\ InOrder(turnSet, e)
  /\ IsFiniteSet(Said(turnSet, "question"))
  /\ Tagged(turnSet, e)
  /\ Shown(turnSet, e)
  /\ Rationed(turnSet)
  /\ Conversing(turnSet, e)

LInv ==
  /\ KInv
  /\ Conversed(transcript, FromSnapshot(stored))
  /\ Conversed(transcript \cup turns, engine)

-----------------------------------------------------------------------------
(* A turn more.                                                            *)

(* t comes after every turn of T. *)
Last(T, t) == t \in Turn /\ T \subseteq Turn /\ \A u \in T : u.seq < t.seq

(* Where T is a log up to the engine's next turn, a turn of that number is *)
(* the last.                                                               *)
LEMMA NextIsLast ==
  ASSUME NEW T \in SUBSET Turn, NEW e \in EngineState, Logged(T, e),
         NEW t \in Turn, t.seq = e.nextSeq
  PROVE  Last(T, t)
<1>1. \A u \in T : u.seq \in 0 .. e.nextSeq - 1
  BY DEF Logged, Numbered
<1>2. e.nextSeq \in Nat
  BY DEF EngineState
<1> QED
  BY <1>1, <1>2 DEF Last

(* A question put, the next one in the plan, keeps the order. *)
LEMMA QuestionKeepsOrder ==
  ASSUME NEW T, NEW t, Last(T, t), NEW e \in EngineState, NEW f,
         InOrder(T, e), Tagged(T, e), IsFiniteSet(Said(T, "question")),
         t.speaker = "interviewer", t.state = "question",
         t.question = e.questionsAsked,
         f.questionsAsked = e.questionsAsked + 1, e.questionsAsked < QuestionBudget
  PROVE  /\ InOrder(T \cup {t}, f) /\ Tagged(T \cup {t}, f)
         /\ IsFiniteSet(Said(T \cup {t}, "question"))
<1> DEFINE asked == Said(T, "question")
           n     == e.questionsAsked
<1>1. n \in Nat /\ QuestionBudget \in Nat /\ t.seq \in Nat
  BY BundleAssumption DEF EngineState, Last, Turn
<1>2. Said(T \cup {t}, "question") = asked \cup {t} /\ asked \subseteq T
  BY DEF Said
<1>3. t \notin asked
  <2>1. \A u \in T : u # t
    BY <1>1 DEF Last, Turn
  <2> QED
    BY <2>1 DEF Said
<1>4. IsFiniteSet(asked \cup {t}) /\ Cardinality(asked \cup {t}) = n + 1
  BY <1>3, FS_AddElement DEF InOrder
<1>5. \A u \in T : u.question # NoQuestion => u.question \in 0 .. n - 1
  BY DEF Tagged
<1>6. {u.question : u \in asked \cup {t}} = 0 .. (n + 1) - 1
  <2>1. {u.question : u \in asked \cup {t}} = {u.question : u \in asked} \cup {t.question}
    OBVIOUS
  <2>2. 0 .. (n + 1) - 1 = (0 .. n - 1) \cup {n}
    BY <1>1
  <2> QED
    BY <2>1, <2>2 DEF InOrder
<1>7. \A q \in asked : q.question \in 0 .. n - 1
  BY DEF InOrder
<1>8. ASSUME NEW u \in T \cup {t}, NEW q \in asked \cup {t}, u.question # NoQuestion
      PROVE  q.seq <= u.seq <=> q.question <= u.question
  <2>1. CASE u \in T /\ q \in asked
    BY <1>8, <2>1 DEF InOrder
  <2>2. CASE u = t /\ q \in asked
    <3>1. q.seq < t.seq /\ q.seq \in Nat
      BY <1>2, <2>2 DEF Last, Turn
    <3> QED
      BY <1>1, <1>7, <2>2, <3>1
  <2>3. CASE u \in T /\ q = t
    <3>1. u.seq < t.seq /\ u.seq \in Nat
      BY <2>3 DEF Last, Turn
    <3> QED
      BY <1>1, <1>5, <1>8, <2>3, <3>1
  <2>4. CASE u = t /\ q = t
    BY <1>1, <2>4
  <2> QED
    BY <2>1, <2>2, <2>3, <2>4
<1>9. InOrder(T \cup {t}, f)
  <2> HIDE DEF asked
  <2>1. n + 1 <= QuestionBudget
    BY <1>1
  <2> QED
    BY <1>2, <1>4, <1>6, <1>8, <2>1 DEF InOrder
<1>10. Tagged(T \cup {t}, f)
  BY <1>1, <1>5 DEF Tagged
<1> QED
  BY <1>2, <1>4, <1>9, <1>10

(* Anything else said, under the last question asked or under none, too. *)
LEMMA OthersKeepOrder ==
  ASSUME NEW T, NEW t, Last(T, t), NEW e \in EngineState, NEW f,
         InOrder(T, e), Tagged(T, e), IsFiniteSet(Said(T, "question")),
         ~(t.speaker = "interviewer" /\ t.state = "question"),
         t.question # NoQuestion =>
           t.question = e.questionsAsked - 1 /\ e.questionsAsked > 0,
         f.questionsAsked = e.questionsAsked
  PROVE  /\ InOrder(T \cup {t}, f) /\ Tagged(T \cup {t}, f)
         /\ IsFiniteSet(Said(T \cup {t}, "question"))
<1> DEFINE asked == Said(T, "question")
           n     == e.questionsAsked
<1>1. n \in Nat /\ t.seq \in Nat
  BY DEF EngineState, Last, Turn
<1>2. Said(T \cup {t}, "question") = asked /\ asked \subseteq T
  BY DEF Said
<1>3. \A q \in asked : q.question \in 0 .. n - 1
  BY DEF InOrder
<1>4. ASSUME NEW u \in T \cup {t}, NEW q \in asked, u.question # NoQuestion
      PROVE  q.seq <= u.seq <=> q.question <= u.question
  <2>1. CASE u \in T
    BY <1>4, <2>1 DEF InOrder
  <2>2. CASE u = t
    <3>1. q.seq < t.seq /\ q.seq \in Nat
      BY <1>2 DEF Last, Turn
    <3> QED
      BY <1>1, <1>3, <1>4, <2>2, <3>1
  <2> QED
    BY <2>1, <2>2
<1>5. InOrder(T \cup {t}, f)
  <2> DEFINE Counts(S) == {u.question : u \in S} = 0 .. n - 1 /\ Cardinality(S) = n
  <2>1. Counts(asked) /\ n <= QuestionBudget
    BY DEF InOrder
  <2> HIDE DEF Counts, asked
  <2>2. Counts(Said(T \cup {t}, "question"))
    BY <1>2, <2>1
  <2> QED
    BY <1>2, <1>4, <2>1, <2>2 DEF InOrder, Counts
<1>6. Tagged(T \cup {t}, f)
  BY <1>1 DEF Tagged
<1> QED
  BY <1>2, <1>5, <1>6

(* What one turn adds to what the turns of a question show. *)
Reaches(t, q) == IF t.question = q THEN t.answered ELSE {}

Puts(t, q) ==
  IF t.question = q /\ t \in Said({t}, "follow_up") THEN {t.probe} ELSE {}

(* From e to f the progress has grown by what t shows. *)
Learns(e, f, t) ==
  \A q \in Positions :
    /\ Range(f.progress[q].probesAsked) = Range(e.progress[q].probesAsked) \cup Puts(t, q)
    /\ f.progress[q].probesCovered = e.progress[q].probesCovered \cup Reaches(t, q)

(* Progress that grows by what a turn shows still shows what all show. *)
LEMMA ShownGrows ==
  ASSUME NEW T, NEW t, NEW e, NEW f, Shown(T, e), Learns(e, f, t)
  PROVE  Shown(T \cup {t}, f)
<1> SUFFICES ASSUME NEW q \in Positions
             PROVE  /\ Range(f.progress[q].probesAsked) = ProbesPut(About(T \cup {t}, q))
                    /\ f.progress[q].probesCovered = ProbesReached(About(T \cup {t}, q))
  BY DEF Shown
<1>1. /\ Range(e.progress[q].probesAsked) = ProbesPut(About(T, q))
      /\ e.progress[q].probesCovered = ProbesReached(About(T, q))
  BY DEF Shown
<1>2. /\ ProbesReached(About(T \cup {t}, q)) = ProbesReached(About(T, q)) \cup Reaches(t, q)
      /\ ProbesPut(About(T \cup {t}, q)) = ProbesPut(About(T, q)) \cup Puts(t, q)
  <2>1. CASE t.question = q
    <3>1. About(T \cup {t}, q) = About(T, q) \cup {t}
      BY <2>1 DEF About
    <3> QED
      BY <2>1, <3>1 DEF ProbesReached, ProbesPut, Said, Reaches, Puts
  <2>2. CASE t.question # q
    <3>1. About(T \cup {t}, q) = About(T, q)
      BY <2>2 DEF About
    <3> QED
      BY <2>2, <3>1 DEF Reaches, Puts
  <2> QED
    BY <2>1, <2>2
<1>3. /\ Range(f.progress[q].probesAsked) = Range(e.progress[q].probesAsked) \cup Puts(t, q)
      /\ f.progress[q].probesCovered = e.progress[q].probesCovered \cup Reaches(t, q)
  BY DEF Learns
<1> QED
  BY <1>1, <1>2, <1>3

(* What a sequence of numbers ranges over is no more than it is long. *)
LEMMA RangeWithinLength ==
  ASSUME NEW s \in Seq(Nat)
  PROVE  Cardinality(Range(s)) <= Len(s) /\ Cardinality(Range(s)) \in Nat
<1>1. s \in Surjection(1 .. Len(s), Range(s))
  BY DEF Surjection, Range
<1>2. IsFiniteSet(1 .. Len(s)) /\ Cardinality(1 .. Len(s)) = Len(s)
  <2> DEFINE n == Len(s)
  <2>1. 1 \in Int /\ n \in Int /\ n >= 0
    OBVIOUS
  <2> HIDE DEF n
  <2>2. IsFiniteSet(1 .. n) /\ Cardinality(1 .. n) = IF 1 > n THEN 0 ELSE n - 1 + 1
    BY <2>1, FS_Interval
  <2>3. Cardinality(1 .. n) = n
    BY <2>1, <2>2
  <2> QED
    BY <2>2, <2>3 DEF n
<1> QED
  BY <1>1, <1>2, FS_Surjection, FS_CardinalityType

(* The share of follow-ups of what was said before does not change.        *)
LEMMA RationsKept ==
  ASSUME NEW T, NEW t, Last(T, t), Rationed(T),
         NEW g \in Said(T, "follow_up")
  PROVE  {u \in T \cup {t} : u.question = g.question /\ u.seq < g.seq}
           = {u \in T : u.question = g.question /\ u.seq < g.seq}
<1>1. g.seq < t.seq /\ g.seq \in Nat /\ t.seq \in Nat
  BY DEF Said, Last, Turn
<1> QED
  BY <1>1

(* A turn that is no follow-up leaves the shares alone. *)
LEMMA RationedByOthers ==
  ASSUME NEW T, NEW t, Last(T, t), Rationed(T), t \notin Said({t}, "follow_up")
  PROVE  Rationed(T \cup {t})
<1>1. Said(T \cup {t}, "follow_up") = Said(T, "follow_up")
  BY DEF Said
<1>2. \A g \in Said(T, "follow_up") :
        {u \in T \cup {t} : u.question = g.question /\ u.seq < g.seq}
          = {u \in T : u.question = g.question /\ u.seq < g.seq}
  BY RationsKept
<1> QED
  BY <1>1, <1>2 DEF Rationed

(* A follow-up chosen by the progress is within its question's share, and  *)
(* on a criterion already probed only where there is no other.             *)
LEMMA RationedByChoice ==
  ASSUME NEW T, NEW t, Last(T, t), Rationed(T), NEW e \in EngineState, Shown(T, e),
         NEW q \in Positions, t.question = q,
         CanProbe(q, e.progress[q].probesAsked, e.progress[q].probesCovered),
         t.probe = ChooseProbe(q, e.progress[q].probesAsked, e.progress[q].probesCovered),
         t \in Said({t}, "follow_up")
  PROVE  Rationed(T \cup {t})
<1> DEFINE asked   == Range(e.progress[q].probesAsked)
           covered == e.progress[q].probesCovered
           earlier == {u \in T : u.question = q}
           probed  == {CriterionOf(q, p) : p \in asked}
<1>1. {u \in T \cup {t} : u.question = t.question /\ u.seq < t.seq} = earlier
  BY DEF Last, Turn
<1>2. ProbesPut(earlier) = asked /\ ProbesReached(earlier) = covered
  BY DEF Shown, About
<1>4. Cardinality(asked) < MaxFollowUps
  <2>1. e.progress[q].probesAsked \in Seq(Nat)
    BY DEF EngineState, QuestionProgress
  <2>2. Len(e.progress[q].probesAsked) \in Nat /\ MaxFollowUps \in Nat
    BY <2>1, BundleAssumption
  <2> QED
    BY <2>1, <2>2, RangeWithinLength DEF CanProbe
<1>5. CriterionOf(q, t.probe) \in probed =>
        \A p \in Probes(q) \ (covered \cup asked) : CriterionOf(q, p) \in probed
  <2>1. t.probe \in PreferredProbes(q, e.progress[q].probesAsked, covered)
    BY ChosenProbe
  <2> QED
    BY <2>1 DEF PreferredProbes, ProbesInPlay
<1>6. ASSUME NEW g \in Said(T \cup {t}, "follow_up"), g # t
      PROVE  /\ g \in Said(T, "follow_up")
             /\ {u \in T \cup {t} : u.question = g.question /\ u.seq < g.seq}
                  = {u \in T : u.question = g.question /\ u.seq < g.seq}
  BY <1>6, RationsKept DEF Said
<1> HIDE DEF asked, covered, earlier, probed
<1> SUFFICES ASSUME NEW g \in Said(T \cup {t}, "follow_up")
             PROVE  LET before == {u \in T \cup {t} : u.question = g.question /\ u.seq < g.seq}
                        tried  == {CriterionOf(g.question, p) : p \in ProbesPut(before)}
                    IN  /\ Cardinality(ProbesPut(before)) < MaxFollowUps
                        /\ CriterionOf(g.question, g.probe) \in tried =>
                             \A p \in Probes(g.question)
                                      \ (ProbesReached(before) \cup ProbesPut(before)) :
                               CriterionOf(g.question, p) \in tried
  BY DEF Rationed
<1>7. CASE g = t
  <2>1. {u \in T \cup {t} : u.question = g.question /\ u.seq < g.seq} = earlier
    BY <1>1, <1>7
  <2>2. {CriterionOf(g.question, p) : p \in ProbesPut(earlier)} = probed
    BY <1>2, <1>7 DEF probed
  <2>3. g.question = q /\ g.probe = t.probe
    BY <1>7
  <2> QED
    BY <1>2, <1>4, <1>5, <2>1, <2>2, <2>3
<1>8. CASE g # t
  BY <1>6, <1>8 DEF Rationed
<1> QED
  BY <1>7, <1>8

(* The interviewer's turn replies to what was last heard. *)
LEMMA ConversingBySpeaking ==
  ASSUME NEW T, NEW t, NEW e \in EngineState, NEW f \in EngineState,
         Conversing(T, e), t.speaker = "interviewer",
         t.seq = e.nextSeq, f.nextSeq = e.nextSeq + 1,
         f.awaiting =>
           /\ t.state = f.state
           /\ t.question = IF InAQuestion(f) THEN f.current ELSE NoQuestion
  PROVE  Conversing(T \cup {t}, f)
<1>1. t.seq = f.nextSeq - 1 /\ e.nextSeq \in Nat
  BY DEF EngineState
<1>2. Heard(T \cup {t}) = Heard(T)
  BY DEF Heard
<1>3. ASSUME NEW c \in Heard(T)
      PROVE  Prompted(T \cup {t}, c) /\ RepliedTo(T \cup {t}, c)
  <2>1. Prompted(T, c) /\ (RepliedTo(T, c) \/ c.seq = e.nextSeq - 1)
    BY DEF Conversing
  <2>2. Prompted(T \cup {t}, c)
    BY <2>1 DEF Prompted
  <2>3. CASE RepliedTo(T, c)
    BY <2>2, <2>3 DEF RepliedTo
  <2>4. CASE c.seq = e.nextSeq - 1
    <3> DEFINE n == e.nextSeq
    <3>1. n \in Nat /\ t.seq = n /\ c.seq = n - 1
      BY <1>1, <2>4
    <3> HIDE DEF n
    <3>2. t.seq = c.seq + 1
      BY <3>1
    <3>3. RepliedTo(T \cup {t}, c)
      BY <3>2 DEF RepliedTo
    <3> QED
      BY <2>2, <3>3
  <2> QED
    BY <2>1, <2>3, <2>4
<1> QED
  BY <1>1, <1>2, <1>3 DEF Conversing

(* The candidate's turn answers what they were last asked. *)
LEMMA ConversingByAnswering ==
  ASSUME NEW T, NEW t, NEW e \in EngineState, NEW f \in EngineState,
         Conversing(T, e), e.awaiting, e.state # "intro",
         t.speaker = "candidate", t.state = e.state,
         t.question = IF InAQuestion(e) THEN e.current ELSE NoQuestion,
         t.seq = e.nextSeq, f.nextSeq = e.nextSeq + 1, ~Resting(f)
  PROVE  Conversing(T \cup {t}, f)
<1>1. t.seq = f.nextSeq - 1 /\ e.nextSeq \in Nat /\ Resting(e) /\ ~f.awaiting
  BY DEF EngineState, Resting
<1>2. Heard(T \cup {t}) = Heard(T) \cup {t}
  BY DEF Heard
<1>3. ASSUME NEW c \in Heard(T)
      PROVE  Prompted(T \cup {t}, c) /\ RepliedTo(T \cup {t}, c)
  <2>1. Prompted(T, c) /\ RepliedTo(T, c)
    BY <1>1 DEF Conversing
  <2> QED
    BY <2>1 DEF Prompted, RepliedTo
<1>4. Prompted(T \cup {t}, t)
  BY DEF Conversing, Prompted
<1> QED
  BY <1>1, <1>2, <1>3, <1>4 DEF Conversing

(* Moving on without a word leaves what was said as it was. *)
LEMMA ConversedKept ==
  ASSUME NEW T, NEW e, NEW f, Conversed(T, e),
         f.nextSeq = e.nextSeq, f.progress = e.progress,
         f.questionsAsked = e.questionsAsked, ~Resting(f)
  PROVE  Conversed(T, f)
BY DEF Conversed, InOrder, Tagged, Shown, Conversing, Resting

-----------------------------------------------------------------------------
(* One lemma per action for the conversation.                              *)

(* Planning adds no word. *)
LEMMA PlannedConverses ==
  ASSUME LInv, Planning
  PROVE  /\ Conversed(transcript \cup turns, Planned)
         /\ Planned \in EngineState /\ WellPlaced(Planned) /\ Counted(Planned)
         /\ transcript \cup turns \in SUBSET Turn
         /\ \A t \in Turn : t.seq = Planned.nextSeq => Last(transcript \cup turns, t)
         /\ Planned.questionsAsked \in Nat
<1>1. /\ Planned \in EngineState /\ WellPlaced(Planned) /\ Counted(Planned)
      /\ Planned.nextSeq = engine.nextSeq /\ Planned.state # "ended"
      /\ Planned.questionsAsked = engine.questionsAsked
  BY PlannedCounts DEF LInv
<1>2. Planned.progress = engine.progress /\ ~Planned.awaiting
  BY PlannedMoves DEF LInv, KInv
<1>3. Conversed(transcript \cup turns, engine) /\ Logged(transcript \cup turns, engine)
      /\ transcript \cup turns \in SUBSET Turn /\ engine \in EngineState
  BY DEF LInv, KInv, IInv, TypeOK
<1>4. Conversed(transcript \cup turns, Planned)
  BY <1>1, <1>2, <1>3, ConversedKept DEF Resting
<1>5. \A t \in Turn : t.seq = Planned.nextSeq => Last(transcript \cup turns, t)
  BY <1>1, <1>3, NextIsLast
<1> QED
  BY <1>1, <1>3, <1>4, <1>5 DEF EngineState

(* A turn spoken from there keeps the conversation in order. *)
LEMMA SpokeConverses ==
  ASSUME LInv, Planning, KInv', NEW said \in Turn, NEW after \in EngineState,
         Speak(said, after),
         said.seq = Planned.nextSeq, said.speaker = "interviewer", said.answered = {},
         after.nextSeq = Planned.nextSeq + 1,
         \/ /\ said.state = "question"
            /\ said.question = Planned.questionsAsked
            /\ after.questionsAsked = Planned.questionsAsked + 1
            /\ Planned.questionsAsked < QuestionBudget
         \/ /\ said.state # "question"
            /\ said.question # NoQuestion =>
                 said.question = Planned.questionsAsked - 1 /\ Planned.questionsAsked > 0
            /\ after.questionsAsked = Planned.questionsAsked,
         \A q \in Positions :
           /\ Range(after.progress[q].probesAsked)
                = Range(Planned.progress[q].probesAsked) \cup Puts(said, q)
           /\ after.progress[q].probesCovered = Planned.progress[q].probesCovered,
         said.state = "follow_up" =>
           /\ said.question \in Positions
           /\ LET entry == Planned.progress[said.question]
              IN  /\ CanProbe(said.question, entry.probesAsked, entry.probesCovered)
                  /\ said.probe = ChooseProbe(said.question, entry.probesAsked,
                                              entry.probesCovered),
         after.awaiting =>
           /\ said.state = after.state
           /\ said.question = IF InAQuestion(after) THEN after.current ELSE NoQuestion
  PROVE  LInv'
<1> DEFINE T == transcript \cup turns
<1>1. /\ Conversed(T, Planned) /\ Planned \in EngineState /\ Last(T, said)
  BY PlannedConverses
<1>2. T' = T \cup {said} /\ engine' = after
      /\ stored' = stored /\ transcript' = transcript
  BY DEF Speak
<1> HIDE DEF T
<1>3. /\ InOrder(T \cup {said}, after) /\ Tagged(T \cup {said}, after)
      /\ IsFiniteSet(Said(T \cup {said}, "question"))
  <2>1. CASE said.state = "question"
    BY <1>1, <2>1, QuestionKeepsOrder DEF Conversed
  <2>2. CASE said.state # "question"
    BY <1>1, <2>2, OthersKeepOrder DEF Conversed
  <2> QED
    BY <2>1, <2>2
<1>4. Shown(T \cup {said}, after)
  <2>1. Learns(Planned, after, said)
    BY DEF Learns, Reaches
  <2>2. Shown(T, Planned)
    BY <1>1 DEF Conversed
  <2> QED
    BY <2>1, <2>2, ShownGrows
<1>5. Rationed(T \cup {said})
  <2>1. CASE said.state = "follow_up"
    BY <1>1, <2>1, RationedByChoice DEF Conversed, Said
  <2>2. CASE said.state # "follow_up"
    BY <1>1, <2>2, RationedByOthers DEF Conversed, Said
  <2> QED
    BY <2>1, <2>2
<1>6. Conversing(T \cup {said}, after)
  BY <1>1, ConversingBySpeaking DEF Conversed
<1>7. Conversed(T', engine')
  BY <1>2, <1>3, <1>4, <1>5, <1>6 DEF Conversed
<1> QED
  BY <1>2, <1>7 DEF LInv, T

(* The greeting is under no question. *)
LEMMA SpeakIntroConverses == LInv /\ SpeakIntro => LInv'
<1> SUFFICES ASSUME LInv, SpeakIntro PROVE LInv'
  OBVIOUS
<1> DEFINE said  == Says(Planned, "intro", NoQuestion, NoProbe)
           after == AfterIntro(Planned, asOf)
<1>1. Planning /\ Planned.state = "intro" /\ Speak(said, after) /\ KInv'
  BY SpeakIntroGoesOn DEF SpeakIntro, LInv
<1>2. /\ Planned \in EngineState /\ WellPlaced(Planned) /\ ~Planned.pending /\ asOf \in Int
  BY <1>1, PlannedConverses, ReadingsAssumption DEF WellPlaced, LInv, KInv, IInv, TypeOK
<1>3. /\ said \in Turn /\ said.seq = Planned.nextSeq /\ said.speaker = "interviewer"
      /\ said.state = "intro" /\ said.question = NoQuestion /\ said.answered = {}
      /\ \A q \in Positions : Puts(said, q) = {}
  BY <1>2, TurnTypes DEF Says, States, NoProbe, Said, Puts
<1>4. /\ after \in EngineState /\ after.nextSeq = Planned.nextSeq + 1
  BY <1>2, AfterIntroAdvances DEF Advanced
<1>5. /\ after.progress = Planned.progress /\ ~after.awaiting
      /\ after.questionsAsked = Planned.questionsAsked
  <2>1. /\ Spoken(Planned) \in EngineState
        /\ Spoken(Planned).progress = Planned.progress
        /\ Spoken(Planned).questionsAsked = Planned.questionsAsked
    BY <1>2, SpokenType DEF EngineState
  <2> QED
    BY <2>1 DEF AfterIntro, Opening, ToWrapUp, ToQuestion, EngineState
<1> HIDE DEF said, after
<1> QED
  BY <1>1, <1>3, <1>4, <1>5, SpokeConverses

(* The next question is put under its own number. *)
LEMMA AskQuestionConverses == LInv /\ AskQuestion => LInv'
<1> SUFFICES ASSUME LInv, AskQuestion PROVE LInv'
  OBVIOUS
<1> DEFINE said  == Says(Planned, "question", Planned.current, NoProbe)
           after == AfterQuestion(Planned)
           p     == Planned
<1>1. /\ Planning /\ p.state = "question" /\ ~p.progress[p.current].asked
      /\ Speak(said, after) /\ KInv'
  BY AskQuestionGoesOn DEF AskQuestion, LInv
<1>2. /\ p \in EngineState /\ WellPlaced(p) /\ Counted(p) /\ p.current \in Positions
      /\ p.questionsAsked \in Nat /\ p.current \in Int
  BY <1>1, PlannedConverses, BundleAssumption DEF WellPlaced, InAQuestion, Positions
<1>3. /\ said \in Turn /\ said.seq = Planned.nextSeq /\ said.speaker = "interviewer"
      /\ said.state = "question" /\ said.question = p.current /\ said.answered = {}
      /\ \A q \in Positions : Puts(said, q) = {}
  BY <1>2, TurnTypes DEF Says, States, NoProbe, EngineState, Said, Puts
<1>4. p.current = p.questionsAsked /\ p.questionsAsked < QuestionBudget
  BY <1>1, <1>2 DEF Counted
<1>5. /\ after \in EngineState /\ after.nextSeq = p.nextSeq + 1
      /\ \A q \in Positions : after.progress[q].probesAsked = p.progress[q].probesAsked
  BY <1>1, <1>2, AfterQuestionAdvances DEF Advanced
<1>6. /\ after.state = "question" /\ after.current = p.current
      /\ after.questionsAsked = p.questionsAsked + 1
  BY <1>1, <1>2 DEF AfterQuestion, Spoken, EngineState
<1>7. \A q \in Positions : after.progress[q].probesCovered = p.progress[q].probesCovered
  <2>1. Spoken(p).progress = p.progress /\ Spoken(p).current = p.current /\ Spoken(p) \in EngineState
    BY <1>2, SpokenType DEF EngineState
  <2> DEFINE entry == [p.progress[p.current] EXCEPT !.asked = TRUE]
  <2>2. after.progress = [p.progress EXCEPT ![p.current] = entry]
    BY <1>2, <2>1 DEF AfterQuestion, EngineState
  <2>3. entry.probesCovered = p.progress[p.current].probesCovered
    BY <1>2 DEF EngineState, QuestionProgress
  <2> HIDE DEF entry, after
  <2> QED
    BY <1>2, <2>2, <2>3 DEF EngineState
<1>8. InAQuestion(after)
  BY <1>6 DEF InAQuestion
<1> HIDE DEF said, after
<1> QED
  BY <1>1, <1>3, <1>4, <1>5, <1>6, <1>7, <1>8, SpokeConverses

(* What a sequence ranges over once a number is appended. *)
LEMMA AppendedRange ==
  ASSUME NEW s \in Seq(Nat), NEW n \in Nat
  PROVE  Range(Append(s, n)) = Range(s) \cup {n}
<1>1. /\ DOMAIN Append(s, n) = 1 .. Len(s) + 1
      /\ DOMAIN s = 1 .. Len(s)
      /\ Len(s) \in Nat
  OBVIOUS
<1>2. \A i \in 1 .. Len(s) : Append(s, n)[i] = s[i]
  OBVIOUS
<1>3. Append(s, n)[Len(s) + 1] = n
  OBVIOUS
<1>4. 1 .. Len(s) + 1 = (1 .. Len(s)) \cup {Len(s) + 1}
  BY <1>1
<1> QED
  BY <1>1, <1>2, <1>3, <1>4 DEF Range

(* A follow-up is put under the question it is about. *)
LEMMA AskFollowUpConverses == LInv /\ AskFollowUp => LInv'
<1> SUFFICES ASSUME LInv, AskFollowUp PROVE LInv'
  OBVIOUS
<1> DEFINE p     == Planned
           entry == p.progress[p.current]
           probe == ChooseProbe(p.current, entry.probesAsked, entry.probesCovered)
           said  == Says(p, "follow_up", p.current, probe)
           after == AfterFollowUp(p, probe)
<1>1. /\ Planning /\ AnswerIsIn(p) /\ Speak(said, after) /\ KInv'
      /\ CanProbe(p.current, entry.probesAsked, entry.probesCovered)
  BY AskFollowUpGoesOn DEF AskFollowUp, ProbeIsDue, LInv
<1>2. /\ p \in EngineState /\ WellPlaced(p) /\ Counted(p)
      /\ InAQuestion(p) /\ p.current \in Positions /\ p.current = p.questionsAsked - 1
      /\ p.questionsAsked \in Nat
  BY <1>1, PlannedConverses, AnswerIsToTheLast DEF WellPlaced
<1>3. p.questionsAsked > 0
  BY <1>2, BundleAssumption DEF Positions
<1>4. probe \in Nat
  BY <1>1, <1>2, ChosenProbe
<1>5. /\ said \in Turn /\ said.seq = p.nextSeq /\ said.speaker = "interviewer"
      /\ said.state = "follow_up" /\ said.question = p.current /\ said.probe = probe
      /\ said.answered = {}
      /\ \A q \in Positions : Puts(said, q) = IF p.current = q THEN {probe} ELSE {}
  BY <1>2, <1>4, TurnTypes DEF Says, States, Said, Puts
<1> HIDE DEF probe
<1>6. /\ after \in EngineState /\ after.nextSeq = p.nextSeq + 1 /\ after.state = "follow_up"
  BY <1>2, <1>4, AfterFollowUpAdvances DEF Advanced
<1>7. after.current = p.current /\ after.questionsAsked = p.questionsAsked
  BY <1>2 DEF AfterFollowUp, Spoken, EngineState
<1>8. \A q \in Positions :
        /\ Range(after.progress[q].probesAsked)
             = Range(p.progress[q].probesAsked) \cup (IF p.current = q THEN {probe} ELSE {})
        /\ after.progress[q].probesCovered = p.progress[q].probesCovered
  <2>1. Spoken(p).progress = p.progress /\ Spoken(p).current = p.current /\ Spoken(p) \in EngineState
    BY <1>2, SpokenType DEF EngineState
  <2> DEFINE longer == Append(entry.probesAsked, probe)
             more   == [entry EXCEPT !.probesAsked = longer]
  <2>2. after.progress = [p.progress EXCEPT ![p.current] = more]
    BY <1>2, <2>1 DEF AfterFollowUp, EngineState
  <2>3. entry \in QuestionProgress /\ entry.probesAsked \in Seq(Nat)
    BY <1>2 DEF EngineState, QuestionProgress
  <2>4. Range(longer) = Range(entry.probesAsked) \cup {probe}
    BY <1>4, <2>3, AppendedRange
  <2>5. more.probesAsked = longer /\ more.probesCovered = entry.probesCovered
    BY <2>3 DEF QuestionProgress
  <2> HIDE DEF longer, more, after
  <2> QED
    BY <1>2, <2>2, <2>4, <2>5 DEF EngineState
<1>9. InAQuestion(after)
  BY <1>6 DEF InAQuestion
<1> HIDE DEF said, after
<1>10. said.probe = ChooseProbe(said.question, p.progress[said.question].probesAsked,
                                p.progress[said.question].probesCovered)
  BY <1>5 DEF probe
<1> QED
  BY <1>1, <1>2, <1>3, <1>5, <1>6, <1>7, <1>8, <1>9, <1>10, SpokeConverses

(* The invitation, the replies to the candidate and the close are under no *)
(* question.                                                               *)
LEMMA TheRestConverses ==
  ASSUME LInv, InviteCandidateQuestions \/ AnswerCandidateQuestion \/ SpeakWrapUp
  PROVE  LInv'
<1> DEFINE p == Planned
<1>1. PICK kind, after :
        /\ kind \in {"candidate_questions", "wrap_up"}
        /\ Planning /\ p.state = kind
        /\ Speak(Says(p, kind, NoQuestion, NoProbe), after)
        /\ \/ /\ kind = "candidate_questions"
              /\ \/ after = AfterInvitation(p) /\ ~p.pending
                 \/ after = AfterCandidateQuestion(p)
           \/ kind = "wrap_up" /\ after = AfterWrapUp(p)
  BY DEF InviteCandidateQuestions, AnswerCandidateQuestion, SpeakWrapUp
<1> DEFINE said == Says(p, kind, NoQuestion, NoProbe)
<1>2. KInv'
  BY CandidateQuestionsGoOn, SpeakWrapUpGoesOn DEF LInv
<1>3. p \in EngineState /\ WellPlaced(p)
  BY <1>1, PlannedConverses
<1>4. /\ said \in Turn /\ said.seq = p.nextSeq /\ said.speaker = "interviewer"
      /\ said.state = kind /\ said.question = NoQuestion /\ said.answered = {}
      /\ \A q \in Positions : Puts(said, q) = {}
  BY <1>1, <1>3, TurnTypes DEF Says, States, NoProbe, Said, Puts
<1>5. /\ after \in EngineState /\ after.nextSeq = p.nextSeq + 1
      /\ after.progress = p.progress
  BY <1>1, <1>3, CandidateQuestionsAdvance, AfterWrapUpAdvances DEF Advanced
<1>6. /\ after.questionsAsked = p.questionsAsked
      /\ after.awaiting => after.state = kind
  BY <1>1, <1>3 DEF AfterInvitation, AfterCandidateQuestion, AfterWrapUp, Spoken, EngineState
<1>7. after.awaiting => after.state = kind /\ ~InAQuestion(after)
  BY <1>1, <1>6 DEF InAQuestion
<1>8. Speak(said, after)
  BY <1>1
<1> HIDE DEF said
<1> QED
  BY <1>1, <1>2, <1>4, <1>5, <1>6, <1>7, <1>8, SpokeConverses

(* A request without words keeps the conversation as it is. *)
LEMMA SilentRequestConverses ==
  ASSUME LInv, ReceiveStart \/ ReceiveSkip \/ ReceiveEnd
  PROVE  LInv'
<1>1. KInv'
  BY ReceiveStartGoesOn, ReceiveSkipGoesOn, ReceiveEndGoesOn DEF LInv
<1>2. PICK moved : /\ Receive(moved, {}) /\ moved \in EngineState /\ ~Resting(moved)
                   /\ moved.nextSeq = engine.nextSeq /\ moved.progress = engine.progress
                   /\ moved.questionsAsked = engine.questionsAsked
  <2> DEFINE f == [engine EXCEPT !.awaiting = FALSE]
  <2>1. /\ engine \in EngineState /\ WellPlaced(engine) /\ Counted(engine)
        /\ left \in Int /\ ~engine.pending
    BY IdleEngine DEF LInv, ReceiveStart, ReceiveSkip, ReceiveEnd, Receive, FromSnapshot
  <2>2. /\ f \in EngineState /\ Counted(f) /\ ~f.pending /\ f.nextSeq = engine.nextSeq
        /\ f.progress = engine.progress /\ f.questionsAsked = engine.questionsAsked
        /\ f.state = engine.state /\ f.current = engine.current
    BY <2>1 DEF EngineState, Counted
  <2>3. CASE ReceiveStart
    <3>1. Start(engine) = f /\ f.state = "intro" /\ ~f.awaiting
      BY <2>1, <2>2, <2>3 DEF ReceiveStart, CanStart, Start, EngineState
    <3>2. Receive(f, {})
      BY <2>3, <3>1 DEF ReceiveStart
    <3> HIDE DEF f
    <3> QED
      BY <2>2, <3>1, <3>2 DEF Resting
  <2>4. CASE ReceiveSkip /\ InAQuestion(engine)
    <3> DEFINE moved == PastCurrentQuestion(f, left)
    <3>1. Receive(moved, {})
      BY <2>4 DEF ReceiveSkip, Skip
    <3>2. engine.awaiting
      BY <2>4 DEF ReceiveSkip, CanSkip
    <3>3. InAQuestion(f) /\ f.current = f.questionsAsked - 1
      <4>1. AnswerIsIn(engine)
        BY <2>1, <2>4, <3>2 DEF AnswerIsIn, WellPlaced, InAQuestion
      <4> QED
        BY <2>1, <2>2, <4>1, AnswerIsToTheLast DEF InAQuestion
    <3> HIDE DEF f
    <3>4. Onward(f, moved, left) /\ Moved(f, moved) /\ moved.state # "ended"
      BY <2>1, <2>2, <3>3, PastCurrentQuestionOnward, PastCurrentQuestionMoves
    <3> HIDE DEF moved
    <3> QED
      BY <2>2, <3>1, <3>4 DEF Onward, Moved, Resting
  <2>5. CASE ReceiveEnd \/ (ReceiveSkip /\ ~InAQuestion(engine))
    <3>1. PICK reason \in EndReasons : Receive(ToWrapUp(f, reason), {})
      BY <2>5 DEF ReceiveEnd, EndEarly, ReceiveSkip, Skip, EndReasons
    <3> DEFINE moved == ToWrapUp(f, reason)
    <3> HIDE DEF f
    <3>2. /\ Moved(f, moved) /\ moved.state = "wrap_up"
          /\ moved.questionsAsked = f.questionsAsked
      BY <2>2, ToWrapUpMoves, ToWrapUpCounts
    <3>3. Receive(moved, {})
      BY <3>1
    <3> HIDE DEF moved
    <3> QED
      BY <2>2, <3>2, <3>3 DEF Moved, Resting
  <2> QED
    BY <2>3, <2>4, <2>5
<1>3. /\ transcript' = transcript /\ turns' = {} /\ engine' = moved /\ stored' = stored
      /\ transcript' \cup turns' = transcript \cup turns
  BY <1>2, IdleEngine DEF Receive, LInv
<1>4. Conversed(transcript \cup turns, moved)
  BY <1>2, ConversedKept DEF LInv
<1> QED
  BY <1>1, <1>3, <1>4 DEF LInv

(* An answer is under the turn it answers, and on its question. *)
LEMMA ReceiveAnswerConverses == LInv /\ ReceiveAnswer => LInv'
<1> SUFFICES ASSUME LInv, ReceiveAnswer PROVE LInv'
  OBVIOUS
<1>1. PICK answered \in SUBSET ProbesToJudge(engine, left) :
        Receive(TakeAnswer(engine, answered), {CandidateTurn(engine, answered)})
  BY DEF ReceiveAnswer
<1> DEFINE moved == TakeAnswer(engine, answered)
           said  == CandidateTurn(engine, answered)
<1>2. /\ engine \in EngineState /\ WellPlaced(engine) /\ Counted(engine)
      /\ engine.awaiting /\ engine.state \notin {"intro", "ended"} /\ turns = {}
      /\ engine.nextSeq \in Nat /\ engine.questionsAsked \in Nat
      /\ transcript \in SUBSET Turn /\ Logged(transcript, engine)
      /\ Conversed(transcript, engine)
      /\ KInv'
  <2>1. phase = "idle" /\ KInv
    BY <1>1 DEF Receive, LInv
  <2>2. engine = FromSnapshot(stored) /\ turns = {}
    BY <2>1, IdleEngine
  <2>3. transcript \cup turns = transcript
    BY <2>2
  <2> QED
    BY <2>1, <2>2, <2>3, IdleEngine, ReceiveAnswerGoesOn
       DEF ReceiveAnswer, CanAnswer, LInv, KInv, IInv, TypeOK, EngineState
<1>3. answered \in SUBSET Nat
  <2>1. InAQuestion(engine) => engine.current \in Positions
    BY <1>2 DEF WellPlaced
  <2> QED
    BY <2>1, ProbesAreNat DEF ProbesToJudge, ProbesInPlay
<1>4. /\ moved \in EngineState /\ moved.nextSeq = engine.nextSeq + 1
      /\ moved.state = engine.state
      /\ \A q \in Positions : moved.progress[q].probesAsked = engine.progress[q].probesAsked
  BY <1>2, <1>3, TakeAnswerAdvances DEF Advanced
<1>5. /\ ~moved.awaiting /\ moved.questionsAsked = engine.questionsAsked
      /\ moved.progress = MergeCovered(engine, answered)
  BY <1>2 DEF TakeAnswer, EngineState
<1>6. /\ said \in Turn /\ said.seq = engine.nextSeq /\ said.speaker = "candidate"
      /\ said.state = engine.state /\ said.answered = answered
      /\ said.question = IF InAQuestion(engine) THEN engine.current ELSE NoQuestion
      /\ \A q \in Positions : Puts(said, q) = {}
  BY <1>2, <1>3, TurnTypes DEF CandidateTurn, Said, Puts
<1>7. Receive(moved, {said})
  BY <1>1
<1> HIDE DEF moved, said
<1>8. Last(transcript, said)
  BY <1>2, <1>6, NextIsLast
<1>9. /\ InOrder(transcript \cup {said}, moved) /\ Tagged(transcript \cup {said}, moved)
      /\ IsFiniteSet(Said(transcript \cup {said}, "question"))
  <2>1. InAQuestion(engine) =>
          /\ engine.current = engine.questionsAsked - 1 /\ engine.questionsAsked > 0
    <3>1. SUFFICES ASSUME InAQuestion(engine)
                   PROVE  /\ engine.current = engine.questionsAsked - 1
                          /\ engine.questionsAsked > 0
      OBVIOUS
    <3>2. AnswerIsIn(engine) /\ engine.current \in Positions
      BY <1>2, <3>1 DEF AnswerIsIn, WellPlaced, InAQuestion
    <3>3. engine.current = engine.questionsAsked - 1
      BY <1>2, <3>2, AnswerIsToTheLast
    <3> QED
      BY <1>2, <3>2, <3>3, BundleAssumption DEF Positions
  <2> QED
    BY <1>2, <1>5, <1>6, <1>8, <2>1, OthersKeepOrder DEF Conversed
<1>10. Shown(transcript \cup {said}, moved)
  <2>1. ASSUME NEW q \in Positions
        PROVE  moved.progress[q].probesCovered
                 = engine.progress[q].probesCovered \cup Reaches(said, q)
    <3>1. CASE InAQuestion(engine)
      <4> DEFINE all  == engine.progress[engine.current].probesCovered \cup answered
                 more == [engine.progress[engine.current] EXCEPT !.probesCovered = all]
      <4>1. moved.progress = [engine.progress EXCEPT ![engine.current] = more]
        BY <1>5, <3>1 DEF MergeCovered
      <4>2. engine.current \in Positions /\ more.probesCovered = all
        BY <1>2, <3>1 DEF WellPlaced, EngineState, QuestionProgress
      <4> HIDE DEF more
      <4> QED
        BY <1>2, <1>6, <3>1, <4>1, <4>2 DEF EngineState, Reaches
    <3>2. CASE ~InAQuestion(engine)
      BY <1>5, <1>6, <3>2 DEF MergeCovered, Reaches, Positions, NoQuestion
    <3> QED
      BY <3>1, <3>2
  <2>2. Learns(engine, moved, said)
    BY <1>4, <1>6, <2>1 DEF Learns
  <2>3. Shown(transcript, engine)
    BY <1>2 DEF Conversed
  <2> QED
    BY <2>2, <2>3, ShownGrows
<1>11. Rationed(transcript \cup {said})
  BY <1>2, <1>6, <1>8, RationedByOthers DEF Conversed, Said
<1>12. Conversing(transcript \cup {said}, moved)
  <2>1. ~Resting(moved)
    BY <1>2, <1>4, <1>5 DEF Resting
  <2> QED
    BY <1>2, <1>4, <1>6, <2>1, ConversingByAnswering DEF Conversed
<1>13. /\ transcript' = transcript /\ turns' = {said} /\ engine' = moved /\ stored' = stored
  BY <1>7 DEF Receive
<1>14. Conversed(transcript' \cup turns', engine')
  BY <1>9, <1>10, <1>11, <1>12, <1>13 DEF Conversed
<1> QED
  BY <1>2, <1>13, <1>14 DEF LInv

(* Nothing has been said before the first exchange. *)
LEMMA InitLInv == Init => LInv
<1> SUFFICES ASSUME Init PROVE LInv
  OBVIOUS
<1>1. KInv /\ engine = Begin /\ FromSnapshot(stored) = Begin
      /\ transcript = {} /\ transcript \cup turns = {}
  BY InitKInv DEF Init, KInv, IInv
<1>2. Said({}, "question") = {} /\ Said({}, "follow_up") = {} /\ Heard({}) = {}
  BY DEF Said, Heard
<1>3. InOrder({}, Begin) /\ IsFiniteSet({})
  <2>1. {t.question : t \in {}} = 0 .. 0 - 1
    OBVIOUS
  <2>2. 0 <= QuestionBudget
    BY BundleAssumption
  <2> QED
    BY <1>2, <2>1, <2>2, FS_EmptySet DEF InOrder, Begin
<1>4. Shown({}, Begin)
  <2>1. ASSUME NEW q \in Positions
        PROVE  Begin.progress[q].probesAsked = << >> /\ Begin.progress[q].probesCovered = {}
    BY DEF Begin
  <2>2. Range(<< >>) = {}
    BY DEF Range
  <2>3. \A q : ProbesPut(About({}, q)) = {} /\ ProbesReached(About({}, q)) = {}
    BY DEF ProbesPut, ProbesReached, About, Said
  <2> QED
    BY <2>1, <2>2, <2>3 DEF Shown
<1>5. Conversed({}, Begin)
  BY <1>2, <1>3, <1>4 DEF Conversed, Tagged, Rationed, Conversing, Begin
<1> QED
  BY <1>1, <1>5 DEF LInv

(* Every step keeps the conversation in order. *)
LEMMA NextConverses == LInv /\ [Next]_vars => LInv'
<1>1. LInv /\ Respond => LInv'
  <2> SUFFICES ASSUME LInv, Respond PROVE LInv'
    OBVIOUS
  <2>1. KInv' /\ engine' = FromSnapshot(stored') /\ turns' = {}
    BY RespondGoesOn DEF Respond, LInv
  <2>2. engine' = engine
    BY RestIsAtRest, RestoredIsStored DEF Respond, LInv, KInv, IInv, TypeOK
  <2>3. transcript' = transcript \cup turns /\ transcript' \cup turns' = transcript'
    BY DEF Respond
  <2> QED
    BY <2>1, <2>2, <2>3 DEF LInv
<1>2. LInv /\ ExchangeFails => LInv'
  <2> SUFFICES ASSUME LInv, ExchangeFails PROVE LInv'
    OBVIOUS
  <2>1. /\ KInv' /\ engine' = FromSnapshot(stored)
        /\ stored' = stored /\ transcript' = transcript /\ turns' = {}
    BY OthersGoOn DEF ExchangeFails, LInv
  <2>2. transcript' \cup turns' = transcript
    BY <2>1
  <2> QED
    BY <2>1, <2>2 DEF LInv
<1>3. LInv /\ (Tick \/ UNCHANGED vars) => LInv'
  <2> SUFFICES ASSUME LInv, Tick \/ UNCHANGED vars PROVE LInv'
    OBVIOUS
  <2>1. KInv' /\ UNCHANGED <<stored, transcript, engine, turns>>
    BY OthersGoOn DEF Tick, vars, LInv
  <2> QED
    BY <2>1 DEF LInv
<1> QED
  BY <1>1, <1>2, <1>3, SilentRequestConverses, ReceiveAnswerConverses, SpeakIntroConverses,
     AskQuestionConverses, AskFollowUpConverses, TheRestConverses DEF Next

(* The largest inductive invariant holds of every reachable state. *)
THEOREM ConversationInvariance == Spec => []LInv
BY InitLInv, NextConverses, PTL DEF Spec

(* Whatever the bundle, the clock, the candidate and the model, the stored *)
(* transcript reads as a conversation: the plan's questions in order and   *)
(* once, each with all that belongs to it and no more probing than its     *)
(* share, every answer between what it answers and the reply to it.        *)
THEOREM OrderlyConversation == Spec => []ConversationInOrder
<1>1. LInv => ConversationInOrder
  <2> SUFFICES ASSUME LInv PROVE ConversationInOrder
    OBVIOUS
  <2>1. Conversed(transcript, FromSnapshot(stored)) /\ stored \in Snapshot
    BY DEF LInv, KInv, IInv, TypeOK
  <2>2. InOrder(transcript, stored)
    BY <2>1 DEF Conversed, InOrder, FromSnapshot
  <2>3. Resting(FromSnapshot(stored))
    BY DEF Resting, FromSnapshot
  <2>4. AnswersFollowTheirQuestion
    BY <2>1, <2>3 DEF Conversed, Conversing, AnswersFollowTheirQuestion
  <2> QED
    BY <2>1, <2>2, <2>4 DEF Conversed, ConversationInOrder
<1> QED
  BY <1>1, ConversationInvariance, PTL
=============================================================================
