--------------------------- MODULE InterviewEngine ---------------------------
(***************************************************************************)
(* One interview session as the worker's InterviewService advances it: an  *)
(* exchange takes in what the candidate did, speaks until the machine      *)
(* waits for them again or the session is over, and responds with the      *)
(* turns and a snapshot, which the API stores together.  An exchange that  *)
(* fails on the way stores nothing.                                        *)
(*                                                                         *)
(* Exchanges of a session are taken one at a time here; what happens when  *)
(* they are not is SessionExchange.tla.  The wall clock runs during an     *)
(* exchange, but the exchange is decided by the reading its request        *)
(* carried, asOf.                                                          *)
(***************************************************************************)
EXTENDS InterviewMachine

CONSTANTS
  Readings,  \* the seconds left the model's clock may show
  MaxSeq     \* bound: no question of the candidate's own at this seq or later

ASSUME ReadingsAssumption == Readings \subseteq Int /\ MaxSeq \in Nat

VARIABLES
  left,        \* seconds to the deadline, on the API's clock
  stored,      \* engineSnapshot on the session row (Begin stands for null)
  transcript,  \* session_turns
  phase,       \* "idle", or "speaking" while an exchange is in flight
  asOf,        \* `now' of the request in flight, as seconds left
  engine,      \* the EngineState in the worker's hands
  turns        \* turns of the exchange in flight

vars == <<left, stored, transcript, phase, asOf, engine, turns>>

NoProbe == 0

Turn ==
  [seq      : Nat,
   speaker  : {"interviewer", "candidate"},
   state    : States,
   question : Positions \cup {NoQuestion},
   probe    : Nat,          \* follow_up_index, or NoProbe
   answered : SUBSET Nat]   \* probes a coverage verdict found answered

Says(e, state, question, probe) ==
  [seq |-> e.nextSeq, speaker |-> "interviewer", state |-> state,
   question |-> question, probe |-> probe, answered |-> {}]

(* Mutant: a turn is tagged with its question only on the first answer.     *)
UntaggedTurn(e, answered) ==
  [seq |-> e.nextSeq, speaker |-> "candidate", state |-> e.state,
   question |-> IF e.state = "question" THEN e.current ELSE NoQuestion,
   probe |-> NoProbe, answered |-> answered]

CandidateTurn(e, answered) ==
  [seq |-> e.nextSeq, speaker |-> "candidate", state |-> e.state,
   question |-> IF InAQuestion(e) THEN e.current ELSE NoQuestion,
   probe |-> NoProbe, answered |-> answered]

Init ==
  /\ left \in Readings
  /\ stored = ToSnapshot(Begin)
  /\ transcript = {}
  /\ phase = "idle"
  /\ asOf = left
  /\ engine = Begin
  /\ turns = {}

-----------------------------------------------------------------------------
(* _receive: the request reaches the engine, restored from the snapshot.   *)

Receive(moved, heard) ==
  /\ phase = "idle"
  /\ phase' = "speaking"
  /\ asOf' = left
  /\ engine' = moved
  /\ turns' = heard
  /\ UNCHANGED <<left, stored, transcript>>

ReceiveStart == CanStart(engine) /\ Receive(Start(engine), {})

(* The model may find any of the probes it judged answered, and a coverage *)
(* call that fails finds none.                                             *)
ReceiveAnswer ==
  /\ CanAnswer(engine)
  /\ InAQuestion(engine) \/ engine.nextSeq < MaxSeq
  /\ \E answered \in SUBSET ProbesToJudge(engine, left) :
       Receive(TakeAnswer(engine, answered), {CandidateTurn(engine, answered)})

ReceiveSkip == CanSkip(engine) /\ Receive(Skip(engine, left), {})

ReceiveEnd == CanEndEarly(engine) /\ Receive(EndEarly(engine), {})

-----------------------------------------------------------------------------
(* _speak_until_waiting: one action per kind of step plan() hands back.    *)

Speak(said, moved) ==
  /\ turns' = turns \cup {said}
  /\ engine' = moved
  /\ UNCHANGED <<left, stored, transcript, phase, asOf>>

Planning == phase = "speaking" /\ ~Resting(engine)

Planned == Settled(engine, asOf)

SpeakIntro ==
  /\ Planning
  /\ Planned.state = "intro"
  /\ Speak(Says(Planned, "intro", NoQuestion, NoProbe), AfterIntro(Planned, asOf))

AskQuestion ==
  /\ Planning
  /\ Planned.state = "question"
  /\ ~Planned.progress[Planned.current].asked
  /\ Speak(Says(Planned, "question", Planned.current, NoProbe),
           AfterQuestion(Planned))

AskFollowUp ==
  /\ Planning
  /\ AnswerIsIn(Planned)
  /\ ProbeIsDue(Planned, asOf)
  /\ LET entry == Planned.progress[Planned.current]
         probe == ChooseProbe(Planned.current, entry.probesAsked, entry.probesCovered)
     IN  Speak(Says(Planned, "follow_up", Planned.current, probe),
               AfterFollowUp(Planned, probe))

InviteCandidateQuestions ==
  /\ Planning
  /\ Planned.state = "candidate_questions"
  /\ ~Planned.pending
  /\ Speak(Says(Planned, "candidate_questions", NoQuestion, NoProbe),
           AfterInvitation(Planned))

AnswerCandidateQuestion ==
  /\ Planning
  /\ Planned.state = "candidate_questions"
  /\ Planned.pending
  /\ Speak(Says(Planned, "candidate_questions", NoQuestion, NoProbe),
           AfterCandidateQuestion(Planned))

SpeakWrapUp ==
  /\ Planning
  /\ Planned.state = "wrap_up"
  /\ Speak(Says(Planned, "wrap_up", NoQuestion, NoProbe), AfterWrapUp(Planned))

-----------------------------------------------------------------------------

(* The response arrives and is stored: turns and snapshot in one           *)
(* transaction.  The next exchange restores the engine from that snapshot. *)
Respond ==
  /\ phase = "speaking"
  /\ Resting(engine)
  /\ phase' = "idle"
  /\ stored' = ToSnapshot(engine)
  /\ engine' = FromSnapshot(ToSnapshot(engine))
  /\ transcript' = transcript \cup turns
  /\ turns' = {}
  /\ UNCHANGED <<left, asOf>>

(* UnanswerableError, an unreachable worker, a timeout: nothing is stored. *)
ExchangeFails ==
  /\ phase = "speaking"
  /\ phase' = "idle"
  /\ engine' = FromSnapshot(stored)
  /\ turns' = {}
  /\ UNCHANGED <<left, stored, transcript, asOf>>

Tick ==
  /\ \E later \in Readings : later < left /\ left' = later
  /\ UNCHANGED <<stored, transcript, phase, asOf, engine, turns>>

Next ==
  \/ ReceiveStart \/ ReceiveAnswer \/ ReceiveSkip \/ ReceiveEnd
  \/ SpeakIntro \/ AskQuestion \/ AskFollowUp
  \/ InviteCandidateQuestions \/ AnswerCandidateQuestion \/ SpeakWrapUp
  \/ Respond \/ ExchangeFails \/ Tick

Spec == Init /\ [][Next]_vars

-----------------------------------------------------------------------------
(* Properties.                                                             *)

(* Every variable has its type; the transcript holds well-formed turns.    *)
TypeOK ==
  /\ left \in Readings
  /\ stored \in Snapshot
  /\ transcript \subseteq Turn
  /\ phase \in {"idle", "speaking"}
  /\ asOf \in Readings
  /\ engine \in EngineState
  /\ turns \subseteq Turn

Said(turnSet, state) == {t \in turnSet : t.state = state /\ t.speaker = "interviewer"}

Heard(turnSet) == {t \in turnSet : t.speaker = "candidate"}

(* Turn numbering has no hole and no clash: the stored turns take exactly  *)
(* the seqs below the snapshot's next_seq, one turn each.  The API upserts *)
(* turns by (session, seq) and drops the second of two that clash.         *)
Numbered(turnSet, nextSeq) ==
  /\ {t.seq : t \in turnSet} = 0 .. nextSeq - 1
  /\ \A s, t \in turnSet : s.seq = t.seq => s = t

TranscriptIsWhole == Numbered(transcript, stored.nextSeq)

(* The candidate's words sit between the interviewer's turn they answer,   *)
(* on the same question, and the interviewer's reply to them.              *)
Prompted(turnSet, c) ==
  \E t \in turnSet : /\ t.seq = c.seq - 1
                     /\ t.speaker = "interviewer"
                     /\ t.state = c.state
                     /\ t.question = c.question

RepliedTo(turnSet, c) == \E t \in turnSet : t.seq = c.seq + 1 /\ t.speaker = "interviewer"

AnswersFollowTheirQuestion ==
  \A c \in Heard(transcript) : Prompted(transcript, c) /\ RepliedTo(transcript, c)

(* Planned follow-ups are a menu: a probe on it is put to the candidate at *)
(* most once, and never after an answer of theirs was judged to reach it.  *)
Earned(turnSet) ==
  \A f \in Said(turnSet, "follow_up") :
    /\ f.question # NoQuestion
    /\ f.probe \in Probes(f.question)
    /\ \A t \in turnSet : t.question = f.question /\ t.seq < f.seq =>
         f.probe \notin t.answered \cup {t.probe}

FollowUpsAreEarned == Earned(transcript)

(* What a set of turns puts to the candidate, and what it finds answered.  *)
ProbesPut(turnSet) == {t.probe : t \in Said(turnSet, "follow_up")}

ProbesReached(turnSet) == UNION {t.answered : t \in turnSet}

(* A question gets no more follow-ups than the cap, whatever the model     *)
(* says, and a second probe on one criterion only when every open probe is *)
(* on a criterion already probed (probes.py, "prefer a criterion nothing   *)
(* has probed yet").                                                       *)
Rationed(turnSet) ==
  \A f \in Said(turnSet, "follow_up") :
    LET earlier == {t \in turnSet : t.question = f.question /\ t.seq < f.seq}
        probed  == {CriterionOf(f.question, p) : p \in ProbesPut(earlier)}
    IN  /\ Cardinality(ProbesPut(earlier)) < MaxFollowUps
        /\ CriterionOf(f.question, f.probe) \in probed =>
             \A p \in Probes(f.question) \ (ProbesReached(earlier) \cup ProbesPut(earlier)) :
               CriterionOf(f.question, p) \in probed

(* Questions are asked in the bundle's order, each once, never more than   *)
(* the question budget, and all that belongs to one is said before the     *)
(* next: no late answer lands under another question.                      *)
InOrder(turnSet, e) ==
  LET asked == Said(turnSet, "question")
  IN  /\ {t.question : t \in asked} = 0 .. e.questionsAsked - 1
      /\ Cardinality(asked) = e.questionsAsked
      /\ e.questionsAsked <= QuestionBudget
      /\ \A t \in turnSet, q \in asked :
           t.question # NoQuestion => (q.seq <= t.seq <=> q.question <= t.question)

(* The stored transcript reads as the conversation it was: questions in    *)
(* the plan's order, each with all that belongs to it, no more probing of  *)
(* one than is its share, and every word of the candidate's under the turn *)
(* it answers.                                                             *)
ConversationInOrder ==
  InOrder(transcript, stored) /\ Rationed(transcript) /\ AnswersFollowTheirQuestion

(* The close is spoken once, last, and exactly when the session is ended;  *)
(* only then is there an end_reason.                                       *)
ClosesOnce ==
  /\ \A t \in Said(transcript, "wrap_up") : t.seq = stored.nextSeq - 1
  /\ stored.state = "ended" <=> Said(transcript, "wrap_up") # {}
  /\ stored.state = "ended" <=> stored.endReason # None

(* awaiting and pending_text are not in the snapshot: whatever is stored   *)
(* must restore to the very state the engine was in (EngineState's         *)
(* docstring, "always at their resting values when one is written").       *)
RestIsRestorable ==
  phase = "speaking" /\ Resting(engine) =>
    FromSnapshot(ToSnapshot(engine)) = engine

(* However an interview ends, it ends once: one close, spoken last, and    *)
(* nothing written after it.                                               *)
EndsForGood ==
  [][/\ ClosesOnce'
     /\ stored.state = "ended" => UNCHANGED <<stored, transcript>>]_vars

(* No question after the first is opened without room for its answer and   *)
(* a probe, no follow-up without room for its answer.                      *)
NothingStartedWithoutRoom ==
  [][\A q \in Positions :
       LET before == engine.progress[q]
           after  == engine'.progress[q]
       IN  phase = "speaking" /\ phase' = "speaking" =>
             /\ q > 0 /\ after.asked /\ ~before.asked =>
                  HasTimeFor(SecondsToOpenAQuestion, asOf)
             /\ Len(after.probesAsked) > Len(before.probesAsked) =>
                  HasTimeFor(SecondsForAFollowUp, asOf)]_vars

Stores == phase = "speaking" /\ stored' # stored

(* Questions still in the bundle and the budget are left unasked only by   *)
(* the candidate ending, or for want of time to open one.                  *)
NoQuestionIsDropped ==
  [][/\ Stores
     /\ InAQuestion(stored) \/ stored.state = "intro"
     /\ stored'.state \in {"candidate_questions", "ended"}
     /\ stored'.questionsAsked < QuestionBudget
     /\ stored'.questionsAsked < NumQuestions
     => \/ ~HasTimeFor(SecondsToOpenAQuestion, asOf)
        \/ stored'.endReason = "candidate_ended"]_vars

(* The clock is the authority it is said to be, and no excuse: an exchange *)
(* past the deadline leaves the session ended whatever the candidate did,  *)
(* and end_reason is out_of_time only when there was no longer the time    *)
(* for the candidate's own questions.                                      *)
ClockIsObeyed ==
  [][Stores =>
       /\ OutOfTime(asOf) => stored'.state = "ended"
       /\ stored'.endReason = "out_of_time" =>
            ~HasTimeFor(SecondsForCandidateQuestions, asOf)]_vars

(* The session as its store sees it moves by whole exchanges of the        *)
(* abstract session, and fails by not moving at all.                       *)
StageOf(snapshot) ==
  IF snapshot.state \in {"intro", "ended"} THEN snapshot.state ELSE "open"

Abstract == INSTANCE InterviewSession WITH
  point <- [stage |-> StageOf(stored), next |-> stored.nextSeq]

ImplementsSession == Abstract!Spec

-----------------------------------------------------------------------------
(* The inductive invariant behind TypeOK, TranscriptIsWhole,               *)
(* FollowUpsAreEarned, RestIsRestorable and NothingStartedWithoutRoom; the *)
(* proofs module builds the other properties' invariants on it.            *)

(* The state is one the machine's guards presuppose: on a question when in *)
(* one, which is put before anything is awaited, and holding on to a       *)
(* candidate's question only until it is answered.                         *)
WellPlaced(e) ==
  /\ InAQuestion(e) => e.current \in Positions
  /\ e.state = "question" /\ e.awaiting => e.progress[e.current].asked
  /\ e.pending => e.state = "candidate_questions" /\ ~e.awaiting
  /\ e.state = "ended" => ~e.awaiting

(* The progress the snapshot carries remembers what the turns show.        *)
Recorded(turnSet, progress) ==
  \A t \in turnSet : t.question # NoQuestion =>
    /\ t.answered \subseteq progress[t.question].probesCovered
    /\ t.probe \in {NoProbe} \cup Range(progress[t.question].probesAsked)

Logged(turnSet, e) ==
  /\ Numbered(turnSet, e.nextSeq)
  /\ Recorded(turnSet, e.progress)
  /\ Earned(turnSet)

(* A question on its way to being opened, other than the first, was given  *)
(* its room.                                                               *)
RoomToOpen ==
  /\ phase = "speaking"
  /\ engine.state = "question"
  /\ engine.current > 0
  /\ ~engine.progress[engine.current].asked
  => HasTimeFor(SecondsToOpenAQuestion, asOf)

IInv ==
  /\ TypeOK
  /\ phase = "idle" => engine = FromSnapshot(stored) /\ turns = {}
  /\ stored.state = "ended" => phase = "idle"
  /\ WellPlaced(engine)
  /\ WellPlaced(FromSnapshot(stored))
  /\ Logged(transcript, stored)
  /\ Logged(transcript \cup turns, engine)
  /\ RoomToOpen
=============================================================================
