------------------------- MODULE EvaluationPipeline -------------------------
(***************************************************************************)
(* Scoring one interview once it has ended: the doors that queue it, the   *)
(* BullMQ job under the session's id, the attempts of the processor at it, *)
(* the rows and the report they store, and the sweep for lost enqueues.    *)
(*                                                                         *)
(* Of what the model thought of an answer only the status of its row is    *)
(* kept: "ok", or "failed" (no usable output, or the worker could not be   *)
(* reached on the last attempt).  EVALUATION_CONCURRENCY is taken to be at *)
(* least the number of answers.                                            *)
(*                                                                         *)
(* BullMQ hands out the job of an attempt that does not renew its lock,    *)
(* whether or not it is still at work, so several attempts may be at a     *)
(* session at once.  Only the one that holds the lock settles the job.     *)
(***************************************************************************)
EXTENDS FiniteSetsExt, Integers

CONSTANTS
  Questions,   \* positions of the session's questions
  Attempts,    \* job attempts (3 in evaluation.queue.ts)
  Slots,       \* where an attempt may run: two to a process
  MaxFaults    \* bound: things that go wrong in a behaviour

ASSUME PipelineAssumption ==
  /\ Questions \subseteq Nat /\ IsFiniteSet(Questions)
  /\ Attempts \in Nat \ {0}
  /\ MaxFaults \in Nat

VARIABLES
  ended,     \* interview_sessions.state = ended?
  answered,  \* questions with a candidate turn
  aside,     \* is there a candidate turn that answers no question?
  late,      \* an exchange in flight when the session was abandoned
  owed,      \* has a door yet to call onSessionsEnded?
  rows,      \* answer_evaluations: the status of each
  report,    \* session_reports: the rows it was assembled from
  outOfTurn, \* history: did an attempt that had lost the job write it?
  job,       \* the BullMQ job whose id is the session's
  runs,      \* the attempts under way
  faults     \* how many things have gone wrong

session == <<ended, answered, aside, late>>
stored  == <<rows, report, outOfTurn>>
vars    == <<session, owed, stored, job, runs, faults>>

-----------------------------------------------------------------------------
Outcomes == {"ok", "failed"}

NoRow == "none"

NoReport == [q \in {-1} |-> NoRow]

Reports == {NoReport} \cup UNION {[A -> Outcomes \cup {NoRow}] : A \in SUBSET Questions}

Job == [state   : {"none", "waiting", "active", "completed", "failed"},
        made    : 0 .. Attempts,    \* attemptsMade
        stalled : BOOLEAN]

NoJob == [state |-> "none", made |-> 0, stalled |-> FALSE]

Queued == [NoJob EXCEPT !.state = "waiting"]

(* An attempt asks about answers, reads back the rows to report on, and    *)
(* writes the report; one that has failed may have left calls running.     *)
(* answers: what answersOf found; todo: those with no row yet, of which the*)
(* first is asked about alone and the rest together; shared: those of them *)
(* that another attempt had or got to do as well (history).                *)
Run == [stage : {"none", "asking", "reporting", "left"},
        holds : BOOLEAN, final : BOOLEAN, answers : SUBSET Questions,
        todo : SUBSET Questions, shared : SUBSET Questions, begun : BOOLEAN,
        unreachable : BOOLEAN, draft : Reports]

NoRun == [stage |-> "none", holds |-> FALSE, final |-> FALSE, answers |-> {},
          todo |-> {}, shared |-> {}, begun |-> FALSE, unreachable |-> FALSE,
          draft |-> NoReport]

Init ==
  /\ ended = FALSE /\ answered = {} /\ aside = FALSE /\ late = "none"
  /\ owed = FALSE
  /\ rows = [q \in Questions |-> NoRow]
  /\ report = NoReport /\ outOfTurn = FALSE
  /\ job = NoJob /\ runs = [a \in Slots |-> NoRun]
  /\ faults = 0

Faulty == faults < MaxFaults /\ faults' = faults + 1

FinalAttempt == job.made + 1 >= Attempts

-----------------------------------------------------------------------------
(* The session ends, by an exchange or by being abandoned.                 *)

Says(more) ==
  /\ answered' = answered \cup more
  /\ aside' \in IF aside THEN {TRUE} ELSE BOOLEAN

EndsByExchange ==
  /\ ~ended
  /\ ended' = TRUE /\ owed' = TRUE
  /\ \E more \in SUBSET Questions : Says(more)
  /\ UNCHANGED <<late, stored, job, runs, faults>>

(* create() or the stale sweep; an exchange may be in flight.              *)
IsAbandoned ==
  /\ ~ended
  /\ ended' = TRUE /\ owed' = TRUE
  /\ \E more \in SUBSET Questions : Says(more)
  /\ late' \in IF late = "none" THEN {"none", "in_flight"} ELSE {late}
  /\ UNCHANGED <<stored, job, runs, faults>>

(* The exchange lands: the session is in progress again, or has ended now. *)
LateExchange ==
  /\ late = "in_flight"
  /\ late' = "written"
  /\ \E more \in {{}} \cup {{q} : q \in Questions} : Says(more)
  /\ ended' \in BOOLEAN
  /\ owed' = (owed \/ ended')
  /\ UNCHANGED <<stored, job, runs, faults>>

-----------------------------------------------------------------------------
(* Enqueueing.                                                             *)

EndedWithAnswers == ended /\ (answered # {} \/ aside)

(* Mutant: a finished job is left in place, and nothing is added.          *)
QueueOnce == IF job.state = "none" THEN Queued ELSE job

(* A finished job is dropped and queued anew, one in flight left alone.    *)
Enqueued ==
  IF job.state \in {"none", "completed", "failed"} THEN Queued ELSE job

OnSessionEnded ==
  /\ owed
  /\ owed' = FALSE
  /\ job' = IF EndedWithAnswers THEN Enqueued ELSE job
  /\ UNCHANGED <<session, stored, runs, faults>>

(* The process dies first, or the enqueue fails and is logged.             *)
EnqueueIsLost ==
  /\ owed
  /\ owed' = FALSE
  /\ Faulty
  /\ UNCHANGED <<session, stored, job, runs>>

(* The candidate opens the report, or the sweep comes to the session: both *)
(* queue what has ended with answers and has no report.                    *)
Recover ==
  /\ EndedWithAnswers /\ report = NoReport
  /\ job' = Enqueued
  /\ UNCHANGED <<session, owed, stored, runs, faults>>

-----------------------------------------------------------------------------
(* Attempts: EvaluationProcessor.process.                                  *)

(* Mutant: answers that have a row are asked about again.                  *)
EveryAnswer(answers) == answers

Unstored(answers) == {q \in answers : rows[q] = NoRow}

ToScore == ended /\ answered # {}

Open == UNION {runs[a].todo : a \in Slots}

(* The attempt at slot a, and the others now that it shares their work.    *)
TakenAt(a) ==
  [b \in Slots |->
     IF b = a
     THEN [NoRun EXCEPT !.stage = "asking", !.holds = TRUE, !.final = FinalAttempt,
                        !.answers = answered, !.todo = Unstored(answered),
                        !.shared = Unstored(answered) \cap Open]
     ELSE [runs[b] EXCEPT !.shared = @ \cup (runs[b].todo \cap Unstored(answered))]]

(* The job is taken and the session read; there may be nothing to do.      *)
Take(a) ==
  /\ job.state = "waiting" /\ runs[a] = NoRun
  /\ IF ToScore
     THEN /\ job' = [job EXCEPT !.state = "active"]
          /\ runs' = TakenAt(a)
     ELSE /\ job' = [job EXCEPT !.state = "completed"]
          /\ UNCHANGED runs
  /\ UNCHANGED <<session, owed, stored, faults>>

Asking(a) ==
  IF runs[a].stage # "asking" THEN {}
  ELSE IF runs[a].begun \/ runs[a].todo = {} THEN runs[a].todo ELSE {Min(runs[a].todo)}

Asked(a, q) ==
  [runs[a] EXCEPT !.todo = @ \ {q}, !.shared = @ \ {q}, !.begun = TRUE]

Becomes(a, run) == runs' = [runs EXCEPT ![a] = run]

Save(q, outcome) == rows' = [rows EXCEPT ![q] = outcome]

Evaluate(a, q) ==
  /\ q \in Asking(a)
  /\ \E outcome \in Outcomes : Save(q, outcome)
  /\ Becomes(a, Asked(a, q))
  /\ UNCHANGED <<session, owed, report, outOfTurn, job, faults>>

(* Mutant: nothing is stored for an answer that was given up on.           *)
ForgetIt(q, final) == UNCHANGED rows

(* On the last attempt the answer is stored as failed.                     *)
GiveUp(q, final) == IF final THEN Save(q, "failed") ELSE UNCHANGED rows

WorkerUnreachable(a, q) ==
  /\ q \in Asking(a)
  /\ GiveUp(q, runs[a].final)
  /\ Becomes(a, [Asked(a, q) EXCEPT !.unreachable = TRUE])
  /\ UNCHANGED <<session, owed, report, outOfTurn, job, faults>>

(* The report is assembled from what is stored, however many runs it took. *)
ReadStored(a) ==
  /\ runs[a].stage = "asking" /\ runs[a].todo = {}
  /\ Becomes(a, [runs[a] EXCEPT !.stage = "reporting",
                                !.draft = [q \in runs[a].answers |-> rows[q]]])
  /\ UNCHANGED <<session, owed, stored, job, faults>>

(* BullMQ takes the word of the attempt that holds the lock, and no other. *)
Settled(a, failed) ==
  IF ~runs[a].holds THEN job
  ELSE IF ~failed THEN [job EXCEPT !.state = "completed"]
  ELSE [job EXCEPT !.state = IF runs[a].final THEN "failed" ELSE "waiting", !.made = @ + 1]

(* The report is written, and the attempt is over: it fails if the report  *)
(* is partial and there is another attempt.                                *)
SaveReport(a) ==
  /\ runs[a].stage = "reporting"
  /\ report' = runs[a].draft /\ outOfTurn' = ~runs[a].holds
  /\ job' = Settled(a, runs[a].unreachable /\ ~runs[a].final)
  /\ Becomes(a, NoRun)
  /\ UNCHANGED <<session, owed, rows, faults>>

Left(a, calls) ==
  IF calls = {} THEN NoRun
  ELSE [NoRun EXCEPT !.stage = "left", !.final = runs[a].final, !.todo = calls,
                     !.shared = runs[a].shared \cap calls]

(* The database refuses a write.  Promise.all rejects at once, and the     *)
(* answers asked about together with this one are still being asked about. *)
SaveFails(a, q) ==
  /\ q \in Asking(a)
  /\ Faulty
  /\ job' = Settled(a, TRUE)
  /\ Becomes(a, Left(a, Asking(a) \ {q}))
  /\ UNCHANGED <<session, owed, stored>>

AssembleFails(a) ==
  /\ runs[a].stage \in {"asking", "reporting"} /\ runs[a].todo = {}
  /\ Faulty
  /\ job' = Settled(a, TRUE)
  /\ Becomes(a, NoRun)
  /\ UNCHANGED <<session, owed, stored>>

LeftCallEnds(a, q) ==
  /\ runs[a].stage = "left" /\ q \in runs[a].todo
  /\ \/ \E outcome \in Outcomes : Save(q, outcome)
     \/ GiveUp(q, runs[a].final)
  /\ Becomes(a, Left(a, runs[a].todo \ {q}))
  /\ UNCHANGED <<session, owed, report, outOfTurn, job, faults>>

(* A process dies with its attempts and all their calls.                   *)
ProcessDies(dead) ==
  /\ \E a \in dead : runs[a].stage \notin {"none", "left"}
  /\ Faulty
  /\ runs' = [a \in Slots |-> IF a \in dead THEN NoRun ELSE runs[a]]
  /\ UNCHANGED <<session, owed, stored, job>>

-----------------------------------------------------------------------------
(* BullMQ and Redis.                                                       *)

Held == \E a \in Slots : runs[a].holds

Released == [a \in Slots |-> [runs[a] EXCEPT !.holds = FALSE]]

Stalled ==
  [job EXCEPT !.state = IF job.stalled THEN "failed" ELSE "waiting", !.stalled = TRUE]

(* A job whose worker is gone is queued again, the second time failed.     *)
JobStalls ==
  /\ job.state = "active" /\ ~Held
  /\ job' = Stalled
  /\ UNCHANGED <<session, owed, stored, runs, faults>>

(* So is one whose worker has not renewed the lock, and works on.          *)
LockIsLost ==
  /\ Held
  /\ Faulty
  /\ job' = Stalled /\ runs' = Released
  /\ UNCHANGED <<session, owed, stored>>

RedisIsFlushed ==
  /\ job.state # "none"
  /\ Faulty
  /\ job' = NoJob /\ runs' = Released
  /\ UNCHANGED <<session, owed, stored>>

Working(a) ==
  \/ \E q \in Questions : Evaluate(a, q) \/ WorkerUnreachable(a, q) \/ LeftCallEnds(a, q)
  \/ ReadStored(a) \/ SaveReport(a)

Failing(a) == (\E q \in Questions : SaveFails(a, q)) \/ AssembleFails(a)

(* One slot is as good as another.                                         *)
Taking ==
  LET free == {a \in Slots : runs[a] = NoRun}
  IN  free # {} /\ Take(CHOOSE a \in free : TRUE)

Next ==
  \/ EndsByExchange \/ IsAbandoned \/ LateExchange
  \/ OnSessionEnded \/ EnqueueIsLost \/ Recover
  \/ Taking \/ (\E a \in Slots : Working(a) \/ Failing(a))
  \/ (\E dead \in SUBSET Slots : ProcessDies(dead))
  \/ JobStalls \/ LockIsLost \/ RedisIsFlushed

(* The sweep runs every ten minutes on the database and takes the oldest   *)
(* first; BullMQ hands out what waits and finds what stalled; a call to    *)
(* the worker ends, by its timeout at the latest.                          *)
Fairness ==
  /\ WF_vars(Recover) /\ WF_vars(Taking) /\ WF_vars(JobStalls)
  /\ \A a \in Slots : WF_vars(Working(a))

Spec == Init /\ [][Next]_vars /\ Fairness

-----------------------------------------------------------------------------
(* Properties.                                                             *)

TypeOK ==
  /\ ended \in BOOLEAN /\ answered \subseteq Questions /\ aside \in BOOLEAN
  /\ late \in {"none", "in_flight", "written"}
  /\ owed \in BOOLEAN
  /\ rows \in [Questions -> Outcomes \cup {NoRow}]
  /\ report \in Reports /\ outOfTurn \in BOOLEAN
  /\ job \in Job /\ runs \in [Slots -> Run]
  /\ faults \in 0 .. MaxFaults

Rescored(q) == rows[q] # NoRow /\ rows'[q] # rows[q]

(* "An answer with a row is never re-scored" (the processor's header),     *)
(* save by an attempt that took it up while another still had a call about *)
(* it to make or to finish: one that had failed and left the call running, *)
(* or one whose job was taken from it.  Once such calls are over, the      *)
(* score stands.                                                           *)
OnlySharedRescore ==
  [][\A q \in Questions :
       Rescored(q) => \E a \in Slots : q \in runs[a].shared /\ q \notin runs'[a].shared]_vars

HasGap == \E q \in answered : q \notin DOMAIN report \/ report[q] = NoRow

CameBack == late = "written"

Scoring == job.state \in {"waiting", "active"}

(* A report tells of answers and of nothing else (none reads "0 of 0").    *)
(* Unless the session came back to life meanwhile, a job that completes    *)
(* leaves one with something to say of each answer (until an attempt that  *)
(* had lost the job writes over it), and a partial one is on its way to    *)
(* being filled (process(), "a retry that fills the gap rewrites it")      *)
(* unless something other than the worker has gone wrong.                  *)
CompletedIsComplete ==
  /\ report # NoReport => DOMAIN report # {} /\ DOMAIN report \subseteq answered
  /\ ~CameBack =>
       /\ job.state = "completed" /\ answered # {} /\ ~outOfTurn => ~HasGap
       /\ report # NoReport /\ HasGap /\ faults = 0 => Scoring

(* There is always a report for what was answered, however often an        *)
(* enqueue is lost, the process dies or the job fails.                     *)
ReportInTheEnd == ended /\ answered # {} ~> report # NoReport \/ ~ended
=============================================================================
