---------------------- MODULE EvaluationPipelineProofs ----------------------
(***************************************************************************)
(* What holds of the scoring of a session, for any number of answers, of   *)
(* attempts, of attempts at once and of things that go wrong.              *)
(***************************************************************************)
EXTENDS EvaluationPipeline, WellFoundedInduction, TLAPS

-----------------------------------------------------------------------------
(* The inductive invariant. *)

Busy(a) == runs[a].stage \in {"asking", "reporting"}

(* An attempt is about answers there are; one that holds the lock is at an *)
(* active job, and knows whether it is the last.                           *)
Fit(a) ==
  /\ runs[a].stage = "none" => runs[a] = NoRun
  /\ runs[a].holds => Busy(a) /\ job.state = "active" /\ (runs[a].final <=> FinalAttempt)
  /\ Busy(a) => runs[a].answers # {} /\ runs[a].answers \subseteq answered
  /\ runs[a].stage = "reporting" => runs[a].todo = {} /\ DOMAIN runs[a].draft = runs[a].answers
  /\ runs[a].shared \subseteq runs[a].todo

(* The lock is held once.                                                  *)
Running ==
  /\ \A a \in Slots : Fit(a)
  /\ \A a, b \in Slots : runs[a].holds /\ runs[b].holds => a = b

(* There is an attempt left for a job that is to be attempted.             *)
Tries == job.state \in {"waiting", "active"} => job.made < Attempts

(* What an attempt has still to ask about has no row, unless another had   *)
(* it to do as well; and if another has, both know.                        *)
Unscored ==
  \A a \in Slots : \A q \in runs[a].todo :
    /\ rows[q] = NoRow \/ q \in runs[a].shared
    /\ \A b \in Slots : b # a /\ q \in runs[b].todo => q \in runs[a].shared

(* A report tells of answers.                                              *)
Tells == report # NoReport => DOMAIN report # {} /\ DOMAIN report \subseteq answered

(* What an attempt could not reach it leaves to the next one.              *)
Leaves(a) == runs[a].unreachable /\ ~runs[a].final

(* What an attempt is done with has a row, or is left; so with its report. *)
Done(a) ==
  /\ Busy(a) => runs[a].answers = answered
  /\ runs[a].stage = "asking" =>
       \A q \in answered \ runs[a].todo : rows[q] # NoRow \/ Leaves(a)
  /\ runs[a].stage = "reporting" =>
       \A q \in answered : runs[a].draft[q] # NoRow \/ Leaves(a)

(* While the session stays ended: there is no job before its end, and an   *)
(* attempt is about everything that was answered; a job is completed only  *)
(* by a report without a gap.                                              *)
Steady ==
  ~CameBack =>
    /\ ~ended => /\ job.state = "none" /\ report = NoReport
                 /\ \A a \in Slots : runs[a] = NoRun
    /\ \A a \in Slots : Done(a)
    /\ job.state = "completed" /\ answered # {} /\ ~outOfTurn => ~HasGap

(* While nothing has gone wrong but the worker, no job is lost or fails,   *)
(* and no attempt is at work without one.                                  *)
Smooth ==
  ~CameBack /\ faults = 0 =>
    /\ job.state = "active" => Held
    /\ job.state # "failed"
    /\ report # NoReport => job.state # "none"
    /\ \A a \in Slots : runs[a] # NoRun => runs[a].holds
    /\ ~outOfTurn

IInv == TypeOK /\ Running /\ Tries /\ Unscored /\ Tells /\ Steady /\ Smooth

-----------------------------------------------------------------------------
(* Data *)

(* The first of a set of positions is one of them.                         *)
LEMMA FirstIsOne ==
  ASSUME NEW S, S \subseteq Nat, S # {}
  PROVE  Min(S) \in S
<1>1. PICK x \in S : \A y \in S : ~(<<y, x>> \in OpToRel(<, Nat))
  BY NatLessThanWellFounded, WFMin
<1>2. ASSUME NEW y \in S PROVE x =< y
  <2>1. x \in Nat /\ y \in Nat
    OBVIOUS
  <2>2. y < x => <<y, x>> \in OpToRel(<, Nat)
    <3> DEFINE p == <<y, x>>
    <3>1. p \in Nat \X Nat /\ p[1] = y /\ p[2] = x
      BY <2>1
    <3>2. QED
      BY <3>1 DEF OpToRel
  <2>3. ~(y < x)
    BY <1>1, <2>2
  <2>4. QED
    BY <2>1, <2>3
<1>3. QED
  BY <1>1, <1>2 DEF Min

(* What an attempt is made of.                                             *)
LEMMA RunFacts ==
  ASSUME TypeOK, NEW a \in Slots
  PROVE  /\ runs[a] \in Run
         /\ runs[a].stage \in {"none", "asking", "reporting", "left"}
         /\ runs[a].holds \in BOOLEAN /\ runs[a].final \in BOOLEAN
         /\ runs[a].answers \subseteq Questions /\ runs[a].todo \subseteq Questions
         /\ runs[a].shared \subseteq Questions /\ runs[a].unreachable \in BOOLEAN
         /\ runs[a].draft \in Reports
  BY DEF TypeOK, Run

(* A free slot: nothing is held, asked or shared.                          *)
LEMMA NoRunFacts ==
  /\ NoRun \in Run /\ NoRun.stage = "none" /\ NoRun.holds = FALSE
  /\ NoRun.todo = {} /\ NoRun.shared = {}
<1>1. NoReport \in Reports
  BY DEF Reports
<1>2. NoRun \in Run
  BY <1>1, Zenon DEF NoRun, Run
<1>3. QED
  BY <1>2 DEF NoRun

(* Whom an attempt asks about, it has still to ask about.                  *)
LEMMA AskingIsToDo ==
  ASSUME TypeOK, NEW a \in Slots
  PROVE  /\ Asking(a) \subseteq runs[a].todo /\ runs[a].todo \subseteq Questions
         /\ Asking(a) # {} => runs[a].stage = "asking"
<1>1. runs[a].todo \subseteq Questions
  BY RunFacts
<1>2. runs[a].todo # {} => Min(runs[a].todo) \in runs[a].todo
  BY <1>1, FirstIsOne, PipelineAssumption DEF PipelineAssumption
<1>3. QED
  BY <1>1, <1>2 DEF Asking

(* What an attempt becomes once an answer is asked about,                  *)
LEMMA AskedFacts ==
  ASSUME TypeOK, NEW a \in Slots, NEW q \in Questions
  PROVE  /\ Asked(a, q) \in Run
         /\ Asked(a, q).stage = runs[a].stage /\ Asked(a, q).holds = runs[a].holds
         /\ Asked(a, q).final = runs[a].final /\ Asked(a, q).answers = runs[a].answers
         /\ Asked(a, q).draft = runs[a].draft /\ Asked(a, q).unreachable = runs[a].unreachable
         /\ Asked(a, q).todo = runs[a].todo \ {q} /\ Asked(a, q).shared = runs[a].shared \ {q}
<1>1. runs[a] \in Run
  BY RunFacts
<1>2. Asked(a, q) \in Run
  <2>1. runs[a].todo \ {q} \subseteq Questions /\ runs[a].shared \ {q} \subseteq Questions
    BY RunFacts
  <2>2. QED
    BY <1>1, <2>1, Zenon DEF Run, Asked
<1>3. QED
  BY <1>1, <1>2 DEF Run, Asked

(* and when the worker was not reached.                                    *)
LEMMA UnreachedFacts ==
  ASSUME NEW r \in Run, NEW u, u = [r EXCEPT !.unreachable = TRUE]
  PROVE  /\ u \in Run
         /\ u.stage = r.stage /\ u.holds = r.holds /\ u.final = r.final
         /\ u.answers = r.answers /\ u.draft = r.draft /\ u.unreachable = TRUE
         /\ u.todo = r.todo /\ u.shared = r.shared
<1>1. u \in Run
  BY Zenon DEF Run
<1>2. QED
  BY <1>1 DEF Run

(* What a failed attempt leaves running.                                   *)
LEMMA LeftFacts ==
  ASSUME TypeOK, NEW a \in Slots, NEW calls \in SUBSET Questions
  PROVE  /\ Left(a, calls) \in Run
         /\ Left(a, calls).stage \in {"none", "left"} /\ Left(a, calls).holds = FALSE
         /\ Left(a, calls).stage = "none" => Left(a, calls) = NoRun
         /\ Left(a, calls).todo = calls
         /\ Left(a, calls).shared = runs[a].shared \cap calls
<1>1. CASE calls = {}
  BY <1>1, NoRunFacts DEF Left
<1>2. CASE calls # {}
  <2>1. runs[a].final \in BOOLEAN /\ runs[a].shared \cap calls \subseteq Questions
    BY RunFacts
  <2>2. Left(a, calls) \in Run
    BY <1>2, <2>1, NoRunFacts, Zenon DEF Left, Run
  <2>3. QED
    BY <1>2, <2>2, NoRunFacts DEF Left, Run
<1>3. QED
  BY <1>1, <1>2

(* Only the slot written to becomes another.                               *)
LEMMA BecomesFacts ==
  ASSUME TypeOK, NEW a \in Slots, NEW r \in Run, Becomes(a, r)
  PROVE  /\ runs' \in [Slots -> Run] /\ runs'[a] = r
         /\ \A b \in Slots : b # a => runs'[b] = runs[b]
  BY DEF TypeOK, Becomes

(* The locks are gone, and nothing else.                                   *)
LEMMA ReleasedFacts ==
  ASSUME TypeOK
  PROVE  /\ Released \in [Slots -> Run]
         /\ \A a \in Slots :
              /\ Released[a].holds = FALSE /\ Released[a].stage = runs[a].stage
              /\ Released[a].final = runs[a].final /\ Released[a].answers = runs[a].answers
              /\ Released[a].todo = runs[a].todo /\ Released[a].shared = runs[a].shared
              /\ Released[a].unreachable = runs[a].unreachable
              /\ Released[a].draft = runs[a].draft
              /\ runs[a] = NoRun => Released[a] = NoRun
<1>1. ASSUME NEW a \in Slots
      PROVE  /\ Released[a] = [runs[a] EXCEPT !.holds = FALSE]
             /\ [runs[a] EXCEPT !.holds = FALSE] \in Run
  <2>1. runs[a] \in Run
    BY RunFacts
  <2>2. [runs[a] EXCEPT !.holds = FALSE] \in Run
    BY <2>1, Zenon DEF Run
  <2>3. QED
    BY <2>2 DEF Released
<1>2. Released \in [Slots -> Run]
  BY <1>1 DEF Released
<1>3. ASSUME NEW a \in Slots, runs[a] = NoRun PROVE Released[a] = NoRun
  BY <1>1, <1>3 DEF NoRun
<1>4. ASSUME NEW a \in Slots
      PROVE  /\ Released[a].holds = FALSE /\ Released[a].stage = runs[a].stage
             /\ Released[a].final = runs[a].final /\ Released[a].answers = runs[a].answers
             /\ Released[a].todo = runs[a].todo /\ Released[a].shared = runs[a].shared
             /\ Released[a].unreachable = runs[a].unreachable
             /\ Released[a].draft = runs[a].draft
  <2>1. Released[a] = [runs[a] EXCEPT !.holds = FALSE]
    BY <1>1
  <2>2. runs[a] \in Run
    BY RunFacts
  <2>3. QED
    BY <2>1, <2>2 DEF Run
<1>5. QED
  BY <1>2, <1>3, <1>4

(* A job is queued, or is left as it is.                                   *)
LEMMA QueuedTyped ==
  ASSUME TypeOK
  PROVE  /\ NoJob \in Job /\ Queued \in Job /\ Queued.state = "waiting" /\ NoJob.state = "none"
         /\ Queued.made < Attempts
         /\ Enqueued \in Job
         /\ \/ job.state \in {"waiting", "active"} /\ Enqueued = job
            \/ job.state \in {"none", "completed", "failed"} /\ Enqueued = Queued
<1>1. 0 \in 0 .. Attempts
  BY PipelineAssumption DEF PipelineAssumption
<1>2. NoJob \in Job
  BY <1>1, Zenon DEF NoJob, Job
<1>3. Queued \in Job
  BY <1>2, Zenon DEF Queued, Job
<1>4. Queued.state = "waiting" /\ NoJob.state = "none" /\ Queued.made < Attempts
  BY PipelineAssumption DEF PipelineAssumption, Queued, NoJob
<1>5. job \in Job
  BY DEF TypeOK
<1>6. job.state \in {"none", "waiting", "active", "completed", "failed"}
  BY <1>5 DEF Job
<1>7. QED
  BY <1>2, <1>3, <1>4, <1>5, <1>6 DEF Enqueued

(* What is written to a job keeps its shape.                               *)
LEMMA JobTyped ==
  ASSUME TypeOK, NEW state \in {"none", "waiting", "active", "completed", "failed"}
  PROVE  /\ [job EXCEPT !.state = state] \in Job
         /\ [job EXCEPT !.state = state].state = state
         /\ [job EXCEPT !.state = state].made = job.made
         /\ [job EXCEPT !.state = state, !.stalled = TRUE] \in Job
         /\ [job EXCEPT !.state = state, !.stalled = TRUE].state = state
         /\ [job EXCEPT !.state = state, !.stalled = TRUE].made = job.made
<1>1. job \in Job
  BY DEF TypeOK
<1>2. [job EXCEPT !.state = state] \in Job
  BY <1>1, Zenon DEF Job
<1>3. [job EXCEPT !.state = state, !.stalled = TRUE] \in Job
  BY <1>1, Zenon DEF Job
<1>4. QED
  BY <1>1, <1>2, <1>3 DEF Job

(* A job without its worker is queued again or has failed.                 *)
LEMMA StalledFacts ==
  ASSUME TypeOK
  PROVE  Stalled \in Job /\ Stalled.state \in {"waiting", "failed"} /\ Stalled.made = job.made
  BY JobTyped DEF Stalled

(* What an attempt makes of its job: nothing, unless it holds the lock.    *)
LEMMA SettledFacts ==
  ASSUME IInv, NEW a \in Slots, NEW failed \in BOOLEAN
  PROVE  /\ Settled(a, failed) \in Job
         /\ ~runs[a].holds => Settled(a, failed) = job
         /\ runs[a].holds /\ ~failed => Settled(a, failed).state = "completed"
         /\ runs[a].holds /\ failed =>
              /\ Settled(a, failed).state = IF runs[a].final THEN "failed" ELSE "waiting"
              /\ ~runs[a].final => Settled(a, failed).made < Attempts
<1>1. job \in Job /\ job.made \in 0 .. Attempts
  BY DEF IInv, TypeOK, Job
<1>2. runs[a].holds => job.made < Attempts /\ (runs[a].final <=> FinalAttempt)
  BY DEF IInv, Running, Fit, Tries
<1>3. runs[a].holds => job.made + 1 \in 0 .. Attempts
  BY <1>1, <1>2, PipelineAssumption DEF PipelineAssumption
<1>4. ASSUME runs[a].holds, failed
      PROVE  /\ Settled(a, failed) \in Job
             /\ Settled(a, failed).state = IF runs[a].final THEN "failed" ELSE "waiting"
             /\ Settled(a, failed).made = job.made + 1
  <2> DEFINE end == IF runs[a].final THEN "failed" ELSE "waiting"
  <2>1. end \in {"failed", "waiting"}
    OBVIOUS
  <2>2. Settled(a, failed) = [job EXCEPT !.state = end, !.made = @ + 1]
    BY <1>4 DEF Settled
  <2> HIDE DEF end
  <2>3. [job EXCEPT !.state = end, !.made = @ + 1] \in Job
    BY <1>1, <1>3, <1>4, <2>1, Zenon DEF Job
  <2>4. QED
    BY <1>1, <2>2, <2>3 DEF Job, end
<1>5. ~runs[a].final /\ runs[a].holds => job.made + 1 < Attempts
  BY <1>1, <1>2, PipelineAssumption DEF PipelineAssumption, FinalAttempt
<1>6. QED
  BY <1>1, <1>4, <1>5, JobTyped DEF Settled, IInv

(* One more thing has gone wrong.                                          *)
LEMMA FaultCounted ==
  ASSUME TypeOK, Faulty
  PROVE  faults' \in 0 .. MaxFaults /\ faults' # 0
  BY PipelineAssumption DEF PipelineAssumption, TypeOK, Faulty

-----------------------------------------------------------------------------
(* What a step leaves alone. *)

(* An attempt that is not touched stays what it is, at any rate while its  *)
(* job does.                                                               *)
LEMMA FitStays ==
  ASSUME IInv, NEW a \in Slots, runs'[a] = runs[a], answered \subseteq answered',
         runs[a].holds => job' = job
  PROVE  Fit(a)'
<1>1. Fit(a)
  BY DEF IInv, Running
<1>2. job' = job => (FinalAttempt' <=> FinalAttempt)
  BY DEF FinalAttempt
<1>3. QED
  BY <1>1, <1>2 DEF Fit, Busy

(* Nor does more rows make it less done.                                   *)
LEMMA DoneStays ==
  ASSUME IInv, ~CameBack, NEW a \in Slots, runs'[a] = runs[a], answered' = answered,
         \A q \in Questions : rows[q] # NoRow => rows'[q] # NoRow
  PROVE  Done(a)'
<1>1. Done(a) /\ answered \subseteq Questions
  BY DEF IInv, Steady, TypeOK
<1>2. QED
  BY <1>1 DEF Done, Busy, Leaves

(* Who is at work is so on a session that has ended, for all that came     *)
(* back.                                                                   *)
LEMMA UnderWay ==
  ASSUME IInv, NEW a \in Slots, runs[a] # NoRun
  PROVE  CameBack \/ (ended /\ Done(a))
  BY DEF IInv, Steady

-----------------------------------------------------------------------------
(* The first state. *)
LEMMA InitKeeps == Init => IInv
<1> SUFFICES ASSUME Init PROVE IInv
  OBVIOUS
<1>1. job = NoJob /\ report = NoReport /\ \A a \in Slots : runs[a] = NoRun
  BY DEF Init
<1>2. TypeOK
  <2>1. NoJob \in Job
    <3>1. 0 \in 0 .. Attempts
      BY PipelineAssumption DEF PipelineAssumption
    <3>2. QED
      BY <3>1, Zenon DEF NoJob, Job
  <2>2. faults \in 0 .. MaxFaults
    BY PipelineAssumption DEF PipelineAssumption, Init
  <2>3. ended \in BOOLEAN /\ aside \in BOOLEAN /\ owed \in BOOLEAN /\ outOfTurn \in BOOLEAN
    BY Zenon DEF Init
  <2>4. runs \in [Slots -> Run]
    BY NoRunFacts DEF Init
  <2>5. report \in Reports
    BY <1>1 DEF Reports
  <2>6. QED
    BY <1>1, <2>1, <2>2, <2>3, <2>4, <2>5 DEF Init, TypeOK
<1>3. job.state = "none"
  BY <1>1 DEF NoJob
<1>4. Running /\ Unscored
  BY <1>1, NoRunFacts DEF Running, Fit, Busy, Unscored
<1>5. Steady
  BY <1>1, <1>3, NoRunFacts DEF Init, Steady, Done, Busy
<1>6. Smooth
  BY <1>1, <1>3 DEF Init, Smooth
<1>7. QED
  BY <1>1, <1>2, <1>3, <1>4, <1>5, <1>6 DEF IInv, Tries, Tells

-----------------------------------------------------------------------------
(* The session ends, and may come back. *)

(* Before its end there is nothing that more answers could make wrong.     *)
LEMMA EndingKeeps ==
  ASSUME IInv, EndsByExchange \/ IsAbandoned
  PROVE  IInv'
<1>1. /\ ~ended /\ ended' = TRUE /\ owed' = TRUE
      /\ answered \subseteq answered' /\ answered' \subseteq Questions
      /\ aside' \in BOOLEAN
      /\ late' \in {"none", "in_flight", "written"} /\ (CameBack => CameBack')
      /\ UNCHANGED <<stored, job, runs, faults>>
  <2>1. CASE EndsByExchange
    BY <2>1 DEF EndsByExchange, Says, IInv, TypeOK, CameBack
  <2>2. CASE IsAbandoned
    BY <2>2 DEF IsAbandoned, Says, IInv, TypeOK, CameBack
  <2>3. QED
    BY <2>1, <2>2
<1>2. TypeOK'
  BY <1>1 DEF IInv, TypeOK, stored
<1>3. Running'
  BY <1>1, FitStays DEF IInv, Running
<1>4. Tries' /\ Unscored' /\ Tells'
  BY <1>1 DEF IInv, Tries, Unscored, Tells, stored
<1>5. Steady'
  <2>1. CASE ~CameBack
    <3>1. job.state = "none" /\ \A a \in Slots : runs[a] = NoRun
      BY <1>1, <2>1 DEF IInv, Steady
    <3>2. job'.state = "none" /\ \A a \in Slots : Done(a)'
      BY <1>1, <3>1, NoRunFacts DEF Done, Busy
    <3>3. QED
      BY <1>1, <3>2 DEF Steady
  <2>2. QED
    BY <1>1, <2>1 DEF Steady
<1>6. Smooth'
  BY <1>1 DEF IInv, Smooth, Held, stored
<1>7. QED
  BY <1>2, <1>3, <1>4, <1>5, <1>6 DEF IInv

(* A session that came back is no longer steady: nothing is claimed of it. *)
LEMMA LateKeeps ==
  ASSUME IInv, LateExchange
  PROVE  IInv'
<1>1. /\ answered \subseteq answered' /\ answered' \subseteq Questions
      /\ aside' \in BOOLEAN /\ ended' \in BOOLEAN /\ late' = "written"
      /\ UNCHANGED <<stored, job, runs, faults>>
  BY DEF LateExchange, Says, IInv, TypeOK
<1>2. owed' \in BOOLEAN
  BY Zenon DEF LateExchange
<1>3. TypeOK'
  BY <1>1, <1>2 DEF IInv, TypeOK, stored
<1>4. Running'
  BY <1>1, FitStays DEF IInv, Running
<1>5. QED
  BY <1>1, <1>3, <1>4 DEF IInv, Tries, Unscored, Tells, Steady, Smooth, CameBack, stored

-----------------------------------------------------------------------------
(* The queue. *)

(* A job that is none, or over, is held by no attempt.                     *)
LEMMA HeldIsActive ==
  ASSUME IInv, NEW a \in Slots, job.state # "active"
  PROVE  ~runs[a].holds
  BY DEF IInv, Running, Fit

(* A job queued anew is none that has completed, failed or been taken.     *)
LEMMA QueueingKeeps ==
  ASSUME IInv, OnSessionEnded \/ EnqueueIsLost \/ Recover
  PROVE  IInv'
<1>1. /\ UNCHANGED <<session, stored, runs>>
      /\ job' = job \/ (ended /\ job' = Enqueued)
  BY DEF OnSessionEnded, EnqueueIsLost, Recover, EndedWithAnswers
<1>2. owed' \in BOOLEAN
  BY Zenon DEF OnSessionEnded, EnqueueIsLost, Recover, IInv, TypeOK
<1>3. faults' \in 0 .. MaxFaults /\ (faults' = 0 => faults = 0)
  <2>1. CASE EnqueueIsLost
    BY <2>1, FaultCounted DEF EnqueueIsLost, IInv
  <2>2. CASE OnSessionEnded \/ Recover
    BY <2>2 DEF OnSessionEnded, Recover, IInv, TypeOK
  <2>3. QED
    BY <2>1, <2>2
<1>4. TypeOK'
  BY <1>1, <1>2, <1>3, QueuedTyped DEF IInv, TypeOK, session, stored
<1>5. \A a \in Slots : runs[a].holds => job' = job
  BY <1>1, HeldIsActive, QueuedTyped DEF IInv
<1>6. Running'
  BY <1>1, <1>5, FitStays DEF IInv, Running, session
<1>7. Unscored' /\ Tells'
  BY <1>1 DEF IInv, Unscored, Tells, session, stored
<1>8. ~CameBack => \A a \in Slots : Done(a)'
  BY <1>1, DoneStays DEF session, stored
<1>9. CASE job' = job
  BY <1>1, <1>3, <1>4, <1>6, <1>7, <1>8, <1>9 DEF IInv, Tries, Steady, Smooth, CameBack, Held,
                                                  HasGap, session, stored
<1>10. CASE ended /\ job' = Queued /\ job.state \in {"none", "completed", "failed"}
  <2>1. job'.state = "waiting" /\ job'.made < Attempts
    BY <1>10, QueuedTyped DEF IInv
  <2>2. QED
    BY <1>1, <1>3, <1>4, <1>6, <1>7, <1>8, <1>10, <2>1
       DEF IInv, Tries, Steady, Smooth, CameBack, session, stored
<1>11. QED
  BY <1>1, <1>9, <1>10, QueuedTyped DEF IInv

(* A stalled job is queued again, or has failed: something went wrong.     *)
LEMMA StallingKeeps ==
  ASSUME IInv, JobStalls
  PROVE  IInv'
<1>1. UNCHANGED <<session, owed, stored, runs, faults>> /\ ~Held /\ job.state = "active"
  BY DEF JobStalls
<1>2. job' \in Job /\ job'.state \in {"waiting", "failed"} /\ job'.made = job.made
  BY StalledFacts DEF JobStalls, IInv
<1>3. TypeOK'
  BY <1>1, <1>2 DEF IInv, TypeOK, session, stored
<1>4. Running'
  BY <1>1, FitStays DEF IInv, Running, Held, session
<1>5. ~CameBack => \A a \in Slots : Done(a)'
  BY <1>1, DoneStays DEF session, stored
<1>6. QED
  BY <1>1, <1>2, <1>3, <1>4, <1>5
     DEF IInv, Tries, Unscored, Tells, Steady, Smooth, CameBack, session, stored

(* Whether the lock is lost or Redis is flushed, the attempts work on, and *)
(* a thing has gone wrong.                                                 *)
LEMMA ReleaseKeeps ==
  ASSUME IInv, LockIsLost \/ RedisIsFlushed
  PROVE  IInv'
<1>1. /\ UNCHANGED <<session, owed, stored>> /\ runs' = Released
      /\ faults' \in 0 .. MaxFaults /\ faults' # 0
  BY FaultCounted DEF LockIsLost, RedisIsFlushed, IInv
<1>2. /\ job' \in Job /\ job'.state \in {"none", "waiting", "failed"}
      /\ job'.state = "waiting" => job.state = "active" /\ job'.made = job.made
      /\ job.state # "none"
  <2>1. CASE LockIsLost
    <3>1. job.state = "active"
      BY <2>1 DEF LockIsLost, Held, IInv, Running, Fit
    <3>2. QED
      BY <2>1, <3>1, StalledFacts DEF LockIsLost, IInv
  <2>2. CASE RedisIsFlushed
    BY <2>2, QueuedTyped DEF RedisIsFlushed, IInv
  <2>3. QED
    BY <2>1, <2>2
<1>3. TypeOK'
  BY <1>1, <1>2, ReleasedFacts DEF IInv, TypeOK, session, stored
<1>4. \A a \in Slots :
        /\ runs'[a].holds = FALSE /\ runs'[a].stage = runs[a].stage
        /\ runs'[a].final = runs[a].final /\ runs'[a].answers = runs[a].answers
        /\ runs'[a].todo = runs[a].todo /\ runs'[a].shared = runs[a].shared
        /\ runs'[a].unreachable = runs[a].unreachable
        /\ runs'[a].draft = runs[a].draft
        /\ runs[a] = NoRun => runs'[a] = NoRun
  BY <1>1, ReleasedFacts DEF IInv
<1>5. UNCHANGED <<ended, answered, late, rows, report, outOfTurn>>
  BY <1>1 DEF session, stored
<1>6. Running'
  BY <1>4, <1>5 DEF IInv, Running, Fit, Busy
<1>7. Unscored' /\ Tells' /\ Tries'
  BY <1>2, <1>4, <1>5 DEF IInv, Unscored, Tells, Tries
<1>8. ~CameBack => \A a \in Slots : Done(a)'
  BY <1>4, <1>5 DEF IInv, Steady, Done, Busy, Leaves
<1>9. Steady' /\ Smooth'
  BY <1>1, <1>2, <1>4, <1>5, <1>8 DEF IInv, Steady, Smooth, CameBack
<1>10. QED
  BY <1>3, <1>6, <1>7, <1>9 DEF IInv
-----------------------------------------------------------------------------
(* An attempt. *)

LEMMA SharedSame ==
  ASSUME NEW r \in Run, NEW shared \in SUBSET Questions, shared = r.shared
  PROVE  [r EXCEPT !.shared = shared] = r
  BY DEF Run

(* It is taken up with everything that was answered, or has nothing to do. *)
LEMMA TakeKeeps ==
  ASSUME IInv, NEW a \in Slots, Take(a)
  PROVE  IInv'
<1>1. /\ UNCHANGED <<session, owed, stored, faults>>
      /\ job.state = "waiting" /\ runs[a] = NoRun
  BY DEF Take
<1>2. \A b \in Slots : ~runs[b].holds
  BY <1>1, HeldIsActive
<1>3. CASE ToScore
  <2> DEFINE new == Unstored(answered)
             r == [NoRun EXCEPT !.stage = "asking", !.holds = TRUE, !.final = FinalAttempt,
                                !.answers = answered, !.todo = new, !.shared = new \cap Open]
  <2>1. job' = [job EXCEPT !.state = "active"] /\ runs' = TakenAt(a)
    BY <1>3 DEF Take
  <2>2. job' \in Job /\ job'.state = "active" /\ job'.made = job.made
    BY <2>1, JobTyped DEF IInv
  <2>3. new \subseteq Questions /\ answered \subseteq Questions /\ answered # {} /\ ended
    BY <1>3 DEF IInv, TypeOK, Unstored, ToScore
  <2>4. FinalAttempt \in BOOLEAN
    <3>1. job.made \in 0 .. Attempts
      BY DEF IInv, TypeOK, Job
    <3>2. QED
      BY <3>1, PipelineAssumption DEF PipelineAssumption, FinalAttempt
  <2>5. /\ r \in Run /\ r.stage = "asking" /\ r.holds = TRUE /\ (r.final <=> FinalAttempt)
        /\ r.answers = answered /\ r.todo = new /\ r.shared = new \cap Open
    <3>1. new \cap Open \subseteq Questions
      BY <2>3
    <3> HIDE DEF new
    <3>2. PICK final \in BOOLEAN : final = FinalAttempt
      BY <2>4
    <3> DEFINE n == [NoRun EXCEPT !.stage = "asking", !.holds = TRUE, !.final = final,
                                  !.answers = answered, !.todo = new, !.shared = new \cap Open]
    <3>3. r = n
      BY <3>2
    <3>4. n \in Run
      BY <2>3, <3>1, NoRunFacts, Zenon DEF Run
    <3>5. /\ n.stage = "asking" /\ n.holds = TRUE /\ n.final = final
          /\ n.answers = answered /\ n.todo = new /\ n.shared = new \cap Open
      BY <3>4 DEF NoRun
    <3> HIDE DEF n, r
    <3>6. QED
      BY <3>2, <3>3, <3>4, <3>5
  <2>6. runs'[a] = r
    BY <2>1 DEF TakenAt
  <2> HIDE DEF new, r
  <2>7. ASSUME NEW b \in Slots, b # a
        PROVE  /\ runs'[b] \in Run
               /\ runs'[b].stage = runs[b].stage /\ runs'[b].holds = runs[b].holds
               /\ runs'[b].final = runs[b].final /\ runs'[b].answers = runs[b].answers
               /\ runs'[b].todo = runs[b].todo /\ runs'[b].unreachable = runs[b].unreachable
               /\ runs'[b].draft = runs[b].draft
               /\ runs'[b].shared = runs[b].shared \cup (runs[b].todo \cap new)
               /\ runs[b] = NoRun => runs'[b] = NoRun
    <3> DEFINE more == runs[b].shared \cup (runs[b].todo \cap new)
    <3>1. runs'[b] = [runs[b] EXCEPT !.shared = more]
      BY <2>1, <2>7 DEF TakenAt, new
    <3>2. runs[b] \in Run /\ more \subseteq Questions
      BY RunFacts DEF IInv
    <3>3. runs[b] = NoRun => more = {}
      BY NoRunFacts
    <3> HIDE DEF more
    <3>4. [runs[b] EXCEPT !.shared = more] \in Run
      BY <3>2, Zenon DEF Run
    <3>5. runs[b] = NoRun => runs'[b] = NoRun
      <4>1. NoRun \in Run /\ {} = NoRun.shared /\ {} \subseteq Questions
        BY NoRunFacts
      <4>2. [NoRun EXCEPT !.shared = {}] = NoRun
        BY <4>1, SharedSame
      <4>3. QED
        BY <3>1, <3>3, <4>2
    <3>6. QED
      BY <3>1, <3>2, <3>4, <3>5 DEF Run, more
  <2>8. UNCHANGED <<ended, answered, late, rows, report, outOfTurn>>
    BY <1>1 DEF session, stored
  <2>9. TypeOK'
    <3>1. runs' \in [Slots -> Run]
      <4>1. DOMAIN runs' = Slots /\ runs' = [b \in Slots |-> runs'[b]]
        BY <2>1 DEF TakenAt
      <4>2. QED
        BY <4>1, <2>5, <2>6, <2>7
    <3>2. QED
      BY <1>1, <2>2, <3>1 DEF IInv, TypeOK, session, stored
  <2>10. Running'
    <3>1. Fit(a)'
      BY <2>2, <2>3, <2>5, <2>6, <2>8, JobTyped DEF Fit, Busy, FinalAttempt
    <3>2. ASSUME NEW b \in Slots, b # a PROVE Fit(b)'
      BY <1>2, <2>7, <2>8, <3>2 DEF IInv, Running, Fit, Busy
    <3>3. QED
      BY <1>2, <2>7, <3>1, <3>2 DEF Running
  <2>11. Unscored'
    <3>1. \A q \in new : rows[q] = NoRow
      BY DEF new, Unstored
    <3>2. \A q \in Open : q \in Open
      OBVIOUS
    <3>3. \A b \in Slots : runs[b].todo \subseteq Open
      BY DEF Open
    <3>4. ASSUME NEW q \in runs'[a].todo
          PROVE  /\ rows'[q] = NoRow
                 /\ \A b \in Slots : b # a /\ q \in runs'[b].todo => q \in runs'[a].shared
      BY <2>5, <2>6, <2>7, <2>8, <3>1, <3>3
    <3>5. ASSUME NEW b \in Slots, b # a, NEW q \in runs'[b].todo
          PROVE  /\ rows'[q] = NoRow \/ q \in runs'[b].shared
                 /\ \A c \in Slots : c # b /\ q \in runs'[c].todo => q \in runs'[b].shared
      <4>1. q \in runs[b].todo /\ runs[b].shared \subseteq runs'[b].shared
        BY <2>7, <3>5
      <4>2. rows[q] = NoRow \/ q \in runs[b].shared
        BY <4>1 DEF IInv, Unscored
      <4>3. q \in runs'[a].todo => q \in runs'[b].shared
        BY <2>5, <2>6, <2>7, <3>5, <4>1
      <4>4. ASSUME NEW c \in Slots, c # b, c # a, q \in runs'[c].todo PROVE q \in runs[b].shared
        BY <2>7, <4>1, <4>4 DEF IInv, Unscored
      <4>5. QED
        BY <2>8, <4>1, <4>2, <4>3, <4>4
    <3>6. QED
      BY <3>4, <3>5 DEF Unscored
  <2>12. Tries' /\ Tells'
    BY <1>1, <2>2, <2>8 DEF IInv, Tries, Tells
  <2>13. ~CameBack => \A b \in Slots : Done(b)'
    <3>1. Done(a)'
      BY <2>5, <2>6, <2>8 DEF Done, Busy, new, Unstored
    <3>2. ASSUME ~CameBack, NEW b \in Slots, b # a PROVE Done(b)'
      BY <2>7, <2>8, <3>2 DEF IInv, Steady, Done, Busy, Leaves
    <3>3. QED
      BY <3>1, <3>2
  <2>14. Steady'
    BY <2>2, <2>3, <2>8, <2>13 DEF IInv, Steady, CameBack
  <2>15. Smooth'
    <3>1. Held'
      BY <2>5, <2>6 DEF Held
    <3>2. ASSUME ~CameBack, faults = 0, NEW b \in Slots, b # a PROVE runs'[b] = NoRun
      BY <1>2, <2>7, <3>2 DEF IInv, Smooth
    <3>3. runs'[a].holds
      BY <2>5, <2>6
    <3>4. QED
      BY <1>1, <2>2, <2>8, <3>1, <3>2, <3>3 DEF IInv, Smooth, CameBack
  <2>16. QED
    BY <2>9, <2>10, <2>11, <2>12, <2>14, <2>15 DEF IInv
<1>4. CASE ~ToScore
  <2>1. job' = [job EXCEPT !.state = "completed"] /\ runs' = runs
    BY <1>4 DEF Take
  <2>2. job' \in Job /\ job'.state = "completed"
    BY <2>1, JobTyped DEF IInv
  <2>3. TypeOK'
    BY <1>1, <2>1, <2>2 DEF IInv, TypeOK, session, stored
  <2>4. ~CameBack => ended /\ answered = {}
    BY <1>1, <1>4 DEF IInv, Steady, ToScore
  <2>5. Running'
    BY <1>1, <1>2, <2>1, FitStays DEF IInv, Running, session
  <2>6. ~CameBack => \A b \in Slots : Done(b)'
    BY <1>1, <2>1, DoneStays DEF session, stored
  <2>7. QED
    BY <1>1, <2>1, <2>2, <2>3, <2>4, <2>5, <2>6
       DEF IInv, Tries, Unscored, Tells, Steady, Smooth, CameBack, session, stored
<1>5. QED
  BY <1>3, <1>4

(* A row that is stored, or none.                                          *)
LEMMA SaveFacts ==
  ASSUME TypeOK, NEW q \in Questions,
         (\E outcome \in Outcomes : Save(q, outcome)) \/ UNCHANGED rows
  PROVE  /\ rows' \in [Questions -> Outcomes \cup {NoRow}]
         /\ \A p \in Questions : p # q => rows'[p] = rows[p]
         /\ \A p \in Questions : rows[p] # NoRow => rows'[p] # NoRow
         /\ rows' # rows => rows'[q] # NoRow
  BY DEF TypeOK, Save, Outcomes, NoRow

(* A call about an answer is over: the row of that answer is stored or it  *)
(* is left.  What slot a becomes is no different but for that answer.      *)
LEMMA CallKeeps ==
  ASSUME IInv, NEW a \in Slots, NEW q \in Questions,
         Evaluate(a, q) \/ WorkerUnreachable(a, q) \/ LeftCallEnds(a, q)
  PROVE  IInv'
<1>1. /\ UNCHANGED <<ended, answered, aside, late, owed, report, outOfTurn, job, faults>>
      /\ q \in runs[a].todo
      /\ (\E outcome \in Outcomes : Save(q, outcome)) \/ UNCHANGED rows
  BY AskingIsToDo DEF Evaluate, WorkerUnreachable, LeftCallEnds, GiveUp, session, IInv, Outcomes
<1>2. PICK r \in Run :
        /\ Becomes(a, r)
        /\ r.todo = runs[a].todo \ {q} /\ r.shared = runs[a].shared \ {q}
        /\ runs[a].stage = "asking" =>
             /\ r.stage = "asking" /\ r.holds = runs[a].holds /\ r.final = runs[a].final
             /\ r.answers = runs[a].answers
             /\ runs[a].unreachable => r.unreachable
             /\ rows'[q] # NoRow \/ (r.unreachable /\ ~r.final)
        /\ runs[a].stage # "asking" =>
             r.stage \in {"none", "left"} /\ r.holds = FALSE /\ (r.stage = "none" => r = NoRun)
        /\ runs[a].stage \in {"asking", "left"}
  <2>1. CASE Evaluate(a, q)
    <3>1. runs[a].stage = "asking" /\ Becomes(a, Asked(a, q)) /\ rows'[q] # NoRow
      BY <2>1, AskingIsToDo DEF Evaluate, Save, IInv, TypeOK, Outcomes, NoRow
    <3>2. QED
      BY <3>1, AskedFacts DEF IInv
  <2>2. CASE WorkerUnreachable(a, q)
    <3> DEFINE r == [Asked(a, q) EXCEPT !.unreachable = TRUE]
    <3>1. runs[a].stage = "asking" /\ Becomes(a, r) /\ GiveUp(q, runs[a].final)
      BY <2>2, AskingIsToDo DEF WorkerUnreachable, IInv
    <3>2. rows'[q] # NoRow \/ ~runs[a].final
      BY <3>1 DEF GiveUp, Save, IInv, TypeOK, NoRow
    <3>3. /\ r \in Run
          /\ r.stage = runs[a].stage /\ r.holds = runs[a].holds /\ r.final = runs[a].final
          /\ r.answers = runs[a].answers
          /\ r.todo = runs[a].todo \ {q} /\ r.shared = runs[a].shared \ {q}
          /\ r.unreachable = TRUE
      <4>1. Asked(a, q) \in Run
        BY AskedFacts DEF IInv
      <4>2. /\ r \in Run
            /\ r.stage = Asked(a, q).stage /\ r.holds = Asked(a, q).holds
            /\ r.final = Asked(a, q).final /\ r.answers = Asked(a, q).answers
            /\ r.unreachable = TRUE
            /\ r.todo = Asked(a, q).todo /\ r.shared = Asked(a, q).shared
        BY <4>1, UnreachedFacts, Zenon
      <4> HIDE DEF r
      <4>3. QED
        BY <4>2, AskedFacts DEF IInv
    <3> HIDE DEF r
    <3>4. QED
      BY <3>1, <3>2, <3>3
  <2>3. CASE LeftCallEnds(a, q)
    <3> DEFINE calls == runs[a].todo \ {q}
    <3>1. /\ runs[a].stage = "left" /\ Becomes(a, Left(a, calls))
          /\ calls \in SUBSET Questions
      BY <2>3, RunFacts DEF LeftCallEnds, IInv
    <3>2. calls # {} \/ calls = {}
      OBVIOUS
    <3>3. runs[a].shared \cap calls = runs[a].shared \ {q}
      BY DEF IInv, Running, Fit
    <3> HIDE DEF calls
    <3>4. QED
      BY <3>1, <3>3, LeftFacts DEF IInv, calls
  <2>4. QED
    BY <2>1, <2>2, <2>3
<1>3. runs' \in [Slots -> Run] /\ runs'[a] = r /\ \A b \in Slots : b # a => runs'[b] = runs[b]
  BY <1>2, BecomesFacts DEF IInv
<1>4. /\ rows' \in [Questions -> Outcomes \cup {NoRow}]
      /\ \A p \in Questions : p # q => rows'[p] = rows[p]
      /\ \A p \in Questions : rows[p] # NoRow => rows'[p] # NoRow
  BY <1>1, SaveFacts DEF IInv
<1>5. TypeOK'
  BY <1>1, <1>3, <1>4 DEF IInv, TypeOK
<1>6. Fit(a)'
  <2>1. Fit(a)
    BY DEF IInv, Running
  <2>2. FinalAttempt' <=> FinalAttempt
    BY <1>1 DEF FinalAttempt
  <2>3. QED
    BY <1>1, <1>2, <1>3, <2>1, <2>2 DEF Fit, Busy
<1>7. Running'
  <2>1. ASSUME NEW b \in Slots, b # a PROVE Fit(b)'
    BY <1>1, <1>3, <2>1, FitStays
  <2>2. runs'[a].holds => runs[a].holds
    BY <1>2, <1>3
  <2>3. QED
    BY <1>3, <1>6, <2>1, <2>2 DEF IInv, Running
<1>8. Tries' /\ Tells'
  BY <1>1 DEF IInv, Tries, Tells
<1>9. Unscored'
  <2>1. ASSUME NEW b \in Slots, NEW p \in runs'[b].todo
        PROVE  /\ rows'[p] = NoRow \/ p \in runs'[b].shared
               /\ \A c \in Slots : c # b /\ p \in runs'[c].todo => p \in runs'[b].shared
    <3>1. p \in runs[b].todo /\ p \in Questions
      BY <1>2, <1>3, <2>1, RunFacts DEF IInv
    <3>2. \A c \in Slots : p \in runs'[c].todo => p \in runs[c].todo
      BY <1>2, <1>3
    <3>3. p \in runs[b].shared => p \in runs'[b].shared
      BY <1>2, <1>3, <2>1
    <3>4. p = q => b # a
      BY <1>2, <1>3, <2>1
    <3>5. p = q => p \in runs[b].shared
      BY <1>1, <3>1, <3>4 DEF IInv, Unscored
    <3>6. QED
      BY <1>4, <3>1, <3>2, <3>3, <3>5 DEF IInv, Unscored
  <2>2. QED
    BY <2>1 DEF Unscored
<1>10. ~CameBack => \A b \in Slots : Done(b)'
  <2>1. ASSUME ~CameBack, NEW b \in Slots, b # a PROVE Done(b)'
    BY <1>1, <1>3, <1>4, <2>1, DoneStays
  <2>2. ASSUME ~CameBack PROVE Done(a)'
    <3>1. Done(a) /\ answered \subseteq Questions
      BY <2>2 DEF IInv, Steady, TypeOK
    <3>2. CASE runs[a].stage = "asking"
      BY <1>1, <1>2, <1>3, <1>4, <3>1, <3>2 DEF Done, Busy, Leaves
    <3>3. CASE runs[a].stage # "asking"
      BY <1>2, <1>3, <3>3 DEF Done, Busy
    <3>4. QED
      BY <3>2, <3>3
  <2>3. QED
    BY <2>1, <2>2
<1>11. Steady'
  <2>1. runs[a] # NoRun
    BY <1>1, NoRunFacts
  <2>2. QED
    BY <1>1, <1>10, <2>1 DEF IInv, Steady, CameBack, HasGap
<1>12. Smooth'
  <2>1. ASSUME ~CameBack, faults = 0
        PROVE  runs[a].holds /\ runs'[a].holds
    <3>1. runs[a].holds
      BY <1>1, <2>1, NoRunFacts DEF IInv, Smooth
    <3>2. Busy(a)
      BY <3>1 DEF IInv, Running, Fit
    <3>3. QED
      BY <1>2, <1>3, <3>1, <3>2 DEF Busy
  <2>2. QED
    BY <1>1, <1>3, <2>1 DEF IInv, Smooth, CameBack, Held
<1>13. QED
  BY <1>5, <1>7, <1>8, <1>9, <1>11, <1>12 DEF IInv
(* What is read back is what the attempt reports on.                       *)
LEMMA ReadKeeps ==
  ASSUME IInv, NEW a \in Slots, ReadStored(a)
  PROVE  IInv'
<1> DEFINE d == [q \in runs[a].answers |-> rows[q]]
           r == [runs[a] EXCEPT !.stage = "reporting", !.draft = d]
<1>1. /\ UNCHANGED <<session, owed, stored, job, faults>>
      /\ runs[a].stage = "asking" /\ runs[a].todo = {} /\ Becomes(a, r)
  BY DEF ReadStored
<1>2. /\ runs[a] \in Run /\ runs[a].answers \subseteq Questions
  BY RunFacts DEF IInv
<1>3. d \in Reports /\ DOMAIN d = runs[a].answers /\ \A q \in runs[a].answers : d[q] = rows[q]
  <2>1. d \in [runs[a].answers -> Outcomes \cup {NoRow}]
    BY <1>2 DEF IInv, TypeOK
  <2>2. QED
    BY <1>2, <2>1 DEF Reports
<1> HIDE DEF d
<1>4. r \in Run
  BY <1>2, <1>3, Zenon DEF Run
<1>5. /\ r.stage = "reporting" /\ r.draft = d /\ r.holds = runs[a].holds
      /\ r.final = runs[a].final /\ r.answers = runs[a].answers /\ r.todo = runs[a].todo
      /\ r.shared = runs[a].shared /\ r.unreachable = runs[a].unreachable
  BY <1>2, <1>4 DEF Run
<1> HIDE DEF r
<1>6. runs' \in [Slots -> Run] /\ runs'[a] = r /\ \A b \in Slots : b # a => runs'[b] = runs[b]
  BY <1>1, <1>4, BecomesFacts DEF IInv
<1>7. UNCHANGED <<ended, answered, aside, late, rows, report, outOfTurn>>
  BY <1>1 DEF session, stored
<1>8. TypeOK'
  BY <1>1, <1>6, <1>7 DEF IInv, TypeOK
<1>9. Running'
  <2>1. ASSUME NEW b \in Slots, b # a PROVE Fit(b)'
    BY <1>1, <1>6, <1>7, <2>1, FitStays
  <2>2. Fit(a) /\ (FinalAttempt' <=> FinalAttempt)
    BY <1>1 DEF IInv, Running, FinalAttempt
  <2>3. Fit(a)'
    BY <1>1, <1>3, <1>5, <1>6, <1>7, <2>2 DEF Fit, Busy
  <2>4. QED
    BY <1>5, <1>6, <2>1, <2>3 DEF IInv, Running
<1>10. Unscored' /\ Tries' /\ Tells'
  BY <1>1, <1>5, <1>6, <1>7 DEF IInv, Unscored, Tries, Tells
<1>11. ~CameBack => \A b \in Slots : Done(b)'
  <2>1. ASSUME ~CameBack, NEW b \in Slots, b # a PROVE Done(b)'
    BY <1>6, <1>7, <2>1, DoneStays
  <2>2. ASSUME ~CameBack PROVE Done(a)'
    <3>1. Done(a)
      BY <2>2 DEF IInv, Steady
    <3>2. QED
      BY <1>1, <1>3, <1>5, <1>6, <1>7, <3>1 DEF Done, Busy, Leaves
  <2>3. QED
    BY <2>1, <2>2
<1>12. runs[a] # NoRun
  BY <1>1, NoRunFacts
<1>13. Steady'
  BY <1>1, <1>7, <1>11, <1>12 DEF IInv, Steady, CameBack, HasGap
<1>14. Smooth'
  BY <1>1, <1>5, <1>6, <1>7, <1>12 DEF IInv, Smooth, CameBack, Held
<1>15. QED
  BY <1>8, <1>9, <1>10, <1>13, <1>14 DEF IInv

(* An attempt is over and has stored no row: what it leaves running it     *)
(* had to do, and its job is settled if it is its to settle.               *)
LEMMA OverKeeps ==
  ASSUME IInv, NEW a \in Slots, Busy(a), NEW r \in Run, Becomes(a, r),
         r.holds = FALSE, r.stage \in {"none", "left"}, r.stage = "none" => r = NoRun,
         r.todo \subseteq runs[a].todo, r.shared = runs[a].shared \cap r.todo,
         NEW failed \in BOOLEAN, job' = Settled(a, failed),
         UNCHANGED <<session, owed, rows>>, faults' \in 0 .. MaxFaults
  PROVE  /\ runs' \in [Slots -> Run] /\ job' \in Job
         /\ Running' /\ Tries' /\ Unscored'
         /\ ~CameBack => \A b \in Slots : Done(b)'
         /\ runs'[a] = r /\ \A b \in Slots : b # a => runs'[b] = runs[b]
<1>1. runs' \in [Slots -> Run] /\ runs'[a] = r /\ \A b \in Slots : b # a => runs'[b] = runs[b]
  BY BecomesFacts DEF IInv
<1>2. UNCHANGED <<ended, answered, aside, late, rows>>
  BY DEF session
<1>3. \A b \in Slots : b # a /\ runs[b].holds => job' = job
  BY SettledFacts DEF IInv, Running
<1>4. Running'
  <2>1. ASSUME NEW b \in Slots, b # a PROVE Fit(b)'
    BY <1>1, <1>2, <1>3, <2>1, FitStays
  <2>2. Fit(a)'
    BY <1>1 DEF Fit, Busy
  <2>3. QED
    BY <1>1, <2>1, <2>2 DEF IInv, Running
<1>5. Tries'
  BY SettledFacts DEF IInv, Tries
<1>6. Unscored'
  BY <1>1, <1>2 DEF IInv, Unscored
<1>7. ~CameBack => \A b \in Slots : Done(b)'
  <2>1. ASSUME ~CameBack, NEW b \in Slots, b # a PROVE Done(b)'
    BY <1>1, <1>2, <2>1, DoneStays
  <2>2. Done(a)'
    BY <1>1 DEF Done, Busy
  <2>3. QED
    BY <2>1, <2>2
<1>8. QED
  BY <1>1, <1>4, <1>5, <1>6, <1>7, SettledFacts

(* The report tells of all there is; where it has a gap, the attempt fails *)
(* and another follows -- if it is the attempt's to say.                   *)
LEMMA ReportKeeps ==
  ASSUME IInv, NEW a \in Slots, SaveReport(a)
  PROVE  IInv'
<1> DEFINE failed == runs[a].unreachable /\ ~runs[a].final
<1>1. /\ UNCHANGED <<session, owed, rows, faults>>
      /\ runs[a].stage = "reporting" /\ Becomes(a, NoRun)
      /\ report' = runs[a].draft /\ outOfTurn' = ~runs[a].holds /\ job' = Settled(a, failed)
  BY DEF SaveReport
<1>2. failed \in BOOLEAN /\ outOfTurn' \in BOOLEAN
  BY <1>1, RunFacts DEF IInv
<1>3. Busy(a) /\ runs[a].todo = {} /\ runs[a] # NoRun
  BY <1>1, NoRunFacts DEF IInv, Running, Fit, Busy
<1>4. faults' \in 0 .. MaxFaults
  BY <1>1 DEF IInv, TypeOK
<1>5. /\ runs' \in [Slots -> Run] /\ job' \in Job /\ Running' /\ Tries' /\ Unscored'
      /\ ~CameBack => \A b \in Slots : Done(b)'
      /\ runs'[a] = NoRun /\ \A b \in Slots : b # a => runs'[b] = runs[b]
  <2>1. NoRun.shared = runs[a].shared \cap NoRun.todo /\ NoRun.todo \subseteq runs[a].todo
    BY NoRunFacts
  <2>2. NoRun \in Run /\ NoRun.stage = "none" /\ NoRun.holds = FALSE
    BY NoRunFacts
  <2> HIDE DEF failed
  <2>3. QED
    BY <1>1, <1>2, <1>3, <1>4, <2>1, <2>2, OverKeeps
<1>6. /\ runs[a].answers # {} /\ runs[a].answers \subseteq answered
      /\ DOMAIN runs[a].draft = runs[a].answers /\ runs[a].draft \in Reports
  BY <1>1, <1>3, RunFacts DEF IInv, Running, Fit
<1>7. UNCHANGED <<ended, answered, aside, late>>
  BY <1>1 DEF session
<1>8. TypeOK'
  BY <1>1, <1>2, <1>4, <1>5, <1>6, <1>7 DEF IInv, TypeOK
<1>9. Tells'
  BY <1>1, <1>6, <1>7 DEF Tells
<1>10. Steady'
  <2>1. CASE ~CameBack
    <3>1. ended /\ Done(a) /\ runs[a].answers = answered
      BY <1>3, <2>1 DEF IInv, Steady, Done
    <3>2. ASSUME job'.state = "completed", ~outOfTurn' PROVE ~HasGap'
      <4>1. runs[a].holds
        BY <1>1, <3>2, RunFacts DEF IInv
      <4>2. ~failed
        BY <1>1, <1>2, <3>2, <4>1, SettledFacts
      <4>3. \A q \in answered : runs[a].draft[q] # NoRow
        BY <1>1, <3>1, <4>2 DEF Done, Leaves
      <4>4. QED
        BY <1>1, <1>6, <1>7, <3>1, <4>3 DEF HasGap
    <3>3. QED
      BY <1>5, <1>7, <2>1, <3>1, <3>2 DEF Steady
  <2>2. QED
    BY <1>7, <2>1 DEF Steady, CameBack
<1>11. Smooth'
  <2>1. ASSUME ~CameBack, faults = 0
        PROVE  /\ job'.state # "active" /\ job'.state # "failed" /\ job'.state # "none"
               /\ ~outOfTurn' /\ \A b \in Slots : runs'[b] = NoRun
    <3>1. runs[a].holds
      BY <1>3, <2>1 DEF IInv, Smooth
    <3>2. \A b \in Slots : b # a => runs[b] = NoRun
      BY <2>1, <3>1 DEF IInv, Smooth, Running
    <3>3. failed => ~runs[a].final
      OBVIOUS
    <3>4. job'.state \in {"completed", "waiting"}
      BY <1>1, <1>2, <3>1, <3>3, SettledFacts
    <3>5. QED
      BY <1>1, <1>5, <3>1, <3>2, <3>4
  <2>2. QED
    BY <1>1, <1>7, <2>1 DEF Smooth, CameBack
<1>12. QED
  BY <1>5, <1>8, <1>9, <1>10, <1>11 DEF IInv

(* A refused write ends the attempt; what was asked about together with it *)
(* is left running.                                                        *)
LEMMA FailingKeeps ==
  ASSUME IInv, NEW a \in Slots, Failing(a)
  PROVE  IInv'
<1>1. PICK r \in Run :
        /\ Becomes(a, r) /\ r.holds = FALSE /\ r.stage \in {"none", "left"}
        /\ r.stage = "none" => r = NoRun
        /\ r.todo \subseteq runs[a].todo /\ r.shared = runs[a].shared \cap r.todo
  <2>1. CASE AssembleFails(a)
    <3>1. NoRun.shared = runs[a].shared \cap NoRun.todo /\ NoRun.todo \subseteq runs[a].todo
      BY NoRunFacts
    <3>2. QED
      BY <2>1, <3>1, NoRunFacts DEF AssembleFails
  <2>2. ASSUME NEW q \in Questions, SaveFails(a, q)
        PROVE  \E r \in Run :
                 /\ Becomes(a, r) /\ r.holds = FALSE /\ r.stage \in {"none", "left"}
                 /\ r.stage = "none" => r = NoRun
                 /\ r.todo \subseteq runs[a].todo /\ r.shared = runs[a].shared \cap r.todo
    <3> DEFINE calls == Asking(a) \ {q}
    <3>1. calls \subseteq runs[a].todo /\ calls \in SUBSET Questions
      BY AskingIsToDo DEF IInv
    <3>2. Becomes(a, Left(a, calls))
      BY <2>2 DEF SaveFails
    <3> HIDE DEF calls
    <3>3. /\ Left(a, calls) \in Run /\ Left(a, calls).holds = FALSE
          /\ Left(a, calls).stage \in {"none", "left"}
          /\ Left(a, calls).stage = "none" => Left(a, calls) = NoRun
          /\ Left(a, calls).todo = calls /\ Left(a, calls).shared = runs[a].shared \cap calls
      BY <3>1, LeftFacts DEF IInv
    <3>4. QED
      BY <3>1, <3>2, <3>3
  <2>3. QED
    BY <2>1, <2>2 DEF Failing
<1>2. /\ UNCHANGED <<session, owed, stored>> /\ Faulty
      /\ Busy(a) /\ job' = Settled(a, TRUE)
  BY AskingIsToDo DEF Failing, SaveFails, AssembleFails, Busy, IInv
<1>3. faults' \in 0 .. MaxFaults /\ faults' # 0
  BY <1>2, FaultCounted DEF IInv
<1>4. UNCHANGED <<ended, answered, aside, late, rows, report, outOfTurn>>
  BY <1>2 DEF session, stored
<1>5. /\ runs' \in [Slots -> Run] /\ job' \in Job /\ Running' /\ Tries' /\ Unscored'
      /\ ~CameBack => \A b \in Slots : Done(b)'
  BY <1>1, <1>2, <1>3, <1>4, OverKeeps
<1>6. TypeOK'
  BY <1>2, <1>3, <1>4, <1>5 DEF IInv, TypeOK
<1>7. runs[a] # NoRun
  BY <1>2, NoRunFacts DEF Busy
<1>8. job'.state = "completed" => job' = job
  BY <1>2, SettledFacts
<1>9. Steady'
  BY <1>4, <1>5, <1>7, <1>8 DEF IInv, Steady, CameBack, HasGap
<1>10. Smooth' /\ Tells'
  BY <1>3, <1>4 DEF IInv, Smooth, Tells
<1>11. QED
  BY <1>5, <1>6, <1>9, <1>10 DEF IInv

(* The process is gone: a job it held is left active, for BullMQ to find.  *)
LEMMA DyingKeeps ==
  ASSUME IInv, NEW dead \in SUBSET Slots, ProcessDies(dead)
  PROVE  IInv'
<1>1. /\ UNCHANGED <<session, owed, stored, job>>
      /\ runs' = [a \in Slots |-> IF a \in dead THEN NoRun ELSE runs[a]]
      /\ faults' \in 0 .. MaxFaults /\ faults' # 0
  BY FaultCounted DEF ProcessDies, IInv
<1>2. UNCHANGED <<ended, answered, aside, late, rows, report, outOfTurn>>
  BY <1>1 DEF session, stored
<1>3. TypeOK'
  BY <1>1, <1>2, NoRunFacts DEF IInv, TypeOK
<1>4. \A a \in Slots : runs'[a] = IF a \in dead THEN NoRun ELSE runs[a]
  BY <1>1
<1>5. \A a \in Slots : Fit(a)'
  <2>1. ASSUME NEW a \in dead PROVE Fit(a)'
    BY <1>4, <2>1, NoRunFacts DEF Fit, Busy
  <2>2. ASSUME NEW a \in Slots, a \notin dead PROVE Fit(a)'
    BY <1>1, <1>2, <1>4, <2>2, FitStays
  <2>3. QED
    BY <2>1, <2>2
<1>6. ~CameBack => \A a \in Slots : Done(a)'
  <2>1. ASSUME NEW a \in dead PROVE Done(a)'
    BY <1>4, <2>1, NoRunFacts DEF Done, Busy
  <2>2. ASSUME ~CameBack, NEW a \in Slots, a \notin dead PROVE Done(a)'
    BY <1>2, <1>4, <2>2, DoneStays
  <2>3. QED
    BY <2>1, <2>2
<1>7. Running' /\ Unscored'
  BY <1>2, <1>4, <1>5, NoRunFacts DEF IInv, Running, Unscored
<1>8. Steady' /\ Smooth' /\ Tries' /\ Tells'
  BY <1>1, <1>2, <1>4, <1>6 DEF IInv, Steady, Smooth, CameBack, HasGap, Tries, Tells
<1>9. QED
  BY <1>3, <1>7, <1>8 DEF IInv

-----------------------------------------------------------------------------
(* Theorems. *)

(* Every step keeps the invariant.                                         *)
LEMMA InvStep == IInv /\ [Next]_vars => IInv'
<1> SUFFICES ASSUME IInv, [Next]_vars PROVE IInv'
  OBVIOUS
<1>1. CASE EndsByExchange \/ IsAbandoned \/ LateExchange
  BY <1>1, EndingKeeps, LateKeeps
<1>2. CASE OnSessionEnded \/ EnqueueIsLost \/ Recover
  BY <1>2, QueueingKeeps
<1>3. CASE Taking
  BY <1>3, TakeKeeps DEF Taking
<1>4. ASSUME NEW a \in Slots, Working(a) \/ Failing(a) PROVE IInv'
  BY <1>4, CallKeeps, ReadKeeps, ReportKeeps, FailingKeeps DEF Working
<1>5. CASE \E dead \in SUBSET Slots : ProcessDies(dead)
  BY <1>5, DyingKeeps
<1>6. CASE JobStalls \/ LockIsLost \/ RedisIsFlushed
  BY <1>6, StallingKeeps, ReleaseKeeps
<1>7. CASE UNCHANGED vars
  <2>1. /\ UNCHANGED <<ended, answered, late, rows, report, outOfTurn, job, runs, faults>>
        /\ UNCHANGED <<aside, owed>>
    BY <1>7 DEF vars, session, stored
  <2>2. TypeOK'
    BY <2>1 DEF IInv, TypeOK
  <2>3. ~CameBack => \A a \in Slots : Done(a)'
    BY <2>1, DoneStays
  <2>4. Running'
    BY <2>1, FitStays DEF IInv, Running
  <2>5. QED
    BY <2>1, <2>2, <2>3, <2>4 DEF IInv, Tries, Unscored, Tells, Steady, Smooth, CameBack,
                                  HasGap, Held
<1>8. QED
  BY <1>1, <1>2, <1>3, <1>4, <1>5, <1>6, <1>7 DEF Next

(* It holds of every run.                                                  *)
LEMMA Invariance == Spec => []IInv
  BY InitKeeps, InvStep, PTL DEF Spec

(* Sessions, rows, jobs and attempts keep their shape.                     *)
THEOREM TypeCorrect == Spec => []TypeOK
<1>1. IInv => TypeOK
  BY DEF IInv
<1>2. QED
  BY <1>1, Invariance, PTL

(* For any number of answers, attempts, attempts at once and faults: a     *)
(* report tells of answers only; a completed job has left something to say *)
(* of each, until an attempt that had lost the job writes over it; and a   *)
(* gap is on its way to being filled as long as only the worker fails.     *)
THEOREM CompletedWhole == Spec => []CompletedIsComplete
<1>1. IInv => CompletedIsComplete
  <2> SUFFICES ASSUME IInv PROVE CompletedIsComplete
    OBVIOUS
  <2>1. job.state \in {"none", "waiting", "active", "completed", "failed"}
    BY DEF IInv, TypeOK, Job
  <2>2. HasGap => answered # {}
    BY DEF HasGap
  <2>3. QED
    BY <2>1, <2>2 DEF IInv, Tells, Steady, Smooth, CompletedIsComplete, Scoring
<1>2. QED
  BY <1>1, Invariance, PTL

(* A row is written by a call about it, whose slot has it no longer to do. *)
LEMMA RowsByCalls ==
  ASSUME IInv, Next, NEW q \in Questions, rows'[q] # rows[q]
  PROVE  \E a \in Slots : q \in runs[a].todo /\ q \notin runs'[a].todo
<1>1. rows' # rows
  OBVIOUS
<1>2. PICK a \in Slots, p \in Questions :
        Evaluate(a, p) \/ WorkerUnreachable(a, p) \/ LeftCallEnds(a, p)
  BY <1>1 DEF Next, Working, Failing, EndsByExchange, IsAbandoned, LateExchange,
     OnSessionEnded, EnqueueIsLost, Recover, Taking, Take, ReadStored, SaveReport, SaveFails,
     AssembleFails, ProcessDies, JobStalls, LockIsLost, RedisIsFlushed, stored
<1>3. p \in runs[a].todo
  BY <1>2, AskingIsToDo DEF Evaluate, WorkerUnreachable, LeftCallEnds, IInv
<1>4. q = p
  BY <1>2 DEF Evaluate, WorkerUnreachable, LeftCallEnds, GiveUp, Save, IInv, TypeOK
<1>5. PICK r \in Run : Becomes(a, r) /\ p \notin r.todo
  <2>1. ASSUME Evaluate(a, p) PROVE \E r \in Run : Becomes(a, r) /\ p \notin r.todo
    BY <2>1, AskedFacts DEF Evaluate, IInv
  <2>2. ASSUME WorkerUnreachable(a, p) PROVE \E r \in Run : Becomes(a, r) /\ p \notin r.todo
    <3>1. Asked(a, p) \in Run /\ p \notin Asked(a, p).todo
      BY AskedFacts DEF IInv
    <3> DEFINE u == [Asked(a, p) EXCEPT !.unreachable = TRUE]
    <3>2. u \in Run /\ u.todo = Asked(a, p).todo
      BY <3>1, UnreachedFacts, Zenon
    <3>3. Becomes(a, u)
      BY <2>2 DEF WorkerUnreachable
    <3> HIDE DEF u
    <3>4. QED
      BY <3>1, <3>2, <3>3
  <2>3. ASSUME LeftCallEnds(a, p) PROVE \E r \in Run : Becomes(a, r) /\ p \notin r.todo
    <3> DEFINE calls == runs[a].todo \ {p}
    <3>1. calls \in SUBSET Questions /\ p \notin calls
      BY RunFacts DEF IInv
    <3>2. Becomes(a, Left(a, calls))
      BY <2>3 DEF LeftCallEnds
    <3> HIDE DEF calls
    <3>3. Left(a, calls) \in Run /\ Left(a, calls).todo = calls
      BY <3>1, LeftFacts DEF IInv
    <3>4. QED
      BY <3>1, <3>2, <3>3
  <2>4. QED
    BY <1>2, <2>1, <2>2, <2>3
<1>6. runs'[a] = r
  BY <1>5, BecomesFacts DEF IInv
<1>7. QED
  BY <1>3, <1>4, <1>5, <1>6

(* However attempts fail, lose their job and overlap with one another and  *)
(* with the calls they leave running: whoever scores an answer again had   *)
(* taken it up with no row, together with another who had it to do.        *)
THEOREM ScoredOnce == Spec => OnlySharedRescore
<1>1. IInv /\ IInv' /\ [Next]_vars
        => [\A q \in Questions : Rescored(q) =>
              \E a \in Slots : q \in runs[a].shared /\ q \notin runs'[a].shared]_vars
  <2> SUFFICES ASSUME IInv, IInv', Next, NEW q \in Questions, Rescored(q)
               PROVE  \E a \in Slots : q \in runs[a].shared /\ q \notin runs'[a].shared
    BY DEF Rescored, vars, stored
  <2>1. PICK a \in Slots : q \in runs[a].todo /\ q \notin runs'[a].todo
    BY RowsByCalls DEF Rescored
  <2>2. q \in runs[a].shared
    BY <2>1 DEF IInv, Unscored, Rescored
  <2>3. runs'[a].shared \subseteq runs'[a].todo
    BY DEF IInv, Running, Fit
  <2>4. QED
    BY <2>1, <2>2, <2>3
<1>2. QED
  BY <1>1, Invariance, PTL DEF Spec, OnlySharedRescore

-----------------------------------------------------------------------------
(* Reports only grow. *)

(* A report that is written again tells of no fewer answers, and has still *)
(* something to say of each it had something to say of: a retry that could *)
(* not reach the worker, a new job or a session that came back never makes *)
(* it poorer.  Only an attempt that had lost the job can, or one that had  *)
(* read the rows before such an attempt stored more and reported them.     *)
ReportsGrow ==
  [][report # NoReport /\ ~outOfTurn /\ ~outOfTurn' =>
       /\ DOMAIN report \subseteq DOMAIN report'
       /\ \A q \in DOMAIN report : report[q] # NoRow => report'[q] # NoRow]_vars

(* What a report says, a row says, and so with a report being drafted; and *)
(* a report that an attempt wrote in its turn says no more than the draft  *)
(* of the attempt whose turn it is now.                                    *)
Backed ==
  /\ report # NoReport => \A q \in DOMAIN report : report[q] # NoRow => rows[q] # NoRow
  /\ \A a \in Slots : runs[a].stage = "reporting" =>
       \A q \in runs[a].answers : runs[a].draft[q] # NoRow => rows[q] # NoRow
  /\ \A a \in Slots : runs[a].holds /\ report # NoReport /\ ~outOfTurn =>
       /\ DOMAIN report \subseteq runs[a].answers
       /\ runs[a].stage = "reporting" =>
            \A q \in DOMAIN report : report[q] # NoRow => runs[a].draft[q] # NoRow

(* No row is ever emptied.                                                 *)
LEMMA RowsStay ==
  ASSUME IInv, Next
  PROVE  \A q \in Questions : rows[q] # NoRow => rows'[q] # NoRow
<1>1. ASSUME NEW a \in Slots, NEW p \in Questions,
             Evaluate(a, p) \/ WorkerUnreachable(a, p) \/ LeftCallEnds(a, p)
      PROVE  \A q \in Questions : rows[q] # NoRow => rows'[q] # NoRow
  <2>1. (\E outcome \in Outcomes : Save(p, outcome)) \/ UNCHANGED rows
    BY <1>1 DEF Evaluate, WorkerUnreachable, LeftCallEnds, GiveUp, Outcomes
  <2>2. QED
    BY <2>1, SaveFacts DEF IInv
<1>2. CASE UNCHANGED rows
  BY <1>2
<1>3. QED
  BY <1>1, <1>2 DEF Next, Working, Failing, EndsByExchange, IsAbandoned, LateExchange,
     OnSessionEnded, EnqueueIsLost, Recover, Taking, Take, ReadStored, SaveReport, SaveFails,
     AssembleFails, ProcessDies, JobStalls, LockIsLost, RedisIsFlushed, stored

(* Whoever is at a draft, or has the lock, has what it had, unless it has  *)
(* just begun or just read.                                                *)
SameDraft(b) ==
  runs'[b].holds \/ runs'[b].stage = "reporting" =>
    /\ runs'[b].holds => runs[b].holds
    /\ runs'[b].stage = runs[b].stage /\ runs'[b].answers = runs[b].answers
    /\ runs'[b].draft = runs[b].draft

LEMMA DraftsStay ==
  ASSUME IInv, Next, ~Taking, \A a \in Slots : ~ReadStored(a)
  PROVE  \A b \in Slots : SameDraft(b)
<1>1. ASSUME NEW a \in Slots, NEW r \in Run, Becomes(a, r),
             \/ r.holds = FALSE /\ r.stage \in {"none", "left"}
             \/ r.holds = runs[a].holds /\ r.stage = runs[a].stage
                  /\ r.answers = runs[a].answers /\ r.draft = runs[a].draft
      PROVE  \A b \in Slots : SameDraft(b)
  BY <1>1, BecomesFacts DEF SameDraft, IInv
<1>2. ASSUME NEW a \in Slots, NEW p \in Questions, Evaluate(a, p) \/ WorkerUnreachable(a, p)
      PROVE  \A b \in Slots : SameDraft(b)
  <2> DEFINE u == [Asked(a, p) EXCEPT !.unreachable = TRUE]
  <2>1. /\ Asked(a, p) \in Run /\ Asked(a, p).holds = runs[a].holds
        /\ Asked(a, p).stage = runs[a].stage /\ Asked(a, p).answers = runs[a].answers
        /\ Asked(a, p).draft = runs[a].draft
    BY AskedFacts DEF IInv
  <2>2. /\ u \in Run /\ u.holds = Asked(a, p).holds /\ u.stage = Asked(a, p).stage
        /\ u.answers = Asked(a, p).answers /\ u.draft = Asked(a, p).draft
    BY <2>1, UnreachedFacts, Zenon
  <2>3. Becomes(a, Asked(a, p)) \/ Becomes(a, u)
    BY <1>2 DEF Evaluate, WorkerUnreachable
  <2> HIDE DEF u
  <2>4. QED
    BY <1>1, <2>1, <2>2, <2>3
<1>3. ASSUME NEW a \in Slots, NEW calls \in SUBSET Questions, Becomes(a, Left(a, calls))
      PROVE  \A b \in Slots : SameDraft(b)
  <2>1. Left(a, calls) \in Run /\ Left(a, calls).holds = FALSE
        /\ Left(a, calls).stage \in {"none", "left"}
    BY LeftFacts DEF IInv
  <2>2. QED
    BY <1>1, <1>3, <2>1
<1>4. ASSUME NEW a \in Slots, Becomes(a, NoRun)
      PROVE  \A b \in Slots : SameDraft(b)
  BY <1>1, <1>4, NoRunFacts
<1>5. CASE runs' = Released
  BY <1>5, ReleasedFacts DEF IInv, SameDraft
<1>6. ASSUME NEW dead \in SUBSET Slots, ProcessDies(dead)
      PROVE  \A b \in Slots : SameDraft(b)
  BY <1>6, NoRunFacts DEF ProcessDies, SameDraft
<1>7. CASE UNCHANGED runs
  BY <1>7 DEF SameDraft
<1>8. ASSUME NEW a \in Slots, Working(a) \/ Failing(a)
      PROVE  \A b \in Slots : SameDraft(b)
  <2>1. ASSUME NEW p \in Questions, LeftCallEnds(a, p) PROVE \A b \in Slots : SameDraft(b)
    <3>1. runs[a].todo \ {p} \in SUBSET Questions
      BY RunFacts DEF IInv
    <3>2. QED
      BY <1>3, <2>1, <3>1 DEF LeftCallEnds
  <2>2. ASSUME NEW p \in Questions, SaveFails(a, p) PROVE \A b \in Slots : SameDraft(b)
    <3>1. Asking(a) \ {p} \in SUBSET Questions
      BY AskingIsToDo DEF IInv
    <3>2. QED
      BY <1>3, <2>2, <3>1 DEF SaveFails
  <2>3. ASSUME SaveReport(a) \/ AssembleFails(a) PROVE \A b \in Slots : SameDraft(b)
    BY <1>4, <2>3 DEF SaveReport, AssembleFails
  <2>4. QED
    BY <1>2, <1>8, <2>1, <2>2, <2>3 DEF Working, Failing
<1>9. QED
  BY <1>5, <1>6, <1>7, <1>8 DEF Next, EndsByExchange, IsAbandoned, LateExchange,
     OnSessionEnded, EnqueueIsLost, Recover, JobStalls, LockIsLost, RedisIsFlushed

LEMMA BackedStep == IInv /\ Backed /\ [Next]_vars => Backed'
<1> SUFFICES ASSUME IInv, Backed, [Next]_vars PROVE Backed'
  OBVIOUS
<1> USE DEF Backed
<1>1. CASE UNCHANGED vars
  BY <1>1 DEF vars, stored
<1>2. CASE Next /\ Taking
  <2>1. PICK a \in Slots : Take(a)
    BY <1>2 DEF Taking
  <2>2. UNCHANGED <<rows, report, outOfTurn>> /\ job.state = "waiting"
    BY <2>1 DEF Take, stored
  <2>3. \A b \in Slots : ~runs[b].holds
    BY <2>2, HeldIsActive
  <2>4. \/ runs' = runs
        \/ /\ runs'[a].stage = "asking" /\ runs'[a].answers = answered
           /\ \A b \in Slots : b # a => /\ runs'[b].stage = runs[b].stage
                                        /\ runs'[b].holds = runs[b].holds
                                        /\ runs'[b].answers = runs[b].answers
                                        /\ runs'[b].draft = runs[b].draft
    <3>1. \A b \in Slots : runs[b] \in Run
      BY RunFacts DEF IInv
    <3>2. CASE runs' = TakenAt(a)
      <4>1. runs'[a].stage = "asking" /\ runs'[a].answers = answered
        BY <3>2 DEF TakenAt, NoRun
      <4>2. ASSUME NEW b \in Slots, b # a
            PROVE  /\ runs'[b].stage = runs[b].stage /\ runs'[b].holds = runs[b].holds
                   /\ runs'[b].answers = runs[b].answers /\ runs'[b].draft = runs[b].draft
        <5>1. runs'[b] = [runs[b] EXCEPT !.shared = @ \cup (runs[b].todo \cap Unstored(answered))]
          BY <3>2, <4>2 DEF TakenAt
        <5>2. QED
          BY <3>1, <5>1 DEF Run
      <4>3. QED
        BY <4>1, <4>2
    <3>3. QED
      BY <2>1, <3>2 DEF Take
  <2>5. report # NoReport => DOMAIN report \subseteq answered
    BY DEF IInv, Tells
  <2>6. QED
    BY <2>2, <2>3, <2>4, <2>5
<1>3. ASSUME NEW a \in Slots, ReadStored(a) PROVE Backed'
  <2> DEFINE d == [q \in runs[a].answers |-> rows[q]]
             r == [runs[a] EXCEPT !.stage = "reporting", !.draft = d]
  <2>1. UNCHANGED <<rows, report, outOfTurn>> /\ Becomes(a, r) /\ runs[a] \in Run
    BY <1>3, RunFacts DEF ReadStored, stored, IInv
  <2>2. runs \in [Slots -> Run]
    BY DEF IInv, TypeOK
  <2>3. /\ runs'[a].answers = runs[a].answers /\ runs'[a].draft = d
        /\ runs'[a].holds = runs[a].holds
        /\ \A b \in Slots : b # a => runs'[b] = runs[b]
    <3>1. runs'[a] = r /\ \A b \in Slots : b # a => runs'[b] = runs[b]
      BY <2>1, <2>2 DEF Becomes
    <3> HIDE DEF d
    <3>2. r.answers = runs[a].answers /\ r.draft = d /\ r.holds = runs[a].holds
      BY <2>1 DEF Run
    <3> HIDE DEF r
    <3>3. QED
      BY <3>1, <3>2
  <2>4. \A q \in runs[a].answers : d[q] = rows[q]
    OBVIOUS
  <2> HIDE DEF d, r
  <2>5. QED
    BY <2>1, <2>3, <2>4
<1>4. ASSUME NEW a \in Slots, SaveReport(a) PROVE Backed'
  <2>1. /\ UNCHANGED rows /\ report' = runs[a].draft /\ outOfTurn' = ~runs[a].holds
        /\ runs[a].stage = "reporting" /\ Becomes(a, NoRun)
    BY <1>4 DEF SaveReport
  <2>2. runs'[a] = NoRun /\ \A b \in Slots : b # a => runs'[b] = runs[b]
    BY <2>1, NoRunFacts, BecomesFacts DEF IInv
  <2>3. DOMAIN runs[a].draft = runs[a].answers
    BY <2>1 DEF IInv, Running, Fit
  <2>4. \A b \in Slots : runs'[b].holds => outOfTurn'
    BY <2>1, <2>2, NoRunFacts DEF IInv, Running
  <2>5. QED
    BY <2>1, <2>2, <2>3, <2>4, NoRunFacts
<1>5. CASE Next /\ ~Taking /\ \A a \in Slots : ~ReadStored(a) /\ ~SaveReport(a)
  <2>1. \A b \in Slots : SameDraft(b)
    BY <1>5, DraftsStay
  <2>2. UNCHANGED <<report, outOfTurn>>
    BY <1>5 DEF Next, Working, Failing, EndsByExchange, IsAbandoned, LateExchange,
       OnSessionEnded, EnqueueIsLost, Recover, Evaluate, WorkerUnreachable, LeftCallEnds,
       SaveFails, AssembleFails, ProcessDies, JobStalls, LockIsLost, RedisIsFlushed, stored
  <2>3. \A q \in Questions : rows[q] # NoRow => rows'[q] # NoRow
    BY <1>5, RowsStay
  <2>4. /\ report # NoReport => DOMAIN report \subseteq Questions
        /\ \A a \in Slots : runs[a].answers \subseteq Questions
    BY RunFacts DEF IInv, Tells, TypeOK
  <2>5. QED
    BY <2>1, <2>2, <2>3, <2>4 DEF SameDraft
<1>6. QED
  BY <1>1, <1>2, <1>3, <1>4, <1>5

(* For any number of answers, attempts and faults, whatever is lost, dies, *)
(* is retried or comes late, attempts that hold the job only add to the    *)
(* report.                                                                 *)
THEOREM ReportsOnlyGrow == Spec => ReportsGrow
<1> DEFINE A == report # NoReport /\ ~outOfTurn /\ ~outOfTurn' =>
                  /\ DOMAIN report \subseteq DOMAIN report'
                  /\ \A q \in DOMAIN report : report[q] # NoRow => report'[q] # NoRow
<1>1. IInv /\ Backed /\ [Next]_vars => [A]_vars
  <2> SUFFICES ASSUME IInv, Backed, Next PROVE A
    OBVIOUS
  <2>1. ASSUME NEW a \in Slots, SaveReport(a) PROVE A
    <3>1. /\ runs[a].stage = "reporting" /\ report' = runs[a].draft
          /\ outOfTurn' = ~runs[a].holds
      BY <2>1 DEF SaveReport
    <3>2. DOMAIN runs[a].draft = runs[a].answers
      BY <3>1 DEF IInv, Running, Fit
    <3>3. QED
      BY <3>1, <3>2 DEF Backed
  <2>2. CASE UNCHANGED report
    BY <2>2
  <2>3. QED
    BY <2>1, <2>2 DEF Next, Working, Failing, EndsByExchange, IsAbandoned, LateExchange,
       OnSessionEnded, EnqueueIsLost, Recover, Taking, Take, ReadStored, Evaluate,
       WorkerUnreachable, LeftCallEnds, SaveFails, AssembleFails, ProcessDies, JobStalls,
       LockIsLost, RedisIsFlushed, stored
<1>2. Init => Backed
  BY NoRunFacts DEF Init, Backed
<1>3. QED
  BY <1>1, <1>2, BackedStep, Invariance, PTL DEF Spec, ReportsGrow
=============================================================================
