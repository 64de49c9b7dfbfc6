# Readi, specified in TLA+

Readi is an AI interview coach: a Next.js web client, a NestJS API that owns Postgres, Redis and
object storage, and a Python worker that runs the interview engine and calls the model.  This
directory specifies the parts of it in which several actors write the same state, in which a long
sequence of legal steps must come out right whatever the candidate, the model and the clock do, or
in which a computation must be fair for every input: the interview from the candidate's browser to
the engine, the choice of its questions, its scoring and report, the life of a CV, the erasure of an
account, the content an interview is made of, and the consent under which staff may read one.

Paths below are relative to the repository.  `api/` stands for `apps/api/src/`, `worker/` for
`apps/ai-worker/readi_worker/`, `web/` for `apps/web/src/`.  `PROJECT.json` maps every definition to
the lines it translates.

## 1. Inventory

### Components, their state, operations and interactions

| Component | State | Operations | Talks to |
|---|---|---|---|
| Interview screen (`web/components/interview/`, `web/lib/interview-stream.ts`) | what is on screen, the one call out, its stream, the draft | render, start, send, read frames, resync after `interview_busy` | the API, one streamed POST per action |
| Advancing a session (`api/interviews/interview-advance.service.ts`, `interview-sessions.repository.ts`, `interview-sse.ts`, `worker/interview/state_store.py`) | the `interview_sessions` row, `session_turns`, the Redis lock, the worker's Redis cache | `live`, `lock`, `exchange`, `applyExchange`, `release`, frames | the worker over HTTP; when a session ends, the evaluation queue |
| Interview engine (`worker/interview/machine.py`, `probes.py`, `budgets.py`, `service.py`) | `EngineState`: state, current question, next seq, progress per question, end reason, and the two fields not in the snapshot, `awaiting` and `pending_text` | start, answer, skip, end; then `plan` / speak until it waits | called by the API once per exchange, with the snapshot it last handed back |
| Creating interviews, question selection, stale sweep (`interviews.service.ts`, `question-selection.ts`, `stale-sessions.queue.ts`) | the same rows, each with its pinned plan | resolve an audience, read pool and history, select, `create` (abandons what was live), `abandonStale` | the catalogue, the same rows, the evaluation queue |
| Session evaluation (`api/evaluations/*.queue.ts`, `evaluation.processor.ts`, `evaluations.service.ts`, `evaluations.repository.ts`) | `answer_evaluations`, `session_reports`, one BullMQ job per session | enqueue, process (fan-out over answers), give up, assemble, sweep | the worker, one call per answer |
| Worker evaluation (`worker/evaluation/`) | none | one reading with retries, quotes checked against the transcript | the model |
| Scoring and report assembly (`scoring.ts`, `report-assembly.ts`, `prompting.ts`) | none | pure functions | called by the processor |
| CV (`api/cv/`) | CV columns of `profiles`, `cv-uploads/` and `cvs/` objects, pending uploads in Redis, one parse job per upload | create upload, confirm, remove, correct, parse | S3, Redis, the worker |
| Account deletion (`api/account/`) | `users.deleted_at`, `deletion_scheduled_for`, everything keyed by the user | request, cancel, hourly sweep, erase | traces (through the worker), S3, every table |
| Content workflow, seed import, embeddings (`api/content/`) | seven kinds of item with status, version and history; question vectors; modules of tracks | edit, move, review, import, vouch, embed | Postgres, the worker for vectors |
| Catalogue and profiles (`content.service.ts`, `profiles.service.ts`) | roles, levels, variants, rubrics and what hangs on them; a candidate's choice | publish, retire, re-link, re-tag, choose | Postgres |
| Consents, calibration (`api/consents/`, `calibration.service.ts`) | append-only consent records, calibration scores, audit log | decide, list eligible, open an answer, score it | Postgres |
| Rate limiting (`redis-rate-limiter.ts`) | counters with a lifetime in Redis | `consume` | every costly route |
| Authentication (`api/auth/`) | Better Auth's tables | sign-in, OTP, sessions | library |
| Data export, pace statistics, operator commands, contracts, LLM adapters, evals, plumbing | none that matters here | | |

`PROJECT.json` lists every component with what is and is not modelled of it.

### What is hard about it

* **Two requests on one session.**  The row is read before the lock is taken; the lock has a
  lifetime; `release` is a read and a delete; create() and the sweep write the same row with no
  lock at all.
* **A worker that answers late or not at all, a browser that stops listening.**  Either way the
  exchange goes on, and what it stores is not what the other side believes.
* **Time against several reserves**, read once per exchange while the exchange itself takes time.
* **What is left out of a snapshot** must be derivable from it.
* **Concurrent calls of one job**, one of which fails while the others run on into the retry; and
  two attempts at one job, when a queue takes the first for lost.
* **Lost enqueues, dead processes, a flushed Redis**, and a sweep that must make up for all of them.
* **Object storage beside a database**, a vector beside a row: no transaction over both.
* **Erasure beside jobs** that hold the user's id.
* **Editors, admins and an importer on one item**, each deciding on a row read before the
  transaction; withdrawals beside what is about to rely on the withdrawn.
* **Decisions that look alike**: an unchanged consent is not written again, but the text may have
  changed; a review checks consent queries before it reads.
* **Arithmetic with exclusions**: weights renormalised over what was assessed, a discount, two
  roundings, and a pool of questions of any shape.

### What makes each part correct

* Screen: shows what is stored or is known to have missed something, and the summary only when the
  interview cannot go on; waits for nothing for ever; a reply goes to what was on screen.
* Engine: turns numbered without hole or clash; replies filed under what they answer; follow-ups
  earned and rationed; questions in order, none dropped without cause; nothing begun without the
  time for it; one close, last; the snapshot enough to go on from.
* Exchange: one at a time per session; what was shown is kept; what is stored stays; closed stays
  closed; no candidate locked out.
* Selection: as mixed and as long as the pool allows; repeats only when nothing else is left.
* Evaluation: a completed job has decided every answer; a gap is on its way to being filled; an
  answer is scored once unless attempts overlap at it; a report comes in the end, of answers only.
* Scoring: no nudge raises a score, what nobody asked about costs nothing; the report adds up.
* CV: the CV has its file; no file without a CV; what was parsed is of the CV there is;
  corrections stay; a CV does not stay in processing.
* Account: nothing left under the id; nobody erased early; the files of a kept account stay; a
  deletion is carried out.
* Content: no word or status goes unrecorded; a transaction lands on what its request read; only
  admins decide what is shown; the importer keeps to its own; a vector is absent rather than stale.
* Catalogue: no published row stranded, no choice taken away.
* Consent: the last decision on the present text counts; a no is a no.

## 2. Modules

| Module | What it is | Refines / extends |
|---|---|---|
| `InterviewSession` | abstract: what one exchange does to a session, as a stage and the next seq | |
| `InterviewMachine` | pure functions: the engine's state and every move of it | |
| `InterviewEngine` | the exchange loop of the worker around the machine, and the store of its result | extends `InterviewMachine`, implements `InterviewSession` |
| `SessionExchange` | concurrent requests, lock, worker, cache, row and turns | takes its engine from `InterviewSession` |
| `InterviewScreen` | browser tabs, connections and streams around one session | takes its exchanges from `InterviewSession` |
| `InterviewPlan` | which questions session after session asks | |
| `EvaluationPipeline` | scoring one session | |
| `AnswerScoring` | one answer from its probes to its number, and the report | |
| `CvUpload` | one candidate's CV | |
| `AccountErasure` | one account's deletion | |
| `ContentWorkflow` | one item of content under concurrent requests | |
| `Catalogue` | what content and profiles hang on | |
| `TranscriptReview` | consents and the reviews they allow | |
| `InterviewEngineProofs`, `EvaluationPipelineProofs`, `CvUploadProofs`, `ContentWorkflowProofs`, `CatalogueProofs` | theorems about the module of that name | each extends it and `TLAPS` |
| `SessionProofs` | theorems about `SessionExchange` and `InterviewScreen` | extends both |
| `PracticeProofs` | theorems about `InterviewPlan` and `AnswerScoring` | extends both |
| `PrivacyProofs` | theorems about `TranscriptReview` and `AccountErasure` | extends both |
| `MC...` | constants, symmetry and views for TLC | |

A module of proofs that extends two specifications needs their names apart, so in the second of each
pair the names every specification has carry a prefix: `ScreenInit`, `ScreenNext`, ..., `Scoring...`,
`Erasure...`.

The split between `InterviewEngine`, `SessionExchange` and `InterviewScreen` is the code's own: the
worker's engine knows nothing of locks, the API nothing of questions, the browser neither.  What one
relies on of the other is `InterviewSession`: the engine implements it (the property
`ImplementsSession`, checked and proved), the other two are built from its `Takes`, `Outcomes` and
`Exchange`.  That what is stored keeps to it although requests cross is `FollowsTheContract`, a
theorem about `SessionExchange` (section 4).

### InterviewMachine and InterviewEngine

`EngineState` is the dataclass of machine.py; `awaiting` and `pending` (whether there is a
`pending_text`) are kept, the text is not.  `ToSnapshot` and `FromSnapshot` drop and rebuild them.
`plan()` calls itself when an answer earns no follow-up: `Settled` is where that recursion ends,
and one action for each kind of step (`SpeakIntro`, `AskQuestion`, `AskFollowUp`,
`InviteCandidateQuestions`, `AnswerCandidateQuestion`, `SpeakWrapUp`) speaks from there, as
`_speak_until_waiting` does.  An exchange is `Receive...`, some of those, and `Respond`, which
stores turns and snapshot in one transaction; at any point before that `ExchangeFails` can drop it.
`asOf` is the `now` of the request: every reserve in the exchange is tested against it while
`left` runs on.  Coverage verdicts are any subset of the probes shown to the model.  The bundle is
the constants; `PlannedFollowUps` gives each probe the criterion it asks for, since `choose_probe`
prefers a criterion nobody has probed.

### SessionExchange

A request is a program counter, the copy of the row it read, a worker call and an answer.
`ReadRow` / `TakeLock` / `ApplyExchange` / `CheckLock` / `DeleteLock` are the awaits of
`advance()`.  The worker side is separate (`WorkerStarts`, `WorkerFinishes`), so a call may finish
after its request gave up (`GiveUp` also stands for the timeout) or died (`Crash`), and its
snapshot goes to the cache all the same.  A turn is the request that wrote it, which is all that is
needed to tell whether what was shown is what is stored.  `LockExpires` is possible only for a
request that is dead or has made a second worker call with the bundle: the lock lasts one worker
timeout and 30 s of slack, so one call cannot outlive it.  `stale` remembers the requests that
wrote from a copy the row had already left.

### InterviewScreen

A tab is a page, the turns on it, where it believes the session stands (`live`, which decides
whether there is a composer), the call it has out and the frames of that call's stream not yet
read.  `Open` is the server's rendering with the effect that starts an interview; `Send` the
composer's buttons; `Arrive` the API's answer before the stream: the session is over or too old
(`TooLate`: to the summary), busy, or the lock is taken and the stream opened.  `Store` is the commit,
the release and the frames of `framesFor`; `Break` a lost connection, at any point of the stream;
`Found`, `Adopt` and `FetchFails` the look that follows `interview_busy` (`resync`).  The session also
changes with no exchange: create() and the sweep abandon it (`Abandon`), and the grace for resuming
it passes (`GrowCold`).  An exchange is let in by the row it found (`found`), and writes over an
abandonment since.  The exchange itself is one step under a lock, for what several requests do to the
lock is `SessionExchange`'s.  The draft, error copy, the stall notice, the clock and client-side
navigation away from the page while a resync is pending are left out.  `behind` remembers the tabs
that another's exchange, an abandonment or a lost connection has passed by.

### InterviewPlan

`Ask` resolves the audience (role's types, a variant or none), `Read` the pool of questions that may
be asked and the history, `Draw` one question after another as the type turns and freshness allow,
`Create` pins the plan and abandons the running session.  The running session may ask its next
question at any point between (`Read` lets it).  Weights decide only probabilities and are left out:
none is zero.  What the candidate has seen is looked for in the sessions of `RecentSessions`, and when
it was last seen in the whole history (`LastSeenNoLater`), as the two queries do.

### EvaluationPipeline and AnswerScoring

The doors (an exchange that ends the session, an abandonment) leave `owed`, the call to
`onSessionsEnded` still to be made, which may be lost.  The job is BullMQ's under the session's id.
An attempt (a member of `runs`) asks about its first answer alone and the rest together, as
`concurrently` does, then reads back the rows (`ReadStored`) and writes the report (`SaveReport`).
A refused write ends the attempt at once (`Promise.all`) and leaves its other calls running: that is
its stage `left`.  BullMQ takes a job away from an attempt that does not renew its lock
(`LockIsLost`), and a flush of Redis from any (`RedisIsFlushed`); either way the attempt works on
beside the one that takes its place, and only the one that `holds` the lock settles the job.
`LateExchange` is the write that brings an abandoned session back (section 5).
The concurrency limit is taken to be at least the number of answers; a smaller one only takes
interleavings away.

`AnswerScoring` follows one answer: the probes the interview put (`AskProbe`, `MoveOn`), the reading
of the model with the evidence gate and the retry ladder of the worker (`ReadingStands`,
`ReadingFails`, `Refused`), the number (weights over what was assessed, 0.85 for what was prompted,
one rounding), and the report over the session's answers.  A quote is the candidate's or it is not;
how much tidying the match forgives is left out.  The code's running sums are sums over the set of
criteria or answers, and its sorted list of fixes is the place each fix has in that order (`Place`:
one more than how many come before it), which says the same and can be reasoned about.

### CvUpload

Each await of `confirmUpload` that changes something is a step: forgetting the pending upload,
checking, copying, clearing quarantine, replacing the row, deleting the old file, queueing.  The
reads at the start are one step (`Accept`), which is sound because an upload only ever stops being
pending.  The parse job reads the profile, reads the file, asks, and stores under the same
`cvFileKey`.  Quarantine is written once per upload; a presigned URL used again while its own
confirmation runs is not modelled.

### AccountErasure

`eraseUser` is four steps (found due, traces, files, transaction) with the `now` of its sweep.  A
cancellation is two, since it takes its own `now` before its transaction.  A job that calls the
model is `CallStarts`, `WorkerTraces`, `CallRecorded`; it looks at the user's rows, never at
`deleted_at`.  Days are the unit of time; the hourly sweep is a step possible on any day.

### ContentWorkflow and Catalogue

The seven kinds of content share one service, so one item stands for them: a question, which has a
vector, or a track, whose modules are versioned with it.  A request reads (`AskEdit`, `AskMove`,
`AskReview`, `AskModule`, or the importer's `Look` followed by the update's own read in
`UpdateLooked`) and commits in a transaction (`Commit...`), which snapshots the item under the
version the request had read: the unique key of `content_versions` is all that keeps two apart.
`updateModule` reads its track twice, once for the check (`AskModule`) and once for what it writes
(`ReadTrack`); `overtaken` holds the requests whose row had moved when they read it again.
A publication embeds after its commit; `Reembed` is the operator's batch.

`Catalogue` keeps of a row's status only whether it is published, and what hangs on what: requests
check (`Ask...`) and write later.  `late` marks a request whose row another has written since; the
key above turns it away.  `overtaken` holds the requests during which another has withdrawn, or has
come to need, the very row they asked about (`Upsets`); any other overlap is left to the checks.

### TranscriptReview

A decision is its look at the latest row and its write (or none, when nothing has changed); a review
is `eligibleAuthors`' one or two queries, the query that reads, and the record.  `settled` is what a
user last made clear by a decision no other of theirs overlapped; `seen` is what has been so at some
time during each request.

## 3. What is checked

| Run | Module | Bounds | Question |
|---|---|---|---|
| `engine` | MCInterviewEngine | 3 questions, 2 follow-ups, 8 clock readings, candidate's own questions before seq 8 | is a whole interview right? |
| `exchange` | MCSessionExchange | 2 requests, snapshots below seq 5 | do concurrent exchanges keep session and transcript together? |
| `screen` | MCInterviewScreen | 2 tabs, of which one at a time looks again; snapshots below seq 3 | does a tab show what is stored, and does none wait for ever? |
| `resend` | InterviewScreen | 1 tab, snapshots below seq 4 | violated: a reply to what was never on screen |
| `selection` | MCInterviewPlan | 5 questions of 2 types, one for a variant; sessions of 1 or 2; 2 sessions looked back at | are plans mixed, full and fresh? |
| `evaluation` | MCEvaluationPipeline | 3 questions, 2 attempts, 2 of them at once, 2 faults | is every answer decided once, and reported? |
| `scoring` | MCAnswerScoring | 3 rubrics of 3 criteria, 4 sets of other answers | is the number fair and the report consistent? |
| `cv` | CvUpload | 2 uploads, 2 confirmations, 1 removal, 2 attempts, 1 fault | do CV, file and parse stay together? |
| `account` | AccountErasure | grace of 2 days, 6 days, 2 faults | is an account erased wholly, when due, and not otherwise? |
| `content` | MCContentWorkflow | 2 requests, 2 wordings, 4 versions | do concurrent editors keep history, decisions and vectors right? |
| `catalogue` | MCCatalogue | 1 of everything but 2 levels, 2 requests, `Bound` | is nothing stranded, no choice taken away? |
| `consents` | MCTranscriptReview | 2 users, 2 requests, 2 wordings | does the last decision count, and a no hold? |

Type invariants (`TypeOK`, or `ScreenTypeOK`, `ErasureTypeOK`, and `Typed` in `PracticeProofs` for
`AnswerScoring`) are no part of a run's properties: they are theorems for every value of the
constants (section 4), and can be checked by adding them to a `.cfg`.

### Why the bounds are enough

* `engine`: the first question has probes on criteria 1, 1 and 2, so the cap of two bites before
  the probes run out and the preference for a fresh criterion decides between them; the second has
  one probe, the third none, so both ways out of a question occur.  The readings 195/194, 90/89,
  75/74 and 0 stand either side of every reserve.  `QuestionBudget` equals the number of questions,
  as the API builds it.  `MaxSeq` bounds only the candidate's own questions, which each do the same
  thing.
* `exchange`: every property is about one request, or about two; a third would only wait at the
  lock or read the row later.  Two requests of an interview not begun are a start and what follows
  or doubles it; of one begun, a double tap or a retry.  `MaxNext` lets both be answered with two
  turns after a start.
* `screen`: two tabs are one that acts and one that is passed by, meets its lock, or looks again
  while the other acts.  `OneLooks` cuts the states in which both wait to look again after a busy
  answer: the looks of two tabs write nothing and have nothing to do with each other.  Without it the
  same properties hold in twice as many states.  `MaxTurns` lets a start and one more exchange be
  stored, and any number fail after that; a third stored exchange finds every tab in a condition one
  of the first two left it in.  `resend` has one tab so that nothing but the lost connection can be
  to blame.
* `selection`: five questions of two types, one of them for a variant, give every subset as a pool:
  a type that runs dry first, a pool smaller than the plan, one seen whole.  The sessions remembered
  are one fewer than the code's three; what matters is that one can fall out of sight.
* `evaluation`: of three answers one is asked about alone and two together, the least with which
  one fails beside another.  Two attempts are one that is retried and one that is last, and two at
  once are one whose lock was lost and its successor.  With two faults the recovery from the first can
  itself fail.  `Few` leaves interviews of no, two or three answers, gives those of three one fault
  and no return to life, and gives those that come back one fault.  It cuts nothing that fairness
  speaks of.
* `scoring`: every reading (score, quote) of three criteria; the rubrics are of even and lopsided
  weights, with a criterion probed twice, once, or never, and with every criterion probed.  The
  other answers give a session in which this is the only one, the best, the worst, or beside one
  that could not be scored.
* `cv`: two uploads and two confirmations give the replacement race, the same upload confirmed
  twice, and a removal against either.  One fault suffices to break any single step; the passing
  properties that need no fault say so.
* `account`: a grace of two days leaves a day inside it, and six days a deletion, its cancellation
  and another deletion, each with the sweep at work.
* `content`, `catalogue`: the hazards are of two requests, one of which overtakes the other between
  its read and its write; the theorems hold for any number.  Four versions let a row be created,
  published, edited and withdrawn.  `catalogue` is two instances in one (`Bound`): no variant
  anywhere, or a track never published and one level at a time; the rubric is out throughout, for
  nothing else is ever asked of one.  `Prompt` lets a request that asked about nothing but its own
  row, or is bound to be refused, end at once: what comes between changes nothing of what it does.
* `consents`: an author and a reviewer, who may change places; a decision beside a decision, or
  beside a review.

Symmetry is declared where a run checks no liveness and nothing but equality tells its values apart:
requests and words (`content`), requests and levels (`catalogue`), questions alike in type and tags
(`selection`), users and requests (`consents`).  `content` identifies states that differ only in what
a recorded version said, and `consents` those that differ only in what is on record: no step and no
property reads it later, and each snapshot is checked as it is written.

Deadlock is not checked, except in `consents` where something can always happen: each other system
may stop, a candidate having no more to do, a session being closed or an account gone; what must not
stop is stated as liveness.

### Fairness

* `SessionExchange`: weak fairness of each request's own steps, since a Node process runs a
  handler to its end and bounds the worker's answer by a timeout; of `LockExpires`, since Redis
  expires keys.  None of the worker, none of what a candidate does, and `Crash` may always come
  instead.
* `InterviewScreen`: of an exchange ending, by the worker's timeout at the latest, and, of each open
  page, of a request arriving (or its connection breaking), of reading what has come, and of the timer
  and the fetch that follow a busy answer.  None of anything a candidate does.
* `EvaluationPipeline`: of the sweep and report route together (`Recover`), of BullMQ handing out
  what waits and finding what stalled, and of each running attempt, whose calls end by timeout.
* `CvUpload`: of a confirmation being served and of the parse job.
* `AccountErasure`: of the clock and of the hourly sweep.  A sweep may fail `MaxFaults` times.

The other modules state none: nobody is bound to go on, and their properties are of safety.

### What the violated run shows

`resend`: a candidate answers or skips, the exchange is stored, and the connection breaks before its
turns arrive.  The screen shows a network failure ("... try again",
`apps/web/src/i18n/messages/en.json:69`) and, believing that nothing was stored, leaves the composer
enabled on the old question.  The same action sent again is a new one to the API, which has no means
to tell: it is applied to the next question, which the candidate has never seen.  A skipped question
is then two skipped questions, and a repeated answer is scored against the wrong rubric.

`AnswersAreToWhatWasSeen` is what the comments rest that on ("Nothing is persisted until the worker
has answered in full, so every failure here means 'the same action may simply be sent again'",
`apps/web/src/lib/interview-stream.ts:19-21`), and what sending again is not.

The other defects found are not runs that fail but exceptions of properties that hold: a history
variable marks the behaviours that show the defect, and the property holds of all others, so it says
how far the damage goes.  They are `stale`, `outOfTurn`, `twice`, `blind`, `during`, `midway`,
`muddled`, `overtaken` (of content, and of the catalogue), `behind`, and the flags on a request or an
attempt (`late`, `alone`, `shared`, a look that `failed`).  Section 5 lists what each sets aside.

## 4. What is proved

Every invariant and every action property of a passing run is a theorem for every value of the
constants, and so is the refinement; what is left to TLC is liveness.  Each proof module names its
invariant as a conjunction of parts, has a lemma for each action or kind of action, and derives the
theorems from the invariant at the end.  `TypeCorrect`, `ScreenTyped`, `ErasureTyped` and
`PlansTyped` say that the variables keep their types.

Seven theorems state what no run has as a property.  Three are the safety half of a liveness property,
all that can be proved of it: `LockIsNotLeftBehind`, `NobodyIsForgotten` and `CvIsNotForgotten` say
that whoever waits, something is there that will end the wait.  `ContractIsFollowed` is a refinement
with exceptions, and `ReportsOnlyGrow` an action property.  `SpeakingComesToRest` and
`ScoresArePercents` are two more, of the engine's loop and of the scoring arithmetic.  They are defined
beside their theorems, and were checked on the instances of the runs before they were proved.

### InterviewEngineProofs

For every bundle (any number of questions, any planned follow-ups, any cap and budget), every set of
clock readings and every bound `MaxSeq`, from `BundleAssumption` (the counts are naturals, the budget
positive as the contract has it, the plan gives each position a sequence) and `ReadingsAssumption`:

| Theorem | Says |
|---|---|
| `TranscriptWhole` | the stored turns take exactly the seqs below `next_seq`, one each |
| `FollowUpsEarned` | a probe is put at most once, never after it was judged answered |
| `RestRestorable` | the snapshot restores to the very engine that was held |
| `StartedWithRoom` | no later question without 195 s, no follow-up without 75 s |
| `OneEnd` | `EndsForGood`: one close, last, exactly in ended sessions, and never written after |
| `ClockObeyed` | past the deadline an exchange ends the session; `out_of_time` is true when given |
| `NoneDropped` | a question is left out only for want of time or by the candidate |
| `OrderlyConversation` | questions in order and whole, replies to what was asked, follow-ups rationed |
| `SpeakingComesToRest` | `SpeakingEnds`: `plan()` is never at a loss, and an exchange rests after two turns at most |
| `Implements` | `Spec => ImplementsSession` |

There are three invariants, each inductive relative to the one before.

`IInv`.  `TranscriptIsWhole` is not inductive: `Respond` stores turns that were collected while
nothing said they were numbered from where the store left off.  `IInv` therefore says of the *stored
transcript with the turns in flight* what is wanted of the stored one, relative to the engine in
hand: `Logged(transcript \cup turns, engine)` beside `Logged(transcript, stored)`.  The first is what
each spoken turn extends (lemma `LogGrows`), the second what a failed exchange falls back to.
`Earned` needs that the engine remembers what the turns show, which is `Recorded`: what a verdict
found answered is among `probesCovered`, what was put is among `probesAsked`, and `choose_probe`
picks outside both.  `WellPlaced` is what machine.py's guards presuppose, and what makes `awaiting`
and `pending_text` derivable from a snapshot at rest.  `RoomToOpen` carries the reserve from the step
that decides to open a question to the step that asks it.

`KInv` adds what an end is.  `Counted` ties the count of questions, the state and the end reason of
an engine to each other; `Closed` says that the close is the last turn of an ended session and of no
other; `Underway` relates the exchange in flight to the snapshot it set out from: where it may have
got to by the clock (`InTime`) and how many turns the candidate's act is still owed (`Answers`,
`TurnsToCome`).  The last is what makes the refinement go through: an exchange of
`InterviewSession` adds one turn or two at once, where the engine speaks them one at a time.  It is
also why `_speak_until_waiting`, a loop with no bound of its own, ends: each pass speaks one turn, and
`TurnsToCome` are left.  That there is a turn to speak rests on `Counted`: a question the engine moves
on to has not been put, so it does not plan the same move for ever.

`LInv` adds what a conversation is: `Tagged` (each turn names the question its state implies),
`Shown` (`progress` shows exactly what the turns show), `Rationed` (no more follow-ups than the cap
and the criterion rule allow) and `Conversed` (a turn of the candidate stands between the turn it
answers and the reply).

### SessionProofs

**Of the exchange**, for any requests, any number of crashes and expiries: `OneAtATime`, `ShownIsKept`
(`ShownTurnsAreKept`), `WholeTranscript` (`TranscriptIsWhole`) and `RecordKept` (`RecordStays`).
`Held` is the argument about the lock: whoever is at the worker or letting go has it, until some
request has had to send its bundle again, for only then can a lock expire under a living request.
`Departs` and `Answered` say that an answer sets out from the copy its request carries, if it carries
one, and is one or two turns further; `Bounded`, that nothing is stored beyond the snapshot while
nothing stale was written.  So an answer written from a copy that is not stale continues the
transcript.  `Onwards` collects what only grows.

`ContractIsFollowed` closes the gap between the engine and the store.  `Implements` says that one
engine, taken one exchange at a time, keeps to `InterviewSession`; `FollowsTheContract` says that
what is stored does, when requests cross, die, are late or are repeated: every write of the row takes
`Where` it stood to an outcome of an action the engine takes there, or leaves it.  The exceptions are
those of `TranscriptIsWhole`; without them it is false, as TLC shows at once.  `ByContract` is what it
needs beside `IInv`: the worker is at something the engine takes, an answer is an outcome of it, and
no snapshot that is stored, cached or copied is the beginning (`Past`), so that an exchange which
sets out with no turn behind it set out from the beginning.

`LockIsNotLeftBehind`: the holder of the lock is at its exchange, or is one whose lock runs out.

**Of the screen**, for any number of tabs and turns, whatever breaks, is left, reloaded or comes late:
`ScreenIsKept` (`ScreenKeepsUp`) and `NobodyIsForgotten`.  `ScreenKeepsUp` is not inductive: it says
nothing of a tab with a call out, which will be an idle one when its stream ends.  `UpToDate` says of
every tab that is not behind what will be so once it has read its frames: each turn there is, it shows
or has still to read (`WillShow`), and the last frame says where the session stands (`WillSay`).
Together they say, of a tab on the screen, that it is `Abreast`; one on the summary is that while the
session is `TooLate`.  `TabOfSession` keeps what is shown, streamed or fetched from running ahead of
what is stored, and lets a tab have read that the session is over only when it `IsOver`: an
abandonment can still be written over by the exchange under way, an end that a frame tells of cannot.
`Shaped` is what a call may look like: a stream is filled at once and closed then.  `Attended` says
that the tab an exchange answers is exactly the one with a stream still open, so that storing a turn
passes by every other tab on screen and none else; it is also all that `NobodyIsForgotten` needs.
An abandonment puts every tab on the screen behind, which is all there is to say of it.

### EvaluationPipelineProofs

For any set of questions, any number of attempts, of attempts at once and of faults: `CompletedWhole`
(`CompletedIsComplete`), `ScoredOnce` (`OnlySharedRescore`) and `ReportsOnlyGrow` (`ReportsGrow`: of
any report but one written out of turn).  `Running` and `Tries` say that the lock is held once, by an
attempt (`Fit`) at an active job that knows whether it is the last.  `Unscored` is the argument about
scores: what an attempt has yet to ask about has no row, unless another had it to do as well, and then
both know (`shared`); so whoever changes a score gives up something shared.  `Steady` says that, while
the session stays ended, an attempt is about all that was answered, and what it is done with has a row
or waits for the next attempt (`Done`); the same goes for its draft of the report.  The clause that a
gap is on its way to being filled needs `Smooth`: while nothing fails but the worker, no job is lost or
failed and no attempt works without one.  A report is only added to because of `Backed`: no row is ever
emptied, and an attempt under way is about at least what the last report told of.

### CvUploadProofs

For any uploads, any concurrent requests and any number of attempts and failures (`CvAssumption`:
the null key is no upload, a request confirms or removes, at least one attempt): `ParsedOfTheCv`,
`CorrectionsKept` and `RowAndFiles` (`RowAndFilesAgree`).

`ParsedIsOfTheCv` is inductive with the types.  `CorrectionsStay` is not: three writers of the
profile could clear the mark.  A *worker's answer* resets it, so an attempt under way on the CV there
is must find it still `processing`, and a CV in processing not yet corrected (`Unread`, which holds
because `updateParsed` refuses that status and any end of the job leaves it).  A *confirmation*
resets it, and would do so under the same key if it replaced a CV by itself; `Fresh` excludes that:
what Redis remembers is not a CV, is forgotten before it becomes one, and so differs from what the
request read.  A *removal* could reset it where there is no CV, which has no mark to lose (`Blank`).

`RowInv` is about who may still touch a file.  What is the CV, or was when some request looked, is
`Spent`: no request will make it the CV or undo its copy, unless two confirmed it.  So the file a
request deletes is neither the CV (`Replaced`) nor one a confirmation counts on (`Copied`), and every
file not named by the row is `Owned` by a request that will make it the CV or delete it.

`CvIsNotForgotten`: unless something failed or an upload was confirmed twice, a CV in processing has
a job, or a confirmation that has still to queue one.  An enqueue that finds a job of that id leaves
it alone, even one that is over; `Queued` says that it finds none.

### ContentWorkflowProofs

For any words, any number of requests and versions: `HistoryWhole`, `DecidedAsRead`, `AdminsShow`,
`ImportsKeepAway` and `VectorFresh`.  Most transactions do not check that the row is still the one
read.  `HistoryInv` (every version left behind has its snapshot and no other has one) and `ReadInv`
(a reading is of a version there was) show why they need not: a transaction snapshots the row under
the version its request read, and the unique key of `content_versions` refuses a second snapshot of
it.  `RightInv` and `SeedInv` carry what a request was allowed, and what the importer found, from the
check to the write.  `AdminsShow` (`ShownIsAdmins`) is about words and modules alike: an expert's edit
that was checked while the item was not public meets the unique key if it has been published since,
unless its request reads the item again; only `updateModule` does, and `RightInv` says of it no more
than that it has been overtaken.  `VectorInv` says that while no sync was cut short or had company, the
one on its way is of the words shown.

### CatalogueProofs

For any catalogue and any number of requests: `ProfilesKept` (`ProfilesStayOnOffer`) and
`NothingStranded` (`NothingIsStranded`).  `Held` says that what a request found when it checked is
still so, unless the request has been overtaken, or is late and will be told so: `PublishInv`,
`RetireInv`, `RelinkInv` and `ChooseInv`, one for each check.  It holds because the checks are
monotone: publishing and linking only make more publishable, withdrawing and unlinking only make more
retirable, and a withdrawal that takes what another request needs overtakes just that request.  The
exception is a step of an overtaken request, and no other: one that overlaps a withdrawal of a row it
has nothing to do with is held to its check.

### PracticeProofs

No theorem of the library that takes an operator can be cited, so induction over a set is done by
hand, once: `AllSubsets` says that a family of sets which holds the empty one and grows by any element
holds every finite set, and the lemmas about sums (`SumFacts`, `SumMonotone`, `SumScale`, `SumUnion`,
`SumOfClasses`, ...) follow from it.

**Of plans**, for any finite set of questions, any types, sizes and history, from
`PlanAssumption`: `PlansAreMixedAndFull` (`MixedAndFull`) and `PlansSpaceRepeats`
(`RepeatsAreSpaced`).  Both are about a plan when it is complete, and `PlanInv` is what they become of
one being drawn.  `Chosen`: what is planned is of the pool, the pool of the types the role asks for.
`Mixed`: a type is two or more ahead of another only when that one's questions are used up, since the
next type is always a least asked one (`NextTypeIsLeast`).  `Remembered`: what the request read of the
history is what the database still holds, but for the questions the running session has asked since.
`RepeatsAreSpaced` also needs that looking back from a plan sees what looking back from an earlier
moment saw (`LatestOfLatest`, `LastSeenOfLatest`).

**Of scoring**, for any rubrics, weights, probes and other answers, from `ScoringAssumption`:
`ScoresArePercents`, `ScoresAreFair` (`ScoreIsFair`) and `ReportsAddUp` (`ReportAddsUp`).
`ScoringInv` says that a row is what the arithmetic makes of the reading it came from and of the
interview as it was held, and the report what it makes of the rows; the rest is arithmetic.
A score is a ratio of two weighted sums, between 0 and 1 (`RatioWithin`), so the clamp in `percent()`
never bites.  It is fair because a criterion left out had 0 in the numerator all along, a nudge lowers
the numerator and raises the denominator (`NudgesOnlyLower`), and 0.85 of a mark is kept by what was
prompted (`Discounts`), each within the half that rounding may take (`PercentBounds`).  The report adds
up because the overall lies among the topics': over the classes of answers, the sum of what each mean
is off by cannot be all of one sign (`TopicsBracket`); because places are a numbering of the fixes,
one to one by counting (`PlacesAre`); and because dropping a repeated tip keeps the one of the worst
answer that gave it (`TipIsKept`).

### PrivacyProofs

**Of consents**, for any users, any number of requests and wordings: `TheirLastWordCounts`
(`DecisionsStand`) and `NobodyIsReadUnasked` (`NoMeansNo`).  `Lonely` says that a decision no other
of its user overlapped has read the row that still counts; `Seen`, that whom a review has found was
willing and allowed at some time since it began.

**Of account deletion**, for any positive grace, any horizon and number of failures:
`ErasedOnlyWhenDue` (`ErasedWhenDue`), `NothingIsLeft` (`ErasedLeavesNothing`) and `FilesAreKept`
(`FilesStay`).  The eraser judges by the `now` of the sweep that found the account, read long before it writes; `eraser.now <= today` makes
what was due then due now, and the row is read again before it is erased.  `Swept` says that what the
eraser has behind it does not come back: a file needs a signed-in candidate, hence an account nobody
deletes, and a deletion asked for after that is due a grace later, so the transaction refuses.  This
is where a grace of zero days would break the code.

### Only model-checked

All liveness: `LockIsLetGo`, `NobodyIsKeptWaiting`, `ReportInTheEnd`, `ReadInTheEnd`,
`ErasedInTheEnd`.  Liveness under fairness is out of the prover's reach.  Of the first two and of
`ReadInTheEnd` the safety half is a theorem.

## 5. What was found while modelling

Each is a behaviour of the code that the models show or set aside; file and line are where it bites.

**Interview**

* A stale copy (`stale`).  `advance()` reads the row before it takes the lock
  (`interview-advance.service.ts:77-78`) and does not read it again: the second of two taps runs from
  a snapshot the first has moved on, its turns are dropped as duplicates and its snapshot stored,
  though `:149` and ADR-0016:119 say that a double tap is refused.
* An interview comes back.  `applyExchange` writes the status read before the exchange
  (`interview-sessions.repository.ts:321`), so one abandoned meanwhile by a new interview is
  `in_progress` again, beside the new one (against `:168` and `:344`).
* The first reply lost.  A request with no snapshot is taken up from the worker's cache
  (`service.py:203`): a start sent again is refused, and any other action is stored with seqs 0 and 1
  missing (against ADR-0016:86-89).
* The first question is opened with any time left (`machine.py:435`), although `budgets.py:42` states
  the reserve for every question.  `_opening` does not look at `question_budget` either, which is
  sound only because the contract makes it at least one.
* The screen (`behind`).  A failed exchange leaves the composer on a question that may have been
  answered (run `resend`).  After `interview_busy` there is one resync, 3 s later: if the other
  exchange takes longer, a page opened meanwhile stays empty, without composer, spinner or error
  (against the comment at `interview-screen.tsx:101-104`).  The draft is cleared on sending, before
  the outcome is known (`composer.tsx:46-47`), and lost without a word when the answer is busy.  A
  resync that answers late overwrites frames newer than itself.  A write that fails closes the stream
  with no frame, and the screen has nothing to show.  The completion panel refreshes once; if that
  fails it goes on saying that nothing was answered.
* An idle tab is not told that its interview was abandoned (`behind`): it goes on offering a composer,
  and learns of it from the refusal of what is sent.  `interview_expired` takes a tab to the summary of
  a session whose row is `in_progress` still (`interview-advance.service.ts:137`,
  `interview-screen.tsx:200`), until the sweep comes by.
* A resync whose fetch throws leaves `run()` before `setThinking(false)`
  (`interview-screen.tsx:214-215`): "thinking" stays up until the next call is over, although `:187`
  says that the flags come down whatever happened (the look that `failed`).

**Evaluation**

* `endedWithAnswers` counts any turn of the candidate (`evaluations.repository.ts:79`), the processor
  only those that belong to a question (`evaluation.processor.ts:293`).  A session whose only turns
  are the candidate's own questions is queued for ever and never has a report, while its page says
  that one is being made (`evaluations.service.ts:29`).
* Two attempts can be at one session.  `Promise.all` rejects at the first refused write
  (`evaluation.processor.ts:335`), and the calls beside it outlive the attempt; an attempt whose lock
  BullMQ takes for lost works on beside its successor, as does one whose job was flushed and queued
  again by the sweep.  Each asks the worker about every answer that has no row yet, and the later of
  two answers stands (`shared`): an answer with a row is then scored again, against `:66-68`.
* The report is read and then written (`:198`, `:255`) without a look at whose job it is.  The attempt
  that was overtaken may write last, and put a partial report over a complete one (`outOfTurn`,
  against `evaluations.repository.ts:164-166`); a completed job is not run again, and recovery looks
  for sessions with no report.
* A session that comes back to life while it is scored (`evaluation.processor.ts:85`) gets a report
  without its later answers.
* A partial report whose retry is lost with a flushed Redis is never completed: recovery looks for
  sessions with no report.  The sweep takes the twenty oldest (`evaluations.repository.ts:241`):
  twenty sessions of the kind above keep it from every other.
* Scores: 57.5 is computed as 57.49999 for some weights and rounds down.  A criterion scored 0 whose
  quote fails, and whose probe was never put, is excluded rather than counted.  The report of an
  answer that could not be scored still counts what was volunteered in it.

**CV**

* Two confirmations of one upload (`twice`, `cv.service.ts:156`): the loser deletes the winner's
  file, and the CV stays on a profile without it.
* `remove()` clears whatever CV is on the row and deletes only the file it read (`blind`,
  `cv.service.ts:188`), so a CV confirmed meanwhile is gone and its file stays for ever (against
  `:140-141`, `:184`).
* A CV whose enqueue failed stays `processing` (`cv.service.ts:164`), and nothing queues it again.

**Account**

* `ai_call_log` has no foreign key: a call recorded after the erasure keeps the user's own id
  (`during`, `ai-call-log.service.ts:17`; against `erase-user.ts:47-48`, ADR-0011:62).
* A cancellation begun within the grace that commits during the erasure keeps the account and loses
  its files (`midway`, `erase-user.ts:73`).

**Content**

* `applyChange` guards by the status of the existing row (`seed-import.ts:220`), and modules have
  none: an import rewrites modules of a published track (against ADR-0014:193, 200).
* `updateModule` asks whether the actor may edit of one reading of the track
  (`content.service.ts:641`) and writes on the strength of another (`:650`): published in between, the
  track has an expert's module put before candidates, against `:640` and ADR-0014:192-194
  (`overtaken`).
* The importer looks and updates with two reads (`overtaken`): a row published or taken over between
  them is written over.  `syncSeedReviewState` writes unguarded.
* A publication whose embedding fails, or two at once, leave the vector of former words (`muddled`),
  as does a question retired and edited before it is published again.  The console's requests carry
  no version, so the later of two editors is told nothing unless they truly overlap.
* A withdrawal and a choice or a publication that needs the withdrawn row, each checked before the
  other commits (`overtaken`), leave a profile on a withdrawn row, or a published row out of reach; so
  do a re-link and a choice of what it drops.  Retiring a rubric checks nothing.  A question tagged
  with a role and a level the role does not offer is asked of nobody.

**Consent**

* Overlapping decisions of one user (`alone`): either may win, and one may be written twice.  A
  review in flight when consent is withdrawn still shows the answer.  Scores given before a
  withdrawal stay in the agreement figures.

**Elsewhere** (seen, not modelled): `redis-rate-limiter.ts:13` consumes two keys one after the other,
so a request refused by the second has spent the first; an evaluation run of the worker's harness
whose `--out` is the previous file, killed in a retry, leaves the partial results in its place.

## 6. Not modelled, and why

* **Words**: prompts, model output, the matching of a quote, what a frame or a notice says, logs.  No
  property depends on them; the models take any outcome the code tells apart.
* **Several sessions, candidates or accounts at a time**, hence the batch limits of the sweeps, except
  where they meet (a new interview abandons the old; a plan looks at the last sessions; decisions and
  reviews of several users).
* **Rate limiting**: what a refusal means elsewhere is a request that does not happen, which every
  model allows.
* **Authentication**: configuration of a library whose state machine is not in the repository.  A
  deleted account is simply signed out.
* **Data export, pace statistics, operator commands, the evaluation harness**: read-only, or run by
  one person alone; nothing interleaves.
* **Agreement statistics, weak topics, lessons, drift reports, content diffs**: computed to be read,
  and stored nowhere.
* **Web pages other than the interview**: each sends one request and shows its answer.
* **Contracts and generated clients**: the shapes of the records here follow them.

## 7. Running it

`tlc -config <cfg> <module>` checks a run; the configuration is named after its module, except
`InterviewScreenResend.cfg`, which is of `InterviewScreen`.  `tlapm M.tla` checks the proofs of each
`M` named `...Proofs`; `InterviewEngineProofs` and `PracticeProofs` take a few minutes, the others
about one each or less.
