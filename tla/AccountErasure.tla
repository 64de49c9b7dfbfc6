--------------------------- MODULE AccountErasure ---------------------------
(***************************************************************************)
(* Deleting one account: the request that schedules it, the cancellation   *)
(* by an operator, the hourly sweep that erases it once the grace is over, *)
(* and the jobs that go on calling the model for it meanwhile.             *)
(*                                                                         *)
(* Signing in is left out: a signed-in request is possible whenever the    *)
(* account is there and not deleted, which is what getSession grants.      *)
(*                                                                         *)
(* (The names that every specification has are this module's own, so that  *)
(* PrivacyProofs can extend it beside TranscriptReview.)                   *)
(***************************************************************************)
EXTENDS Integers

CONSTANTS
  Grace,      \* ACCOUNT_DELETION.graceDays
  LastDay,    \* bound: the clock stops there
  MaxFaults   \* bound: things that go wrong in a behaviour

ASSUME ErasureAssumption == Grace \in Nat \ {0} /\ LastDay \in Nat /\ MaxFaults \in Nat

VARIABLES
  today,
  account,    \* the users row: is it there, deleted_at, deletion_scheduled_for
  files,      \* is there an object under cvs/<user>/ ?
  traces,     \* is there a trace under the user's id?
  calls,      \* ai_call_log: whose id its rows are kept under
  eraser,     \* where eraseUser is and the `now' it was given
  canceller,  \* the `now' of a cancellation under way, or NoDay
  call,       \* where the job calling the model is
  faults,     \* how many things have gone wrong
  during,     \* history: was the model called for the user while eraseUser ran?
  midway      \* history: did a cancellation begun in the grace end while eraseUser ran?

outside == <<files, traces, calls>>
history == <<during, midway>>
erasureVars == <<today, account, outside, eraser, canceller, call, faults, history>>

NoDay == -1

Days == 0 .. LastDay

Account == [there : BOOLEAN, deleted : BOOLEAN, due : Nat \cup {NoDay}]

Kept == [there |-> TRUE, deleted |-> FALSE, due |-> NoDay]

Erased == [Kept EXCEPT !.there = FALSE]

Eraser == [at : {"idle", "traces", "files", "rows"}, now : Days]

ErasureInit ==
  /\ today = 0
  /\ account = Kept
  /\ files \in BOOLEAN /\ traces = FALSE /\ calls = {}
  /\ eraser = [at |-> "idle", now |-> 0]
  /\ canceller = NoDay
  /\ call = "none"
  /\ faults = 0 /\ during = FALSE /\ midway = FALSE

Faulty == faults < MaxFaults /\ faults' = faults + 1

Tick ==
  /\ today < LastDay
  /\ today' = today + 1
  /\ UNCHANGED <<account, outside, eraser, canceller, call, faults, history>>

-----------------------------------------------------------------------------
(* request() and cancelDeletion(), each one transaction.                   *)

(* Mutant: no day is set for the erasure.                                  *)
Undated == [Kept EXCEPT !.deleted = TRUE]

Scheduled == [Kept EXCEPT !.deleted = TRUE, !.due = today + Grace]

RequestDeletion ==
  /\ account = Kept
  /\ account' = Scheduled
  /\ UNCHANGED <<today, outside, eraser, canceller, call, faults, history>>

UploadCv ==
  /\ account = Kept
  /\ files' = TRUE
  /\ UNCHANGED <<today, account, traces, calls, eraser, canceller, call, faults, history>>

CancelStarts ==
  /\ canceller = NoDay
  /\ canceller' = today
  /\ UNCHANGED <<today, account, outside, eraser, call, faults, history>>

(* Mutant: a deletion is cancelled at any time.                            *)
IsScheduled(now) == account.there /\ account.deleted

IsCancellable(now) == account.there /\ account.deleted /\ account.due > now

CancelCommits ==
  /\ canceller # NoDay
  /\ canceller' = NoDay
  /\ IF IsCancellable(canceller)
     THEN /\ account' = Kept
          /\ midway' = (midway \/ (eraser.at # "idle" /\ canceller < account.due))
     ELSE UNCHANGED <<account, midway>>
  /\ UNCHANGED <<today, outside, eraser, call, faults, during>>

-----------------------------------------------------------------------------
(* eraseDue() and eraseUser().                                             *)

(* Mutant: whoever is still there is erased.                               *)
IsThere(now) == account.there

IsDue(now) == account.there /\ account.deleted /\ account.due \in 0 .. now

EraserGoes(from, to) == eraser.at = from /\ eraser' = [eraser EXCEPT !.at = to]

SweepFinds ==
  /\ eraser.at = "idle"
  /\ account.there /\ account.deleted /\ account.due \in 0 .. today
  /\ eraser' = [at |-> "traces", now |-> today]
  /\ UNCHANGED <<today, account, outside, canceller, call, faults, history>>

(* Mutant: the traces are left to retention.                               *)
TracesKept == UNCHANGED traces

TracesDeleted == traces' = FALSE

DeleteTraces ==
  /\ EraserGoes("traces", "files")
  /\ TracesDeleted
  /\ during' = (call # "none")
  /\ UNCHANGED <<today, account, files, calls, canceller, call, faults, midway>>

DeleteFiles ==
  /\ EraserGoes("files", "rows")
  /\ files' = FALSE
  /\ UNCHANGED <<today, account, traces, calls, canceller, call, faults, history>>

(* Every row under the user's id goes under the tombstone's.               *)
Tombstoned(id) == IF id = "user" THEN "tombstone" ELSE id

(* The transaction looks again whether the account is due.                 *)
EraseRows ==
  /\ EraserGoes("rows", "idle")
  /\ IF IsDue(eraser.now)
     THEN account' = Erased /\ calls' = {Tombstoned(c) : c \in calls}
     ELSE UNCHANGED <<account, calls>>
  /\ UNCHANGED <<today, files, traces, canceller, call, faults, history>>

(* The worker, storage or the database refuses, or the process dies: the   *)
(* next sweep starts over.                                                 *)
EraseFails ==
  /\ eraser.at # "idle"
  /\ eraser' = [eraser EXCEPT !.at = "idle"]
  /\ Faulty
  /\ UNCHANGED <<today, account, outside, canceller, call, history>>

-----------------------------------------------------------------------------
(* A job that calls the model for this user, scoring an interview or       *)
(* reading a CV.  It looks at the rows of the user, not at deleted_at.     *)

CallGoes(from, to) == call = from /\ call' = to

CallStarts ==
  /\ account.there
  /\ CallGoes("none", "asking")
  /\ during' = (during \/ eraser.at # "idle")
  /\ UNCHANGED <<today, account, outside, eraser, canceller, faults, midway>>

WorkerTraces ==
  /\ CallGoes("asking", "answered")
  /\ traces' = TRUE
  /\ UNCHANGED <<today, account, files, calls, eraser, canceller, faults, history>>

(* ai_call_log takes the id it is given; it is no foreign key.             *)
CallRecorded ==
  /\ CallGoes("answered", "none")
  /\ calls' = calls \cup {"user"}
  /\ UNCHANGED <<today, account, files, traces, eraser, canceller, faults, history>>

Erasing == SweepFinds \/ DeleteTraces \/ DeleteFiles \/ EraseRows

ErasureNext ==
  \/ Tick \/ RequestDeletion \/ UploadCv \/ CancelStarts \/ CancelCommits
  \/ Erasing \/ EraseFails
  \/ CallStarts \/ WorkerTraces \/ CallRecorded

(* The clock goes on and the sweep runs every hour; nobody is bound to     *)
(* delete or to cancel anything.                                           *)
ErasureFairness == WF_erasureVars(Tick) /\ WF_erasureVars(Erasing)

ErasureSpec == ErasureInit /\ [][ErasureNext]_erasureVars /\ ErasureFairness

-----------------------------------------------------------------------------
(* Properties.                                                             *)

ErasureTypeOK ==
  /\ today \in Days
  /\ account \in Account
  /\ files \in BOOLEAN /\ traces \in BOOLEAN
  /\ calls \subseteq {"user", "tombstone"}
  /\ eraser \in Eraser
  /\ canceller \in Days \cup {NoDay}
  /\ call \in {"none", "asking", "answered"}
  /\ faults \in 0 .. MaxFaults
  /\ during \in BOOLEAN /\ midway \in BOOLEAN

NothingLeft == ~files /\ ~traces /\ "user" \notin calls

(* Erasure leaves nothing under the user's id, in the database or outside  *)
(* it, however often it failed before, unless a job was calling the model  *)
(* for the user while it ran.                                              *)
ErasedLeavesNothing == ~account.there /\ ~during => NothingLeft

(* An account is erased only once its own grace is over, even one whose    *)
(* deletion was cancelled, or cancelled and asked for again, while the     *)
(* sweep was at it.                                                        *)
ErasedWhenDue ==
  [][account.there /\ ~account'.there => account.deleted /\ account.due \in 0 .. today]_erasureVars

(* The files of an account nobody is deleting stay, unless a cancellation  *)
(* begun within the grace ended while the sweep was at it.                 *)
FilesStay == [][files /\ ~files' /\ ~midway => account.deleted]_erasureVars

(* A deletion nobody cancels is carried out, although traces or storage    *)
(* could not be reached at first.                                          *)
ErasedInTheEnd ==
  account.deleted /\ account.due <= LastDay ~> ~account.deleted
=============================================================================
