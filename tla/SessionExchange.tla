--------------------------- MODULE SessionExchange ---------------------------
(***************************************************************************)
(* Advancing one interview through the API: requests that read the session *)
(* row, take the Redis lock, ask the worker and write what it answered,    *)
(* together with what else writes that row, the candidate starting another *)
(* interview and the sweep of stale sessions.                              *)
(*                                                                         *)
(* The engine is the abstract one of InterviewSession; a turn is the       *)
(* request that wrote it.  An API process may die, a worker call may time  *)
(* out while the worker goes on, Redis may forget the worker's cache.      *)
(***************************************************************************)
EXTENDS Integers

CONSTANTS
  Requests,  \* POST /interviews/:id/advance, each sent once
  Nobody,    \* no request
  Earlier,   \* the request that started the interview, when it has been
  MaxNext    \* bound: no exchange from a snapshot at this seq or later

ASSUME RequestsAssumption ==
  /\ Nobody # Earlier
  /\ {Nobody, Earlier} \cap Requests = {}
  /\ MaxNext \in Nat \ {0, 1}

VARIABLES
  row,       \* the session row: status, state (as a stage), engine_snapshot
  turns,     \* session_turns: seq -> the request whose turn it is, or Nobody
  newer,     \* is a later interview of this candidate running?
  lapsed,    \* is the resume grace over?
  sweeping,  \* has the sweep read this session as stale?
  lock,      \* the request holding interview-advance:<id>, or Nobody
  cache,     \* the snapshot in the worker's Redis, or Null
  pc,        \* where each request is
  copy,      \* the row as each request read it
  job,       \* the worker's side of each request
  reply,     \* what the worker answered to each request
  stale      \* history: requests written from a copy the row had left

database == <<row, turns, newer, lapsed, sweeping, stale>>
worker   == <<cache, job, reply>>
vars     == <<database, worker, lock, pc, copy>>

Null == [stage |-> "null", next |-> 0]

Engine == INSTANCE InterviewSession WITH point <- row.snapshot

Row == [status   : {"in_progress", "completed", "abandoned"},
        state    : Engine!Stages,
        snapshot : Engine!Point \cup {Null}]

NewRow == [status |-> "in_progress", state |-> "intro", snapshot |-> Null]

Seqs == 0 .. MaxNext + 1

Abandoned(r) == [r EXCEPT !.status = "abandoned", !.state = "ended"]

(* A call: what it asks for, whether the bundle is in it, and the point    *)
(* the engine sets out from, once it has.                                  *)
Job == [at : {"none", "called", "working", "over"}, bundle : BOOLEAN,
        action : Engine!Actions, from : Engine!Point \cup {Null}]

Call(a, bundle) == [at |-> "called", bundle |-> bundle, action |-> a, from |-> Null]

NoJob == [Call("start", FALSE) EXCEPT !.at = "none"]

Over(call) == [Call("start", call.bundle) EXCEPT !.at = "over"]

Reply == [kind : {"none", "bundle_required", "moved"},
          from : Engine!Point \cup {Null}, to : Engine!Point \cup {Null}]

NoReply == [kind |-> "none", from |-> Null, to |-> Null]

Places == {"new", "read", "asking", "releasing", "deleting", "closed", "dead"}

(* Either nothing has been asked of the interview yet, or it has been      *)
(* started, greeted and put its first question.                            *)
Init ==
  /\ \E next \in {0, Engine!TurnsOf("start")} :
       LET started == [stage |-> "open", next |-> next]
       IN  /\ row = IF next = 0 THEN NewRow ELSE
                      [status |-> "in_progress", state |-> "open", snapshot |-> started]
           /\ cache = IF next = 0 THEN Null ELSE started
           /\ turns = [seq \in Seqs |-> IF seq < next THEN Earlier ELSE Nobody]
  /\ newer = FALSE /\ lapsed = FALSE /\ sweeping = FALSE
  /\ lock = Nobody
  /\ pc = [r \in Requests |-> "new"]
  /\ copy = [r \in Requests |-> NewRow]
  /\ job = [r \in Requests |-> NoJob]
  /\ reply = [r \in Requests |-> NoReply]
  /\ stale = {}

-----------------------------------------------------------------------------
(* The request: live(), lock(), exchange(), release().                     *)

Goes(r, from, to) == pc[r] = from /\ pc' = [pc EXCEPT ![r] = to]

(* Mutant: only the grace is looked at.                                    *)
LiveWhileGraceLasts == ~lapsed

IsLive == row.status = "in_progress" /\ ~lapsed

ReadRow(r) ==
  /\ IsLive
  /\ Goes(r, "new", "read")
  /\ copy' = [copy EXCEPT ![r] = row]
  /\ UNCHANGED <<database, worker, lock>>

MeetClosed(r) ==
  /\ ~IsLive
  /\ Goes(r, "new", "closed")
  /\ UNCHANGED <<database, worker, lock, copy>>

(* What the request asks for, and the call that carries it: the bundle is  *)
(* in it only when nothing is stored yet.                                  *)
AskWorker(r) ==
  /\ Goes(r, "read", "asking")
  /\ \E a \in Engine!Actions :
       job' = [job EXCEPT ![r] = Call(a, copy[r].snapshot = Null)]
  /\ UNCHANGED <<database, cache, reply, copy>>

(* Mutant: the lock is set whoever holds it.                               *)
TakeAnyLock(r) == AskWorker(r) /\ lock' = r

TakeLock(r) ==
  /\ lock = Nobody
  /\ lock' = r
  /\ AskWorker(r)

MeetLock(r) ==
  /\ Goes(r, "read", "closed")
  /\ lock # Nobody
  /\ UNCHANGED <<database, worker, lock, copy>>

(* bundle_required: a second worker call, under the same lock.             *)
ResendBundle(r) ==
  /\ pc[r] = "asking"
  /\ reply[r].kind = "bundle_required"
  /\ job' = [job EXCEPT ![r] = Call(@.action, TRUE)]
  /\ reply' = [reply EXCEPT ![r] = NoReply]
  /\ UNCHANGED <<database, cache, lock, pc, copy>>

(* worker_unavailable, by a timeout among other things, or a refusal, by   *)
(* the engine or for want of words: the exchange stores nothing.           *)
GiveUp(r) ==
  /\ Goes(r, "asking", "releasing")
  /\ reply[r] = NoReply
  /\ UNCHANGED <<database, worker, lock, copy>>

SeqsOf(r) == reply[r].from.next .. reply[r].to.next - 1

(* Turns are upserted with nothing to update: one that is there stays.     *)
UpsertTurns(r) ==
  [seq \in Seqs |->
     IF seq \in SeqsOf(r) /\ turns[seq] = Nobody THEN r ELSE turns[seq]]

(* Mutant: the snapshot the worker sent back is not stored.                *)
ForgetSnapshot(r) ==
  [status   |-> IF reply[r].to.stage = "ended" THEN "completed" ELSE copy[r].status,
   state    |-> reply[r].to.stage,
   snapshot |-> copy[r].snapshot]

(* What the row becomes is computed from the copy the request read.        *)
RowAfter(r) ==
  [status   |-> IF reply[r].to.stage = "ended" THEN "completed" ELSE copy[r].status,
   state    |-> reply[r].to.stage,
   snapshot |-> reply[r].to]

ApplyExchange(r) ==
  /\ Goes(r, "asking", "releasing")
  /\ reply[r].kind = "moved"
  /\ turns' = UpsertTurns(r)
  /\ row' = RowAfter(r)
  /\ stale' = IF copy[r] = row THEN stale ELSE stale \cup {r}
  /\ UNCHANGED <<worker, newer, lapsed, sweeping, lock, copy>>

(* release() looks whose the lock is and then deletes it.                  *)
CheckLock(r) ==
  /\ Goes(r, "releasing", IF lock = r THEN "deleting" ELSE "closed")
  /\ UNCHANGED <<database, worker, lock, copy>>

DeleteLock(r) ==
  /\ Goes(r, "deleting", "closed")
  /\ lock' = Nobody
  /\ UNCHANGED <<database, worker, copy>>

InFlight(r) == pc[r] \in {"read", "asking", "releasing", "deleting"}

Crash(r) ==
  /\ InFlight(r)
  /\ pc' = [pc EXCEPT ![r] = "dead"]
  /\ UNCHANGED <<database, worker, lock, copy>>

(* The lock's life is one worker timeout and some slack: a request that    *)
(* makes two worker calls can outlive it, and a dead one always does.      *)
Resent(r) == job[r].bundle /\ copy[r].snapshot # Null

(* Mutant: the lock of a dead request never expires.                       *)
OutlivesOnlyAlive(r) == Resent(r) /\ pc[r] # "dead"

OutlivesItsLock(r) == Resent(r) \/ pc[r] = "dead"

LockExpires ==
  /\ \E r \in Requests : lock = r /\ OutlivesItsLock(r)
  /\ lock' = Nobody
  /\ UNCHANGED <<database, worker, pc, copy>>

-----------------------------------------------------------------------------
(* The worker: InterviewService.advance.                                   *)

(* The answer reaches the request that still waits for it.                 *)
Ends(r, answer) ==
  /\ job' = [job EXCEPT ![r] = Over(@)]
  /\ reply' = IF pc[r] = "asking" THEN [reply EXCEPT ![r] = answer] ELSE reply

(* Mutant: what Redis holds wins over what the request carries.            *)
RestoreCacheFirst(r) ==
  CASE cache # Null -> cache
    [] cache = Null /\ copy[r].snapshot # Null -> copy[r].snapshot
    [] OTHER -> Engine!Beginning

(* The request's snapshot wins over Redis; with neither, a new interview.  *)
Restore(r) ==
  CASE copy[r].snapshot # Null -> copy[r].snapshot
    [] copy[r].snapshot = Null /\ cache # Null -> cache
    [] OTHER -> Engine!Beginning

WorkerStarts(r) ==
  /\ job[r].at = "called"
  /\ LET from == Restore(r)
     IN  CASE ~job[r].bundle /\ cache = Null ->
                Ends(r, [NoReply EXCEPT !.kind = "bundle_required"])
           [] /\ job[r].bundle \/ cache # Null
              /\ Engine!Takes(from.stage, job[r].action) /\ from.next < MaxNext ->
                /\ job' = [job EXCEPT ![r].at = "working", ![r].from = from]
                /\ UNCHANGED reply
           [] OTHER -> Ends(r, NoReply)
  /\ UNCHANGED <<database, cache, lock, pc, copy>>

(* The snapshot is cached, whoever still waits for the answer.             *)
WorkerFinishes(r) ==
  /\ job[r].at = "working"
  /\ \E to \in Engine!Outcomes(job[r].from, job[r].action) :
       /\ cache' = to
       /\ Ends(r, [kind |-> "moved", from |-> job[r].from, to |-> to])
  /\ UNCHANGED <<database, lock, pc, copy>>

CacheExpires ==
  /\ cache # Null
  /\ cache' = Null
  /\ UNCHANGED <<database, job, reply, lock, pc, copy>>

-----------------------------------------------------------------------------
(* What else writes the row.                                               *)

(* Another interview is created: those in progress are abandoned.          *)
CreateAnother ==
  /\ ~newer
  /\ newer' = TRUE
  /\ row' = IF row.status = "in_progress" THEN Abandoned(row) ELSE row
  /\ UNCHANGED <<turns, lapsed, sweeping, stale, worker, lock, pc, copy>>

GraceEnds ==
  /\ ~lapsed
  /\ lapsed' = TRUE
  /\ UNCHANGED <<row, turns, newer, sweeping, stale, worker, lock, pc, copy>>

(* abandonStale reads the stale sessions and then updates them by id.      *)
SweepReads ==
  /\ ~sweeping
  /\ row.status = "in_progress" /\ lapsed
  /\ sweeping' = TRUE
  /\ UNCHANGED <<row, turns, newer, lapsed, stale, worker, lock, pc, copy>>

SweepAbandons ==
  /\ sweeping
  /\ sweeping' = FALSE
  /\ row' = Abandoned(row)
  /\ UNCHANGED <<turns, newer, lapsed, stale, worker, lock, pc, copy>>

Proceeds(r) ==
  \/ TakeLock(r) \/ MeetLock(r) \/ ResendBundle(r) \/ GiveUp(r)
  \/ ApplyExchange(r) \/ CheckLock(r) \/ DeleteLock(r)

Next ==
  \/ \E r \in Requests :
       \/ ReadRow(r) \/ MeetClosed(r) \/ Proceeds(r) \/ Crash(r)
       \/ WorkerStarts(r) \/ WorkerFinishes(r)
  \/ LockExpires \/ CacheExpires
  \/ CreateAnother \/ GraceEnds \/ SweepReads \/ SweepAbandons

(* A request in flight is run to its end by its process, which bounds the  *)
(* worker's answer by a timeout; Redis runs out its keys.  Nothing else is *)
(* owed: the worker may never answer, a process may die at any point.      *)
Fairness ==
  /\ \A r \in Requests : WF_vars(Proceeds(r))
  /\ WF_vars(LockExpires)

Spec == Init /\ [][Next]_vars /\ Fairness

-----------------------------------------------------------------------------
(* Properties.                                                             *)

TypeOK ==
  /\ row \in Row
  /\ turns \in [Seqs -> Requests \cup {Nobody, Earlier}]
  /\ newer \in BOOLEAN /\ lapsed \in BOOLEAN /\ sweeping \in BOOLEAN
  /\ lock \in Requests \cup {Nobody}
  /\ cache \in Engine!Point \cup {Null}
  /\ pc \in [Requests -> Places]
  /\ copy \in [Requests -> Row]
  /\ job \in [Requests -> Job]
  /\ reply \in [Requests -> Reply]
  /\ stale \subseteq Requests

Inside(r) == pc[r] \in {"asking", "releasing", "deleting"}

(* One exchange at a time per session (lock()), for as long as no request  *)
(* has had to send the bundle again.                                       *)
OneExchangeAtATime ==
  (\E r \in Requests : Resent(r)) \/ \A r, s \in Requests : Inside(r) /\ Inside(s) => r = s

Written(r) == pc[r] \in {"releasing", "deleting", "closed"} /\ reply[r].kind = "moved"

Kept(r) == \A seq \in SeqsOf(r) : turns[seq] = r

(* What a candidate was shown as said is in the transcript, unless their   *)
(* exchange was written from a row another writer had moved on.            *)
ShownTurnsAreKept ==
  stale = {} => \A r \in Requests : Written(r) => Kept(r)

Whole == \A seq \in Seqs : turns[seq] # Nobody <=> seq < row.snapshot.next

(* The transcript has no hole and nothing beyond the snapshot, as long as  *)
(* no exchange was written from a row that had moved on, nor taken up from *)
(* the worker's cache when nothing was stored.                             *)
TookTheCache(r) == copy[r].snapshot = Null /\ reply[r].from.next > 0

TranscriptIsWhole ==
  stale = {} /\ ~(\E r \in Requests : TookTheCache(r)) => Whole

(* Turns are the record: once stored, no replay, late answer or second     *)
(* exchange changes one (applyExchange, "what was said was said").  Nor    *)
(* does a closed session come back or its engine move, except by the write *)
(* of an exchange that read it before it was closed.                       *)
RecordStays ==
  [][/\ \A seq \in Seqs : turns[seq] # Nobody => turns'[seq] = turns[seq]
     /\ row.status # "in_progress" /\ stale' = stale =>
          row'.status # "in_progress" /\ row'.snapshot = row.snapshot]_vars

(* A process that dies mid-exchange cannot lock a candidate out for ever.  *)
LockIsLetGo == \A r \in Requests : lock = r ~> lock # r

=============================================================================
