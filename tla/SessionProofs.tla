---------------------------- MODULE SessionProofs ----------------------------
(***************************************************************************)
(* A session from both ends: what holds of its exchanges for any number of *)
(* requests, however they, the worker, Redis, create() and the sweep       *)
(* interleave (SessionExchange), and of what is on screen for any number   *)
(* of tabs, whatever connections break (InterviewScreen).                  *)
(***************************************************************************)
EXTENDS SessionExchange, InterviewScreen, SequenceTheorems, TLAPS

-----------------------------------------------------------------------------
(* The inductive invariant. *)

(* A request asks only after it has read a row in progress, and is written *)
(* from a copy that had gone stale only once.                              *)
InOrder ==
  \A r \in Requests :
    /\ pc[r] \in {"new", "read"} => job[r] = NoJob /\ reply[r] = NoReply
    /\ pc[r] \in {"read", "asking"} => copy[r].status = "in_progress"
    /\ r \in stale => pc[r] \notin {"new", "read", "asking"}

(* Where the engine sets out from is what the request carries, if it       *)
(* carries anything.                                                       *)
Departs(r, from) ==
  /\ from \in Engine!Point /\ from.next < MaxNext
  /\ copy[r].snapshot # Null => from = copy[r].snapshot

(* And an answer takes it one or two turns further.                        *)
Answered ==
  \A r \in Requests :
    /\ job[r].at \in {"called", "working"} => reply[r] = NoReply
    /\ job[r].at = "working" => Departs(r, job[r].from)
    /\ IF reply[r].kind = "moved"
       THEN /\ Departs(r, reply[r].from)
            /\ reply[r].to \in Engine!Point
            /\ reply[r].to.next \in {reply[r].from.next + 1, reply[r].from.next + 2}
       ELSE reply[r].from = Null

(* Whoever is at the worker, or letting go, has the lock, until one has    *)
(* had to send the bundle again.                                           *)
Held == (\E r \in Requests : Resent(r)) \/ \A r \in Requests : Inside(r) => lock = r

(* Nothing is stored beyond the snapshot.                                  *)
Bounded ==
  stale = {} => \A seq \in Seqs : turns[seq] # Nobody => seq < row.snapshot.next

IInv ==
  TypeOK /\ InOrder /\ Answered /\ Held /\ Bounded /\ ShownTurnsAreKept /\ TranscriptIsWhole

-----------------------------------------------------------------------------
(* Data *)

(* A snapshot stored, or none, has a next seq.                             *)
LEMMA NextIsNat ==
  /\ Null.next = 0
  /\ \A p \in Engine!Point \cup {Null} : p.next \in Nat
  BY DEF Null, Engine!Point

(* An exchange takes a session on by one turn or two.                      *)
LEMMA OutcomesAreNear ==
  ASSUME NEW from \in Engine!Point, NEW a \in Engine!Actions, NEW to \in Engine!Outcomes(from, a)
  PROVE  to \in Engine!Point /\ to.next \in {from.next + 1, from.next + 2}
<1>1. Engine!TurnsOf(a) \in {1, 2}
  BY DEF Engine!TurnsOf, Engine!Actions
<1>2. PICK stage \in {"open", "ended"} :
        to = [stage |-> stage, next |-> from.next + Engine!TurnsOf(a)]
  BY DEF Engine!Outcomes
<1>3. from.next \in Nat
  BY DEF Engine!Point
<1>4. QED
  BY <1>1, <1>2, <1>3 DEF Engine!Point, Engine!Stages

(* Nothing is answered, and there is no call, to begin with.               *)
LEMMA NothingTyped ==
  /\ NoReply \in Reply /\ NoReply.kind = "none" /\ NoReply.from = Null /\ NoReply.from.next = 0
  /\ NoJob \in Job /\ NoJob.at = "none" /\ ~NoJob.bundle
  /\ NewRow \in Row /\ NewRow.status = "in_progress" /\ NewRow.snapshot = Null
<1>1. NoReply \in Reply
  BY DEF NoReply, Reply
<1>2. NoReply.kind = "none" /\ NoReply.from = Null /\ NoReply.from.next = 0
  BY NextIsNat DEF NoReply
<1>3. NoJob \in Job
  BY Zenon DEF NoJob, Call, Job, Engine!Actions
<1>4. NoJob.at = "none" /\ ~NoJob.bundle
  BY DEF NoJob, Call
<1>5. NewRow \in Row /\ NewRow.status = "in_progress" /\ NewRow.snapshot = Null
  BY DEF NewRow, Row, Engine!Stages
<1>6. QED
  BY <1>1, <1>2, <1>3, <1>4, <1>5

(* A call is a job, whether it carries the bundle or not.                  *)
LEMMA CallTyped ==
  ASSUME NEW a \in Engine!Actions, NEW bundle \in BOOLEAN
  PROVE  /\ Call(a, bundle) \in Job
         /\ Call(a, bundle).at = "called" /\ Call(a, bundle).bundle = bundle
  BY Zenon DEF Call, Job

(* A call that is over is one that was made.                               *)
LEMMA OverTyped ==
  ASSUME NEW j \in Job
  PROVE  Over(j) \in Job /\ Over(j).at = "over" /\ Over(j).bundle = j.bundle
<1>1. j.bundle \in BOOLEAN
  BY Zenon DEF Job
<1>2. Over(j) \in Job
  BY <1>1, Zenon DEF Over, Call, Job, Engine!Actions
<1>3. Over(j).at = "over" /\ Over(j).bundle = j.bundle
  BY DEF Over, Call
<1>4. QED
  BY <1>2, <1>3

(* A row that is abandoned keeps its snapshot.                             *)
LEMMA AbandonedTyped ==
  ASSUME NEW w \in Row
  PROVE  /\ Abandoned(w) \in Row /\ Abandoned(w).status = "abandoned"
         /\ Abandoned(w).snapshot = w.snapshot
  BY DEF Abandoned, Row, Engine!Stages

(* Once a second call is on its way it stays so; once a request has gone   *)
(* on from the worker's cache it has.                                      *)
Onwards ==
  /\ \A r \in Requests : Resent(r) => Resent(r)'
  /\ \A r \in Requests : TookTheCache(r) => TookTheCache(r)'

(* Nothing that is claimed turns on what the step leaves alone.            *)
LEMMA StoredKeeps ==
  ASSUME IInv, UNCHANGED <<row, turns, stale>>, Onwards,
         \A r \in Requests : Written(r)' => Written(r) /\ reply'[r] = reply[r]
  PROVE  Bounded' /\ ShownTurnsAreKept' /\ TranscriptIsWhole'
<1>1. Bounded'
  BY DEF IInv, Bounded
<1>2. ShownTurnsAreKept'
  BY DEF IInv, ShownTurnsAreKept, Kept, SeqsOf
<1>3. TranscriptIsWhole'
  BY DEF IInv, TranscriptIsWhole, Whole, Onwards
<1>4. QED
  BY <1>1, <1>2, <1>3

-----------------------------------------------------------------------------
(* The first state. *)
LEMMA InitKeeps == Init => IInv
<1> SUFFICES ASSUME Init PROVE IInv
  OBVIOUS
<1>1. /\ newer = FALSE /\ lapsed = FALSE /\ sweeping = FALSE
      /\ lock = Nobody /\ stale = {}
      /\ pc = [r \in Requests |-> "new"] /\ copy = [r \in Requests |-> NewRow]
      /\ job = [r \in Requests |-> NoJob] /\ reply = [r \in Requests |-> NoReply]
  BY DEF Init
<1>2. /\ row \in Row /\ cache \in Engine!Point \cup {Null}
      /\ turns \in [Seqs -> Requests \cup {Nobody, Earlier}]
      /\ Whole
  <2>1. PICK next \in {0, Engine!TurnsOf("start")} :
          LET started == [stage |-> "open", next |-> next]
          IN  /\ row = IF next = 0 THEN NewRow ELSE
                         [status |-> "in_progress", state |-> "open", snapshot |-> started]
              /\ cache = IF next = 0 THEN Null ELSE started
              /\ turns = [seq \in Seqs |-> IF seq < next THEN Earlier ELSE Nobody]
    BY DEF Init
  <2>2. next \in {0, 2}
    BY <2>1 DEF Engine!TurnsOf
  <2>3. [stage |-> "open", next |-> next] \in Engine!Point
    BY <2>2 DEF Engine!Point, Engine!Stages
  <2>4. row \in Row /\ row.snapshot.next = next
    BY <2>1, <2>2, <2>3, NothingTyped, NextIsNat DEF Row, Engine!Stages
  <2>5. QED
    BY <2>1, <2>2, <2>3, <2>4, RequestsAssumption DEF Whole, RequestsAssumption
<1>3. TypeOK
  <2>1. /\ pc \in [Requests -> Places] /\ copy \in [Requests -> Row]
        /\ job \in [Requests -> Job] /\ reply \in [Requests -> Reply]
    BY <1>1, NothingTyped DEF Places
  <2>2. newer \in BOOLEAN /\ lapsed \in BOOLEAN /\ sweeping \in BOOLEAN
    BY <1>1, Zenon
  <2>3. QED
    BY <1>1, <1>2, <2>1, <2>2 DEF TypeOK
<1>4. QED
  BY <1>1, <1>2, <1>3, NothingTyped DEF IInv, InOrder, Answered, Held, Inside, Bounded,
     ShownTurnsAreKept, Written, TranscriptIsWhole, Whole

-----------------------------------------------------------------------------
(* What a request does by itself. *)

(* Reading the row: nothing has been asked or answered yet.                *)
LEMMA ReadKeeps ==
  ASSUME IInv, NEW r \in Requests, ReadRow(r)
  PROVE  IInv'
<1>1. /\ UNCHANGED <<database, worker, lock>>
      /\ row.status = "in_progress" /\ pc[r] = "new"
      /\ pc' = [pc EXCEPT ![r] = "read"] /\ copy' = [copy EXCEPT ![r] = row]
  BY DEF ReadRow, Goes, IsLive
<1>2. job[r] = NoJob /\ reply[r] = NoReply
  BY <1>1 DEF IInv, InOrder
<1>3. TypeOK'
  BY <1>1 DEF IInv, TypeOK, database, worker, Places
<1>4. Onwards
  BY <1>1, <1>2, NothingTyped DEF IInv, TypeOK, Onwards, Resent, TookTheCache, worker
<1>5. \A s \in Requests : Written(s)' => Written(s) /\ reply'[s] = reply[s]
  BY <1>1 DEF Written, IInv, TypeOK, worker
<1>6. InOrder'
  BY <1>1 DEF IInv, TypeOK, InOrder, database, worker
<1>7. Answered'
  BY <1>1, <1>2, NothingTyped DEF IInv, TypeOK, Answered, Departs, worker
<1>8. Held'
  BY <1>1, <1>4 DEF IInv, TypeOK, Held, Inside, Onwards
<1>9. QED
  BY <1>1, <1>3, <1>4, <1>5, <1>6, <1>7, <1>8, StoredKeeps DEF IInv, database

(* Going on without touching anything but where the request is.            *)
LEMMA GoingKeeps ==
  ASSUME IInv, NEW r \in Requests, MeetClosed(r) \/ MeetLock(r) \/ GiveUp(r) \/ CheckLock(r) \/ Crash(r)
  PROVE  IInv'
<1>1. /\ UNCHANGED <<database, worker, lock, copy>>
      /\ \E to \in {"closed", "releasing", "deleting", "dead"} : pc' = [pc EXCEPT ![r] = to]
      /\ Inside(r)' => Inside(r)
  BY DEF MeetClosed, MeetLock, GiveUp, CheckLock, Crash, Goes, Inside, IInv, TypeOK
<1>2. TypeOK'
  BY <1>1 DEF IInv, TypeOK, database, worker, Places
<1>3. Onwards
  BY <1>1 DEF Onwards, Resent, TookTheCache, worker
<1>4. \A s \in Requests : Written(s)' => Written(s) /\ reply'[s] = reply[s]
  <2>1. CASE MeetClosed(r) \/ MeetLock(r)
    BY <2>1, <1>1, NothingTyped
       DEF MeetClosed, MeetLock, Goes, Written, IInv, TypeOK, InOrder, worker
  <2>2. CASE GiveUp(r)
    BY <2>2, <1>1, NothingTyped DEF GiveUp, Goes, Written, IInv, TypeOK, worker
  <2>3. CASE CheckLock(r) \/ Crash(r)
    BY <2>3, <1>1 DEF CheckLock, Crash, Goes, Written, IInv, TypeOK, worker
  <2>4. QED
    BY <2>1, <2>2, <2>3
<1>5. InOrder'
  BY <1>1 DEF IInv, TypeOK, InOrder, database, worker
<1>6. Answered'
  BY <1>1 DEF IInv, Answered, Departs, worker
<1>7. Held'
  <2>1. \A s \in Requests : Inside(s)' => Inside(s)
    BY <1>1 DEF Inside, IInv, TypeOK
  <2>2. QED
    BY <1>1, <1>3, <2>1 DEF IInv, Held, Onwards
<1>8. QED
  BY <1>1, <1>2, <1>3, <1>4, <1>5, <1>6, <1>7, StoredKeeps DEF IInv, database

(* Taking the lock, and asking: nobody had it.                             *)
LEMMA TakingKeeps ==
  ASSUME IInv, NEW r \in Requests, TakeLock(r)
  PROVE  IInv'
<1>1. /\ UNCHANGED <<database, cache, reply, copy>>
      /\ lock = Nobody /\ lock' = r
      /\ pc[r] = "read" /\ pc' = [pc EXCEPT ![r] = "asking"]
  BY DEF TakeLock, AskWorker, Goes
<1>2. PICK a \in Engine!Actions : job' = [job EXCEPT ![r] = Call(a, copy[r].snapshot = Null)]
  BY DEF TakeLock, AskWorker
<1>3. /\ Call(a, copy[r].snapshot = Null) \in Job
      /\ Call(a, copy[r].snapshot = Null).at = "called"
  <2>1. (copy[r].snapshot = Null) \in BOOLEAN
    BY Zenon
  <2>2. QED
    BY <2>1, CallTyped
<1>4. job[r] = NoJob /\ reply[r] = NoReply /\ copy[r].status = "in_progress" /\ r \notin stale
  BY <1>1 DEF IInv, InOrder
<1>5. TypeOK'
  BY <1>1, <1>2, <1>3 DEF IInv, TypeOK, database, Places
<1>6. Onwards
  BY <1>1, <1>2, <1>4, NothingTyped DEF Onwards, Resent, TookTheCache, IInv, TypeOK
<1>7. \A s \in Requests : Written(s)' => Written(s) /\ reply'[s] = reply[s]
  BY <1>1 DEF Written, IInv, TypeOK
<1>8. InOrder'
  BY <1>1, <1>2, <1>4 DEF IInv, TypeOK, InOrder, database
<1>9. Answered'
  BY <1>1, <1>2, <1>3, <1>4 DEF IInv, TypeOK, Answered, Departs
<1>10. Held'
  BY <1>1, <1>6, RequestsAssumption
     DEF IInv, TypeOK, Held, Inside, Onwards, RequestsAssumption
<1>11. QED
  BY <1>1, <1>5, <1>6, <1>7, <1>8, <1>9, <1>10, StoredKeeps DEF IInv, database

(* Sending the bundle again.                                               *)
LEMMA ResendingKeeps ==
  ASSUME IInv, NEW r \in Requests, ResendBundle(r)
  PROVE  IInv'
<1>1. /\ UNCHANGED <<database, cache, lock, pc, copy>>
      /\ pc[r] = "asking" /\ reply[r].kind = "bundle_required"
      /\ job' = [job EXCEPT ![r] = Call(@.action, TRUE)]
      /\ reply' = [reply EXCEPT ![r] = NoReply]
  BY DEF ResendBundle
<1>2. job[r].action \in Engine!Actions
  BY DEF IInv, TypeOK, Job
<1>3. /\ Call(job[r].action, TRUE) \in Job /\ Call(job[r].action, TRUE).at = "called"
      /\ Call(job[r].action, TRUE).bundle
  BY <1>2, CallTyped, Zenon
<1>4. reply[r].from = Null
  BY <1>1 DEF IInv, Answered
<1>5. TypeOK'
  BY <1>1, <1>3, NothingTyped DEF IInv, TypeOK, database
<1>6. Onwards
  <2>1. \A s \in Requests : TookTheCache(s) => TookTheCache(s)'
    BY <1>1, <1>4, NextIsNat DEF TookTheCache, IInv, TypeOK
  <2>2. job'[r] = Call(job[r].action, TRUE)
    BY <1>1 DEF IInv, TypeOK
  <2>3. job'[r].bundle
    BY <1>3, <2>2, Zenon
  <2>4. \A s \in Requests \ {r} : job'[s] = job[s]
    BY <1>1 DEF IInv, TypeOK
  <2>5. \A s \in Requests : Resent(s) => Resent(s)'
    BY <1>1, <2>3, <2>4 DEF Resent
  <2>6. QED
    BY <2>1, <2>5 DEF Onwards
<1>7. \A s \in Requests : Written(s)' => Written(s) /\ reply'[s] = reply[s]
  BY <1>1 DEF Written, IInv, TypeOK
<1>8. InOrder'
  BY <1>1 DEF IInv, TypeOK, InOrder, database
<1>9. Answered'
  BY <1>1, <1>3, NothingTyped DEF IInv, TypeOK, Answered, Departs
<1>10. Held'
  BY <1>1, <1>6 DEF IInv, Held, Inside, Onwards
<1>11. QED
  BY <1>1, <1>5, <1>6, <1>7, <1>8, <1>9, <1>10, StoredKeeps DEF IInv, database

(* Letting the lock go: it is its own, or somebody has resent the bundle.  *)
LEMMA DeletingKeeps ==
  ASSUME IInv, NEW r \in Requests, DeleteLock(r)
  PROVE  IInv'
<1>1. /\ UNCHANGED <<database, worker, copy>> /\ lock' = Nobody
      /\ pc[r] = "deleting" /\ pc' = [pc EXCEPT ![r] = "closed"]
  BY DEF DeleteLock, Goes
<1>2. TypeOK'
  BY <1>1 DEF IInv, TypeOK, database, worker, Places
<1>3. Onwards
  BY <1>1 DEF Onwards, Resent, TookTheCache, worker
<1>4. \A s \in Requests : Written(s)' => Written(s) /\ reply'[s] = reply[s]
  BY <1>1 DEF Written, IInv, TypeOK, worker
<1>5. InOrder' /\ Answered'
  BY <1>1 DEF IInv, TypeOK, InOrder, Answered, Departs, database, worker
<1>6. Held'
  <2>1. CASE \E s \in Requests : Resent(s)
    BY <2>1, <1>3 DEF Held, Onwards
  <2>2. CASE \A s \in Requests : Inside(s) => lock = s
    <3>1. lock = r
      BY <1>1, <2>2 DEF Inside
    <3>2. \A s \in Requests : ~Inside(s)'
      BY <1>1, <2>2, <3>1 DEF Inside, IInv, TypeOK
    <3>3. QED
      BY <3>2 DEF Held
  <2>3. QED
    BY <2>1, <2>2 DEF IInv, Held
<1>7. QED
  BY <1>1, <1>2, <1>3, <1>4, <1>5, <1>6, StoredKeeps DEF IInv, database

-----------------------------------------------------------------------------
(* What the exchange writes. *)

(* What it writes is its own, and follows on what is stored, when nothing  *)
(* has been written from a stale copy.                                     *)
LEMMA ApplyingKeeps ==
  ASSUME IInv, NEW r \in Requests, ApplyExchange(r)
  PROVE  IInv'
<1> DEFINE from == reply[r].from
           to   == reply[r].to
<1>1. /\ UNCHANGED <<worker, newer, lapsed, sweeping, lock, copy>>
      /\ pc[r] = "asking" /\ pc' = [pc EXCEPT ![r] = "releasing"]
      /\ reply[r].kind = "moved"
      /\ turns' = UpsertTurns(r) /\ row' = RowAfter(r)
      /\ stale' = IF copy[r] = row THEN stale ELSE stale \cup {r}
  BY DEF ApplyExchange, Goes
<1>2. /\ Departs(r, from) /\ to \in Engine!Point
      /\ to.next \in {from.next + 1, from.next + 2}
      /\ from.next \in Nat /\ to.next \in Nat
  BY <1>1, NextIsNat DEF IInv, Answered, Departs
<1>3. row' \in Row /\ row'.snapshot = to
  BY <1>1, <1>2 DEF RowAfter, Row, Engine!Point, IInv, TypeOK
<1>4. turns' \in [Seqs -> Requests \cup {Nobody, Earlier}]
  BY <1>1 DEF UpsertTurns, IInv, TypeOK
<1>5. TypeOK'
  BY <1>1, <1>3, <1>4 DEF IInv, TypeOK, worker, Places
<1>6. Onwards
  BY <1>1 DEF Onwards, Resent, TookTheCache, worker
<1>7. r \notin stale /\ copy[r].status = "in_progress"
  BY <1>1 DEF IInv, InOrder
<1>8. InOrder' /\ Answered'
  BY <1>1, <1>7 DEF IInv, TypeOK, InOrder, Answered, Departs, worker
<1>9. Held'
  BY <1>1, <1>6 DEF IInv, TypeOK, Held, Inside, Onwards
<1>10. stale' = {} => stale = {} /\ copy[r] = row
  BY <1>1
<1>11. from.next .. to.next - 1 \subseteq Seqs
  BY <1>2, RequestsAssumption DEF RequestsAssumption, Departs, Seqs
<1>12. copy[r] = row => row.snapshot.next \in Nat /\ row.snapshot.next =< from.next
                       /\ (row.snapshot # Null => row.snapshot = from)
  BY <1>2, NextIsNat DEF Departs, IInv, TypeOK, Row
<1>13. \A seq \in Seqs : /\ turns[seq] # Nobody => turns'[seq] = turns[seq]
                         /\ seq \in from.next .. to.next - 1 /\ turns[seq] = Nobody =>
                              turns'[seq] = r
                         /\ seq \notin from.next .. to.next - 1 => turns'[seq] = turns[seq]
  BY <1>1 DEF UpsertTurns, SeqsOf
<1>14. r # Nobody
  BY RequestsAssumption DEF RequestsAssumption
<1>15. Bounded'
  <2> SUFFICES ASSUME stale' = {}, NEW seq \in Seqs, turns'[seq] # Nobody
               PROVE  seq < to.next
    BY <1>3 DEF Bounded
  <2>1. seq \in Nat
    BY RequestsAssumption DEF RequestsAssumption, Seqs
  <2>2. CASE seq \in from.next .. to.next - 1
    BY <1>2, <2>1, <2>2
  <2>3. CASE seq \notin from.next .. to.next - 1
    <3>1. seq < row.snapshot.next
      BY <1>10, <1>13, <2>3 DEF IInv, Bounded
    <3>2. QED
      BY <1>2, <1>10, <1>12, <2>1, <3>1
  <2>4. QED
    BY <2>2, <2>3
<1>16. ShownTurnsAreKept'
  <2> SUFFICES ASSUME stale' = {}, NEW s \in Requests, Written(s)'
               PROVE  Kept(s)'
    BY DEF ShownTurnsAreKept
  <2>1. CASE s = r
    <3>1. ASSUME NEW seq \in from.next .. to.next - 1
          PROVE  turns[seq] = Nobody
      <4>1. seq \in Seqs /\ seq \in Nat /\ seq >= from.next
        BY <1>2, <1>11
      <4>2. ~(seq < row.snapshot.next)
        BY <1>2, <1>10, <1>12, <4>1
      <4>3. QED
        BY <1>10, <4>1, <4>2 DEF IInv, Bounded
    <3>2. QED
      BY <1>1, <1>11, <1>13, <2>1, <3>1 DEF Kept, SeqsOf, worker
  <2>2. CASE s # r
    <3>1. Written(s) /\ reply'[s] = reply[s]
      BY <1>1, <2>2 DEF Written, IInv, TypeOK, worker
    <3>2. Kept(s)
      BY <1>10, <3>1 DEF IInv, ShownTurnsAreKept
    <3>3. s # Nobody
      BY RequestsAssumption DEF RequestsAssumption
    <3>4. \A seq \in SeqsOf(s) : seq \in Seqs
      <4>1. reply[s].kind = "moved"
        BY <3>1 DEF Written
      <4>2. /\ reply[s].from.next \in Nat /\ reply[s].from.next < MaxNext
            /\ reply[s].to.next \in {reply[s].from.next + 1, reply[s].from.next + 2}
        BY <4>1, NextIsNat DEF IInv, Answered, Departs
      <4>3. QED
        BY <4>2, RequestsAssumption DEF RequestsAssumption, SeqsOf, Seqs
    <3>5. QED
      BY <1>13, <3>1, <3>2, <3>3, <3>4 DEF Kept, SeqsOf
  <2>3. QED
    BY <2>1, <2>2
<1>17. TranscriptIsWhole'
  <2> SUFFICES ASSUME stale' = {}, ~(\E s \in Requests : TookTheCache(s)'), NEW seq \in Seqs
               PROVE  turns'[seq] # Nobody <=> seq < to.next
    BY <1>3 DEF TranscriptIsWhole, Whole
  <2>1. \A s \in Requests : ~TookTheCache(s)
    BY <1>6 DEF Onwards
  <2>2. turns[seq] # Nobody <=> seq < row.snapshot.next
    BY <1>10, <2>1 DEF IInv, TranscriptIsWhole, Whole
  <2>3. from.next = row.snapshot.next
    BY <1>2, <1>10, <1>12, <2>1, NextIsNat DEF TookTheCache
  <2>4. seq \in Nat
    BY RequestsAssumption DEF RequestsAssumption, Seqs
  <2>5. QED
    BY <1>2, <1>13, <1>14, <2>2, <2>3, <2>4
<1>18. QED
  BY <1>5, <1>8, <1>9, <1>15, <1>16, <1>17 DEF IInv

-----------------------------------------------------------------------------
(* The worker. *)

(* A call ends with an answer that sets out from what it carried.          *)
LEMMA EndsKeeps ==
  ASSUME IInv, NEW r \in Requests, NEW answer \in Reply, Ends(r, answer),
         job[r].at \in {"called", "working"},
         IF answer.kind = "moved"
         THEN /\ Departs(r, answer.from) /\ answer.to \in Engine!Point
              /\ answer.to.next \in {answer.from.next + 1, answer.from.next + 2}
         ELSE answer.from = Null,
         cache' \in Engine!Point \cup {Null},
         UNCHANGED <<database, lock, pc, copy>>
  PROVE  IInv'
<1>1. /\ job' = [job EXCEPT ![r] = Over(@)]
      /\ reply' = IF pc[r] = "asking" THEN [reply EXCEPT ![r] = answer] ELSE reply
  BY DEF Ends
<1>2. job[r] \in Job
  BY DEF IInv, TypeOK
<1>3. job' \in [Requests -> Job] /\ reply' \in [Requests -> Reply]
  BY <1>1, <1>2, OverTyped DEF IInv, TypeOK
<1>4. TypeOK'
  BY <1>3 DEF IInv, TypeOK, database
<1>5. reply[r] = NoReply
  BY DEF IInv, Answered
<1>6. Onwards
  <2>1. \A s \in Requests : TookTheCache(s) => TookTheCache(s)'
    BY <1>1, <1>5, NothingTyped DEF TookTheCache, IInv, TypeOK
  <2>2. \A s \in Requests : job'[s].bundle = job[s].bundle
    BY <1>1, <1>2, OverTyped DEF IInv, TypeOK
  <2>3. \A s \in Requests : Resent(s) => Resent(s)'
    BY <2>2 DEF Resent
  <2>4. QED
    BY <2>1, <2>3 DEF Onwards
<1>7. \A s \in Requests : Written(s)' => Written(s) /\ reply'[s] = reply[s]
  BY <1>1 DEF Written, IInv, TypeOK
<1>8. InOrder'
  <2>1. pc[r] \notin {"new", "read"}
    BY NothingTyped DEF IInv, InOrder
  <2>2. QED
    BY <1>1, <2>1 DEF IInv, TypeOK, InOrder, database
<1>9. Answered'
  <2>1. \A s \in Requests \ {r} : job'[s] = job[s] /\ reply'[s] = reply[s]
    BY <1>1 DEF IInv, TypeOK
  <2>2. job'[r].at = "over" /\ reply'[r] \in {answer, NoReply}
    BY <1>1, <1>2, <1>5, OverTyped DEF IInv, TypeOK
  <2>3. QED
    BY <2>1, <2>2, NothingTyped DEF IInv, Answered, Departs
<1>10. Held'
  BY <1>6 DEF IInv, Held, Inside, Onwards
<1>11. QED
  BY <1>4, <1>6, <1>7, <1>8, <1>9, <1>10, StoredKeeps DEF IInv, database

(* What the engine is restored from is what the request carries, if that   *)
(* is anything.                                                            *)
LEMMA RestoreTyped ==
  ASSUME IInv, NEW r \in Requests
  PROVE  /\ Restore(r) \in Engine!Point
         /\ copy[r].snapshot # Null => Restore(r) = copy[r].snapshot
<1>1. Engine!Beginning \in Engine!Point
  BY DEF Engine!Beginning, Engine!Point, Engine!Stages
<1>2. copy[r].snapshot \in Engine!Point \cup {Null} /\ cache \in Engine!Point \cup {Null}
  BY DEF IInv, TypeOK, Row
<1>3. QED
  BY <1>1, <1>2 DEF Restore

(* It refuses, or sets out.                                                *)
LEMMA StartingKeeps ==
  ASSUME IInv, NEW r \in Requests, WorkerStarts(r)
  PROVE  IInv'
<1> DEFINE from == Restore(r)
<1>1. /\ UNCHANGED <<database, cache, lock, pc, copy>> /\ job[r].at = "called"
      /\ cache' \in Engine!Point \cup {Null}
  BY DEF WorkerStarts, IInv, TypeOK
<1>2. /\ [NoReply EXCEPT !.kind = "bundle_required"] \in Reply
      /\ [NoReply EXCEPT !.kind = "bundle_required"].kind = "bundle_required"
      /\ [NoReply EXCEPT !.kind = "bundle_required"].from = Null
  BY DEF NoReply, Reply
<1>3. CASE \/ Ends(r, [NoReply EXCEPT !.kind = "bundle_required"])
           \/ Ends(r, NoReply)
  BY <1>1, <1>2, <1>3, EndsKeeps, NothingTyped
<1>4. CASE /\ from.next < MaxNext
           /\ job' = [job EXCEPT ![r].at = "working", ![r].from = from]
           /\ UNCHANGED reply
  <2> DEFINE j == [job[r] EXCEPT !.at = "working", !.from = from]
  <2>1. job' = [job EXCEPT ![r] = j]
    BY <1>4 DEF IInv, TypeOK
  <2>2. job[r] \in Job /\ from \in Engine!Point \cup {Null}
    BY RestoreTyped DEF IInv, TypeOK
  <2>3. j \in Job
    BY <2>2, Zenon DEF Job
  <2>4. j.at = "working" /\ j.from = from
    BY <2>2 DEF Job
  <2>5. j.bundle = job[r].bundle
    BY <2>2 DEF Job
  <2> HIDE DEF j
  <2>6. TypeOK'
    BY <1>1, <1>4, <2>1, <2>3 DEF IInv, TypeOK, database
  <2>7. \A s \in Requests : job'[s].bundle = job[s].bundle
    BY <2>1, <2>5 DEF IInv, TypeOK
  <2>8. Onwards
    BY <1>1, <1>4, <2>7 DEF Onwards, Resent, TookTheCache
  <2>9. \A s \in Requests : Written(s)' => Written(s) /\ reply'[s] = reply[s]
    BY <1>1, <1>4 DEF Written
  <2>10. InOrder'
    <3>1. pc[r] \notin {"new", "read"}
      BY <1>1, NothingTyped DEF IInv, InOrder
    <3>2. QED
      BY <1>1, <1>4, <2>1, <3>1 DEF IInv, TypeOK, InOrder, database
  <2>11. Answered'
    <3>1. reply[r] = NoReply
      BY <1>1 DEF IInv, Answered
    <3>2. Departs(r, from)
      BY <1>4, RestoreTyped DEF Departs
    <3>3. job'[r] = j /\ \A s \in Requests \ {r} : job'[s] = job[s]
      BY <2>1 DEF IInv, TypeOK
    <3> HIDE DEF from
    <3>4. QED
      BY <1>1, <1>4, <2>4, <3>1, <3>2, <3>3, NothingTyped DEF IInv, Answered, Departs
  <2>12. Held'
    BY <1>1, <2>8 DEF IInv, Held, Inside, Onwards
  <2>13. QED
    BY <1>1, <2>6, <2>8, <2>9, <2>10, <2>11, <2>12, StoredKeeps DEF IInv, database
<1>5. QED
  BY <1>3, <1>4 DEF WorkerStarts

(* It answers, whoever still waits.                                        *)
LEMMA FinishingKeeps ==
  ASSUME IInv, NEW r \in Requests, WorkerFinishes(r)
  PROVE  IInv'
<1>1. UNCHANGED <<database, lock, pc, copy>> /\ job[r].at = "working"
  BY DEF WorkerFinishes
<1>2. PICK to \in Engine!Outcomes(job[r].from, job[r].action) :
        cache' = to /\ Ends(r, [kind |-> "moved", from |-> job[r].from, to |-> to])
  BY DEF WorkerFinishes
<1>3. Departs(r, job[r].from) /\ job[r].action \in Engine!Actions
  BY <1>1 DEF IInv, Answered, TypeOK, Job
<1>4. to \in Engine!Point /\ to.next \in {job[r].from.next + 1, job[r].from.next + 2}
  BY <1>3, OutcomesAreNear DEF Departs
<1> DEFINE answer == [kind |-> "moved", from |-> job[r].from, to |-> to]
<1>5. answer \in Reply /\ answer.kind = "moved" /\ answer.from = job[r].from /\ answer.to = to
  BY <1>3, <1>4 DEF Reply, Departs
<1> HIDE DEF answer
<1>6. Ends(r, answer) /\ cache' \in Engine!Point \cup {Null}
  BY <1>2, <1>4 DEF answer
<1>7. QED
  BY <1>1, <1>3, <1>4, <1>5, <1>6, EndsKeeps

-----------------------------------------------------------------------------
(* Redis, and what else writes the row. *)

(* A lock runs out on a dead request, or on one that resent the bundle.    *)
LEMMA ExpiringKeeps ==
  ASSUME IInv, LockExpires \/ CacheExpires
  PROVE  IInv'
<1>1. UNCHANGED <<database, job, reply, pc, copy>>
  BY DEF LockExpires, CacheExpires, worker
<1>2. lock' \in Requests \cup {Nobody} /\ cache' \in Engine!Point \cup {Null}
  BY DEF LockExpires, CacheExpires, worker, IInv, TypeOK
<1>3. TypeOK'
  BY <1>1, <1>2 DEF IInv, TypeOK, database
<1>4. Onwards
  BY <1>1 DEF Onwards, Resent, TookTheCache
<1>5. \A s \in Requests : Written(s)' => Written(s) /\ reply'[s] = reply[s]
  BY <1>1 DEF Written
<1>6. InOrder' /\ Answered'
  BY <1>1 DEF IInv, InOrder, Answered, Departs, database
<1>7. Held'
  <2>1. CASE CacheExpires
    BY <1>1, <1>4, <2>1 DEF CacheExpires, IInv, Held, Inside, Onwards
  <2>2. CASE LockExpires
    <3>1. PICK r \in Requests : lock = r /\ (Resent(r) \/ pc[r] = "dead")
      BY <2>2 DEF LockExpires, OutlivesItsLock
    <3>2. CASE Resent(r)
      BY <1>4, <3>2 DEF Held, Onwards
    <3>3. CASE pc[r] = "dead" /\ \A s \in Requests : Inside(s) => lock = s
      <4>1. \A s \in Requests : ~Inside(s)
        BY <3>1, <3>3 DEF Inside
      <4>2. QED
        BY <1>1, <4>1 DEF Held, Inside
    <3>4. QED
      BY <1>4, <3>1, <3>2, <3>3 DEF IInv, Held, Onwards
  <2>3. QED
    BY <2>1, <2>2
<1>8. QED
  BY <1>1, <1>3, <1>4, <1>5, <1>6, <1>7, StoredKeeps DEF IInv, database

(* An interview abandoned keeps its turns and its snapshot.                *)
LEMMA AbandoningKeeps ==
  ASSUME IInv, CreateAnother \/ GraceEnds \/ SweepReads \/ SweepAbandons
  PROVE  IInv'
<1>1. UNCHANGED <<turns, stale, worker, lock, pc, copy>>
  BY DEF CreateAnother, GraceEnds, SweepReads, SweepAbandons
<1>2. row' \in Row /\ row'.snapshot = row.snapshot
  BY AbandonedTyped DEF CreateAnother, GraceEnds, SweepReads, SweepAbandons, IInv, TypeOK
<1>3. newer' \in BOOLEAN /\ lapsed' \in BOOLEAN /\ sweeping' \in BOOLEAN
  BY Zenon DEF CreateAnother, GraceEnds, SweepReads, SweepAbandons, IInv, TypeOK
<1>4. TypeOK'
  BY <1>1, <1>2, <1>3 DEF IInv, TypeOK, worker
<1>5. InOrder' /\ Answered' /\ Held'
  BY <1>1 DEF IInv, InOrder, Answered, Departs, Held, Resent, Inside, worker
<1>6. Bounded' /\ ShownTurnsAreKept' /\ TranscriptIsWhole'
  BY <1>1, <1>2 DEF IInv, Bounded, ShownTurnsAreKept, Written, Kept, SeqsOf, TranscriptIsWhole,
     TookTheCache, Whole, worker
<1>7. QED
  BY <1>4, <1>5, <1>6 DEF IInv

-----------------------------------------------------------------------------
(* Theorems. *)

(* Every step keeps the invariant.                                         *)
LEMMA InvStep == IInv /\ [Next]_vars => IInv'
<1> SUFFICES ASSUME IInv, [Next]_vars PROVE IInv'
  OBVIOUS
<1>1. CASE \E r \in Requests : ReadRow(r) \/ MeetClosed(r) \/ Crash(r)
  BY <1>1, ReadKeeps, GoingKeeps
<1>2. CASE \E r \in Requests : Proceeds(r)
  BY <1>2, TakingKeeps, GoingKeeps, ResendingKeeps, ApplyingKeeps, DeletingKeeps DEF Proceeds
<1>3. CASE \E r \in Requests : WorkerStarts(r) \/ WorkerFinishes(r)
  BY <1>3, StartingKeeps, FinishingKeeps
<1>4. CASE LockExpires \/ CacheExpires
  BY <1>4, ExpiringKeeps
<1>5. CASE CreateAnother \/ GraceEnds \/ SweepReads \/ SweepAbandons
  BY <1>5, AbandoningKeeps
<1>6. CASE UNCHANGED vars
  BY <1>6 DEF vars, database, worker, IInv, TypeOK, InOrder, Answered, Departs, Held, Resent,
     Inside, Bounded, ShownTurnsAreKept, Written, Kept, SeqsOf, TranscriptIsWhole, TookTheCache,
     Whole
<1>7. QED
  BY <1>1, <1>2, <1>3, <1>4, <1>5, <1>6 DEF Next

(* It holds of every run.                                                  *)
LEMMA Invariance == Spec => []IInv
  BY InitKeeps, InvStep, PTL DEF Spec

(* Row, transcript, calls and answers keep their shape.                    *)
THEOREM TypeCorrect == Spec => []TypeOK
<1>1. IInv => TypeOK
  BY DEF IInv
<1>2. QED
  BY <1>1, Invariance, PTL

(* The lock keeps exchanges apart, whatever dies and expires, until one    *)
(* outlives it by resending the bundle.                                    *)
THEOREM OneAtATime == Spec => []OneExchangeAtATime
<1>1. IInv => OneExchangeAtATime
  BY DEF IInv, Held, OneExchangeAtATime
<1>2. QED
  BY <1>1, Invariance, PTL

(* What a candidate was shown as said is in the transcript, for any number *)
(* of requests, as long as none writes from a copy the row had left.       *)
THEOREM ShownIsKept == Spec => []ShownTurnsAreKept
<1>1. IInv => ShownTurnsAreKept
  BY DEF IInv
<1>2. QED
  BY <1>1, Invariance, PTL

(* The transcript has neither hole nor surplus, for any number of          *)
(* requests, as long as none writes from a copy the row had left, nor is   *)
(* taken up from the worker's cache when nothing was stored.               *)
THEOREM WholeTranscript == Spec => []TranscriptIsWhole
<1>1. IInv => TranscriptIsWhole
  BY DEF IInv
<1>2. QED
  BY <1>1, Invariance, PTL

(* No step changes a stored turn; none reopens or moves a closed session   *)
(* but the write of an exchange that had read it before it was closed.     *)
THEOREM RecordKept == Spec => RecordStays
<1> DEFINE A == /\ \A seq \in Seqs : turns[seq] # Nobody => turns'[seq] = turns[seq]
                /\ row.status # "in_progress" /\ stale' = stale =>
                     row'.status # "in_progress" /\ row'.snapshot = row.snapshot
<1>1. IInv /\ [Next]_vars => [A]_vars
  <2> SUFFICES ASSUME IInv, Next PROVE A
    OBVIOUS
  <2>1. CASE \E r \in Requests : ApplyExchange(r)
    <3>1. PICK r \in Requests : ApplyExchange(r)
      BY <2>1
    <3>2. r \notin stale /\ copy[r].status = "in_progress"
      BY <3>1 DEF ApplyExchange, Goes, IInv, InOrder
    <3>3. stale' = stale => row.status = "in_progress"
      BY <3>1, <3>2 DEF ApplyExchange
    <3>4. \A seq \in Seqs : turns[seq] # Nobody => turns'[seq] = turns[seq]
      BY <3>1 DEF ApplyExchange, UpsertTurns
    <3>5. QED
      BY <3>3, <3>4
  <2>2. CASE CreateAnother \/ SweepAbandons
    <3>1. turns' = turns /\ row' \in {row, Abandoned(row)} /\ row \in Row
      BY <2>2 DEF CreateAnother, SweepAbandons, IInv, TypeOK
    <3>2. QED
      BY <3>1, AbandonedTyped
  <2>3. CASE UNCHANGED <<row, turns>>
    BY <2>3
  <2>4. (\E r \in Requests : ApplyExchange(r)) \/ CreateAnother \/ SweepAbandons
        \/ UNCHANGED <<row, turns>>
    BY DEF Next, Proceeds, ReadRow, MeetClosed, TakeLock, AskWorker, MeetLock, ResendBundle,
       GiveUp, CheckLock, DeleteLock, Crash, WorkerStarts, WorkerFinishes, LockExpires,
       CacheExpires, GraceEnds, SweepReads, database
  <2>5. QED
    BY <2>1, <2>2, <2>3, <2>4
<1>2. QED
  BY <1>1, Invariance, PTL DEF Spec, RecordStays

-----------------------------------------------------------------------------
(* The session as InterviewSession promises it. *)

(* Where the session is, for whoever only stores it.                       *)
Where == IF row.snapshot = Null THEN Engine!Beginning ELSE row.snapshot

Contract == INSTANCE InterviewSession WITH point <- Where

(* Whatever requests cross, die, are late or are repeated, the stored      *)
(* session moves by one exchange of the engine's contract at a time, or    *)
(* not at all, until an exchange is written from a row that had moved on,  *)
(* or taken up from the worker's cache when nothing was stored.            *)
FollowsTheContract ==
  [][stale' = {} /\ ~(\E r \in Requests : TookTheCache(r)') => [Contract!Next]_Where]_vars

(* A snapshot has a turn to its name, unless it is the beginning, which is *)
(* never stored; what the worker is at, and what it answered, is an        *)
(* exchange the engine takes.                                              *)
Past(p) == p = Null \/ p.next > 0

Begun(p) == p.next = 0 => p = Engine!Beginning

Leads(from, action, to) ==
  Engine!Takes(from.stage, action) /\ to \in Engine!Outcomes(from, action)

ByContract ==
  /\ Past(row.snapshot) /\ Past(cache)
  /\ \A r \in Requests : Past(copy[r].snapshot)
  /\ \A r \in Requests : job[r].at = "working" =>
       Begun(job[r].from) /\ Engine!Takes(job[r].from.stage, job[r].action)
  /\ \A r \in Requests : reply[r].kind = "moved" =>
       /\ Begun(reply[r].from)
       /\ \E a \in Engine!Actions : Leads(reply[r].from, a, reply[r].to)

(* What an exchange leads to has a turn to its name.                       *)
LEMMA LeadsOn ==
  ASSUME NEW from \in Engine!Point, NEW a \in Engine!Actions, NEW to,
         to \in Engine!Outcomes(from, a)
  PROVE  Past(to)
<1>1. to.next \in {from.next + 1, from.next + 2} /\ from.next \in Nat
  BY OutcomesAreNear DEF Engine!Point
<1>2. QED
  BY <1>1 DEF Past

(* Where the engine is restored to is a snapshot, or the beginning.        *)
LEMMA RestoresBegun ==
  ASSUME IInv, ByContract, NEW r \in Requests
  PROVE  Begun(Restore(r))
<1>1. copy[r].snapshot \in Engine!Point \cup {Null} /\ cache \in Engine!Point \cup {Null}
  BY DEF IInv, TypeOK, Row
<1>2. Past(copy[r].snapshot) /\ Past(cache)
  BY DEF ByContract
<1>3. \A p \in Engine!Point : p.next > 0 => Begun(p)
  BY DEF Begun, Engine!Point
<1>4. Begun(Engine!Beginning)
  BY DEF Begun
<1>5. QED
  BY <1>1, <1>2, <1>3, <1>4 DEF Restore, Past

LEMMA ContractStarts == Init => ByContract
<1> SUFFICES ASSUME Init PROVE ByContract
  OBVIOUS
<1>1. /\ copy = [r \in Requests |-> NewRow]
      /\ job = [r \in Requests |-> NoJob] /\ reply = [r \in Requests |-> NoReply]
  BY DEF Init
<1>2. PICK next \in {0, Engine!TurnsOf("start")} :
        LET started == [stage |-> "open", next |-> next]
        IN  /\ row = IF next = 0 THEN NewRow ELSE
                       [status |-> "in_progress", state |-> "open", snapshot |-> started]
            /\ cache = IF next = 0 THEN Null ELSE started
  BY DEF Init
<1>3. next \in {0, 2}
  BY <1>2 DEF Engine!TurnsOf
<1>4. Past(row.snapshot) /\ Past(cache)
  BY <1>2, <1>3, NothingTyped DEF Past
<1>5. QED
  BY <1>1, <1>4, NothingTyped DEF ByContract, Past

LEMMA ContractStep == IInv /\ ByContract /\ [Next]_vars => ByContract'
<1> SUFFICES ASSUME IInv, ByContract, [Next]_vars PROVE ByContract'
  OBVIOUS
<1> USE DEF Past
<1>1. CASE \/ UNCHANGED vars
           \/ \E r \in Requests : \/ MeetClosed(r) \/ MeetLock(r) \/ GiveUp(r)
                                  \/ CheckLock(r) \/ DeleteLock(r) \/ Crash(r)
           \/ LockExpires \/ GraceEnds \/ SweepReads
  <2>1. UNCHANGED <<row, cache, copy, job, reply>>
    BY <1>1 DEF vars, database, worker, MeetClosed, MeetLock, GiveUp, CheckLock, DeleteLock,
       Crash, LockExpires, GraceEnds, SweepReads
  <2>2. QED
    BY <2>1 DEF ByContract, Leads
<1>2. ASSUME NEW r \in Requests, ReadRow(r) PROVE ByContract'
  <2>1. UNCHANGED <<row, cache, job, reply>> /\ copy' = [copy EXCEPT ![r] = row]
    BY <1>2 DEF ReadRow, database, worker
  <2>2. \A s \in Requests : Past(copy'[s].snapshot)
    BY <2>1 DEF ByContract, IInv, TypeOK
  <2>3. QED
    BY <2>1, <2>2 DEF ByContract, Leads
<1>3. ASSUME NEW r \in Requests, TakeLock(r) \/ ResendBundle(r) PROVE ByContract'
  <2>1. UNCHANGED <<row, cache, copy>>
    BY <1>3 DEF TakeLock, AskWorker, ResendBundle, database
  <2>2. \A s \in Requests \ {r} : job'[s] = job[s] /\ reply'[s] = reply[s]
    BY <1>3 DEF TakeLock, AskWorker, ResendBundle, IInv, TypeOK
  <2>3. job'[r].at = "called"
    <3>1. CASE TakeLock(r)
      <4>1. PICK a \in Engine!Actions : job' = [job EXCEPT ![r] = Call(a, copy[r].snapshot = Null)]
        BY <3>1 DEF TakeLock, AskWorker
      <4>2. Call(a, copy[r].snapshot = Null).at = "called"
        BY DEF Call
      <4>3. QED
        BY <4>1, <4>2 DEF IInv, TypeOK
    <3>2. CASE ResendBundle(r)
      <4>1. job' = [job EXCEPT ![r] = Call(@.action, TRUE)]
        BY <3>2 DEF ResendBundle
      <4>2. Call(job[r].action, TRUE).at = "called"
        BY DEF Call
      <4>3. QED
        BY <4>1, <4>2 DEF IInv, TypeOK
    <3>3. QED
      BY <1>3, <3>1, <3>2
  <2>4. reply'[r] = NoReply
    BY <1>3 DEF TakeLock, AskWorker, Goes, ResendBundle, IInv, TypeOK, InOrder
  <2>5. QED
    BY <2>1, <2>2, <2>3, <2>4, NothingTyped DEF ByContract, Leads
<1>4. ASSUME NEW r \in Requests, ApplyExchange(r) PROVE ByContract'
  <2>1. UNCHANGED <<cache, copy, job, reply>> /\ row' = RowAfter(r) /\ reply[r].kind = "moved"
    BY <1>4 DEF ApplyExchange, worker
  <2>2. reply[r].from \in Engine!Point
    BY <2>1 DEF IInv, Answered, Departs
  <2>3. Past(reply[r].to)
    BY <2>1, <2>2, LeadsOn DEF ByContract, Leads
  <2>4. Past(row'.snapshot)
    BY <2>1, <2>3 DEF RowAfter
  <2>5. QED
    BY <2>1, <2>4 DEF ByContract, Leads
<1>5. ASSUME NEW r \in Requests, WorkerStarts(r) PROVE ByContract'
  <2> DEFINE from == Restore(r)
  <2>1. UNCHANGED <<row, cache, copy>> /\ job[r].at = "called"
    BY <1>5 DEF WorkerStarts, database
  <2>2. CASE \E answer \in {NoReply, [NoReply EXCEPT !.kind = "bundle_required"]} : Ends(r, answer)
    <3>1. PICK answer \in {NoReply, [NoReply EXCEPT !.kind = "bundle_required"]} : Ends(r, answer)
      BY <2>2
    <3>2. answer.kind # "moved"
      BY DEF NoReply
    <3>3. /\ \A s \in Requests \ {r} : job'[s] = job[s] /\ reply'[s] = reply[s]
          /\ job'[r] = Over(job[r]) /\ reply'[r] \in {answer, reply[r]}
      BY <3>1 DEF Ends, IInv, TypeOK
    <3>4. job'[r].at # "working"
      BY <3>3 DEF Over, Call
    <3>5. QED
      BY <2>1, <3>2, <3>3, <3>4 DEF ByContract, Leads
  <2>3. CASE /\ Engine!Takes(from.stage, job[r].action)
             /\ job' = [job EXCEPT ![r].at = "working", ![r].from = from]
             /\ UNCHANGED reply
    <3>1. Begun(from)
      BY RestoresBegun
    <3>2. /\ \A s \in Requests \ {r} : job'[s] = job[s]
          /\ job'[r].from = from /\ job'[r].action = job[r].action
      BY <2>3 DEF IInv, TypeOK, Job
    <3> HIDE DEF from
    <3>3. QED
      BY <2>1, <2>3, <3>1, <3>2 DEF ByContract, Leads
  <2>4. QED
    BY <1>5, <2>2, <2>3 DEF WorkerStarts
<1>6. ASSUME NEW r \in Requests, WorkerFinishes(r) PROVE ByContract'
  <2>1. UNCHANGED <<row, copy>> /\ job[r].at = "working"
    BY <1>6 DEF WorkerFinishes, database
  <2> DEFINE from == job[r].from
  <2>2. PICK to \in Engine!Outcomes(from, job[r].action) :
          cache' = to /\ Ends(r, [kind |-> "moved", from |-> from, to |-> to])
    BY <1>6 DEF WorkerFinishes
  <2>3. from \in Engine!Point /\ job[r].action \in Engine!Actions
    BY <2>1 DEF IInv, Answered, Departs, TypeOK, Job
  <2>4. Past(cache')
    BY <2>2, <2>3, LeadsOn
  <2>5. Begun(from) /\ Leads(from, job[r].action, to)
    BY <2>1, <2>2 DEF ByContract, Leads
  <2> DEFINE answer == [kind |-> "moved", from |-> from, to |-> to]
  <2>6. /\ \A s \in Requests \ {r} : job'[s] = job[s] /\ reply'[s] = reply[s]
        /\ job'[r] = Over(job[r]) /\ reply'[r] \in {answer, reply[r]}
    BY <2>2 DEF Ends, IInv, TypeOK
  <2>7. job'[r].at # "working"
    BY <2>6 DEF Over, Call
  <2>8. answer.from = from /\ answer.to = to
    OBVIOUS
  <2> HIDE DEF answer, from
  <2>9. Begun(answer.from) /\ \E a \in Engine!Actions : Leads(answer.from, a, answer.to)
    BY <2>3, <2>5, <2>8
  <2>10. QED
    BY <2>1, <2>4, <2>6, <2>7, <2>9 DEF ByContract
<1>7. CASE CacheExpires
  BY <1>7 DEF CacheExpires, database, ByContract, Leads
<1>8. CASE CreateAnother \/ SweepAbandons
  <2>1. UNCHANGED <<cache, copy, job, reply>> /\ row' \in {row, Abandoned(row)} /\ row \in Row
    BY <1>8 DEF CreateAnother, SweepAbandons, worker, IInv, TypeOK
  <2>2. row'.snapshot = row.snapshot
    BY <2>1, AbandonedTyped
  <2>3. QED
    BY <2>1, <2>2 DEF ByContract, Leads
<1>9. QED
  BY <1>1, <1>2, <1>3, <1>4, <1>5, <1>6, <1>7, <1>8 DEF Next, Proceeds

(* The contract's own operators are the engine's.                          *)
LEMMA ContractIsTheEngines ==
  /\ Contract!Actions = Engine!Actions
  /\ \A p \in Engine!Point, a \in Engine!Actions :
       /\ Contract!Takes(p.stage, a) = Engine!Takes(p.stage, a)
       /\ Contract!Outcomes(p, a) = Engine!Outcomes(p, a)
  BY DEF Contract!Actions, Engine!Actions, Contract!Takes, Engine!Takes, Contract!Outcomes,
     Engine!Outcomes, Contract!TurnsOf, Engine!TurnsOf

(* Requests, worker, Redis and sweep together implement the session the    *)
(* engine promises, step by step, for any number of requests, outside the  *)
(* two cases the property names.                                           *)
THEOREM ContractIsFollowed == Spec => FollowsTheContract
<1> DEFINE A == stale' = {} /\ ~(\E r \in Requests : TookTheCache(r)') => [Contract!Next]_Where
<1>1. IInv /\ ByContract /\ [Next]_vars => [A]_vars
  <2> SUFFICES ASSUME IInv, ByContract, Next, stale' = {},
                      ~(\E r \in Requests : TookTheCache(r)')
               PROVE  [Contract!Next]_Where
    OBVIOUS
  <2>1. ASSUME NEW r \in Requests, ApplyExchange(r) PROVE [Contract!Next]_Where
    <3>1. /\ UNCHANGED <<copy, reply>> /\ row' = RowAfter(r) /\ reply[r].kind = "moved"
          /\ copy[r] = row
      BY <2>1 DEF ApplyExchange, worker
    <3> DEFINE from == reply[r].from
               to == reply[r].to
    <3>2. /\ from \in Engine!Point /\ Begun(from) /\ to \in Engine!Point
          /\ row.snapshot # Null => from = row.snapshot
      BY <3>1 DEF IInv, Answered, Departs, ByContract
    <3>3. row.snapshot = Null => from = Engine!Beginning
      <4>1. ~TookTheCache(r)
        BY <3>1 DEF TookTheCache
      <4>2. row.snapshot = Null => ~(from.next > 0)
        BY <3>1, <4>1 DEF TookTheCache
      <4>3. from.next \in Nat
        BY <3>2, NextIsNat
      <4>4. QED
        BY <3>2, <4>2, <4>3 DEF Begun
    <3>4. Where = from
      BY <3>2, <3>3 DEF Where
    <3>5. PICK a \in Engine!Actions : Leads(from, a, to)
      BY <3>1 DEF ByContract
    <3>6. Past(to) /\ to # Null
      BY <3>2, <3>5, LeadsOn DEF Leads, Null, Engine!Point, Engine!Stages
    <3>7. Where' = to
      BY <3>1, <3>6 DEF Where, RowAfter
    <3> HIDE DEF from, to
    <3>8. /\ a \in Contract!Actions /\ Contract!Takes(from.stage, a)
          /\ to \in Contract!Outcomes(from, a)
      BY <3>2, <3>5, ContractIsTheEngines DEF Leads
    <3>9. QED
      BY <3>4, <3>7, <3>8 DEF Contract!Next, Contract!Exchange
  <2>2. CASE CreateAnother \/ SweepAbandons
    <3>1. row' \in {row, Abandoned(row)} /\ row \in Row
      BY <2>2 DEF CreateAnother, SweepAbandons, IInv, TypeOK
    <3>2. row'.snapshot = row.snapshot
      BY <3>1, AbandonedTyped
    <3>3. QED
      BY <3>2 DEF Where
  <2>3. CASE UNCHANGED row
    BY <2>3 DEF Where
  <2>4. (\E r \in Requests : ApplyExchange(r)) \/ CreateAnother \/ SweepAbandons
        \/ UNCHANGED row
    BY DEF Next, Proceeds, ReadRow, MeetClosed, TakeLock, AskWorker, MeetLock, ResendBundle,
       GiveUp, CheckLock, DeleteLock, Crash, WorkerStarts, WorkerFinishes, LockExpires,
       CacheExpires, GraceEnds, SweepReads, database
  <2>5. QED
    BY <2>1, <2>2, <2>3, <2>4
<1>2. Spec => []ByContract
  BY Invariance, InitKeeps, ContractStarts, InvStep, ContractStep, PTL DEF Spec
<1>3. QED
  BY <1>1, <1>2, Invariance, PTL DEF Spec, FollowsTheContract

(* Who holds the lock is either at the exchange it took it for, or has a   *)
(* lock that runs out: nobody has gone on and left it behind, whatever     *)
(* died, expired or was deleted by another in between.                     *)
HolderIsAtIt == \A r \in Requests : lock = r => Inside(r) \/ OutlivesItsLock(r)

(* The safety half of LockIsLetGo: a lock that is held is held by a        *)
(* request that is still to release it, or will run out.                   *)
THEOREM LockIsNotLeftBehind == Spec => []HolderIsAtIt
<1> DEFINE H == \A r \in Requests : lock = r => pc[r] \in {"asking", "releasing", "deleting", "dead"}
<1>1. Init => H
  BY RequestsAssumption DEF Init, RequestsAssumption
<1>2. IInv /\ H /\ [Next]_vars => H'
  <2> SUFFICES ASSUME IInv, H, [Next]_vars PROVE H'
    OBVIOUS
  <2>1. CASE \E r \in Requests : MeetLock(r) \/ GiveUp(r) \/ ApplyExchange(r) \/ CheckLock(r)
                                 \/ Crash(r) \/ ReadRow(r) \/ MeetClosed(r)
    BY <2>1 DEF MeetLock, GiveUp, ApplyExchange, CheckLock, Crash, ReadRow, MeetClosed, Goes,
       InFlight, IInv, TypeOK
  <2>2. CASE \E r \in Requests : TakeLock(r)
    BY <2>2 DEF TakeLock, AskWorker, Goes, IInv, TypeOK
  <2>3. CASE lock' = Nobody
    BY <2>3, RequestsAssumption DEF RequestsAssumption
  <2>4. CASE UNCHANGED <<lock, pc>>
    BY <2>4
  <2>5. QED
    BY <2>1, <2>2, <2>3, <2>4 DEF Next, Proceeds, ResendBundle, DeleteLock, WorkerStarts,
       WorkerFinishes, LockExpires, CacheExpires, CreateAnother, GraceEnds, SweepReads,
       SweepAbandons, vars
<1>3. H => HolderIsAtIt
  BY DEF HolderIsAtIt, Inside, OutlivesItsLock
<1>4. QED
  BY <1>1, <1>2, <1>3, Invariance, PTL DEF Spec

-----------------------------------------------------------------------------
(* The screen: the inductive invariant. *)

(* A session that is over and that no exchange will bring back.            *)
IsOver == session.stage = "ended" /\ ~exchange.on

(* What a tab shows, has still to read and was told the session to be is   *)
(* of the session, as far as it has come.                                  *)
FrameOfSession(f) ==
  /\ f.type = "turn" => f.seq < session.next
  /\ f.type = "state" =>
       /\ f.stage # "intro" /\ session.stage # "intro"
       /\ f.stage = "ended" => IsOver

TabOfSession(s) ==
  /\ s.shown \subseteq Turns(session)
  /\ \A i \in DOMAIN s.stream : FrameOfSession(s.stream[i])
  /\ s.finished => IsOver
  /\ s.read.next <= session.next

(* Only a page that is open has a call out; a stream is filled at once,    *)
(* and closed then, and the last of it says where the session stands.      *)
Shaped(s) ==
  /\ s.page # "screen" => s.call = "none" /\ s.wait = "none"
  /\ s.call # "stream" => s.closed = FALSE
  /\ s.stream # <<>> =>
       s.call = "stream" /\ s.closed /\ s.stream[Len(s.stream)].type = "state"

Reading(t) == tab[t].call = "stream" /\ ~tab[t].closed

(* Whoever the exchange answers is reading, and nobody else is: whoever    *)
(* reads a stream that is still open is answered.                          *)
Attended ==
  /\ exchange.by \in Tabs => exchange.on
  /\ \A t \in Tabs : Reading(t) <=> exchange.by = t

(* Once it has read all its frames, a tab that is not behind shows all     *)
(* there is, and where the session stands.                                 *)
WillShow(s, seq) == seq \in s.shown \/ \E i \in DOMAIN s.stream : s.stream[i] = TurnFrame(seq)

WillSay(s) == IF s.stream = <<>> THEN s.live ELSE s.stream[Len(s.stream)].stage

UpToDate(s) == (\A seq \in Turns(session) : WillShow(s, seq)) /\ WillSay(s) = session.stage

Abreast(s) == (s.page = "screen" => UpToDate(s)) /\ (s.page = "complete" => TooLate)

ScreenInv ==
  /\ ScreenTypeOK
  /\ session.stage = "intro" => session.next = 0
  /\ \A t \in Tabs : TabOfSession(tab[t]) /\ Shaped(tab[t])
  /\ Attended
  /\ \A t \in Tabs \ behind : Abreast(tab[t])

-----------------------------------------------------------------------------
LEMMA AwayTyped ==
  /\ Away \in Tab /\ Completed \in Tab
  /\ Interview!Beginning \in Interview!Point
<1>1. Interview!Beginning \in Interview!Point
  BY DEF Interview!Beginning, Interview!Point, Interview!Stages
<1>2. <<>> \in Seq(Frame)
  OBVIOUS
<1>3. "intro" \in Interview!Stages /\ "start" \in Interview!Actions
  BY DEF Interview!Stages, Interview!Actions
<1>4. {} \in SUBSET (0 .. MaxTurns + 1)
  OBVIOUS
<1>5. QED
  BY <1>1, <1>2, <1>3, <1>4 DEF Away, Completed, Tab

LEMMA TabFields ==
  ASSUME NEW s \in Tab
  PROVE  /\ s.page \in {"away", "screen", "complete"} /\ s.shown \subseteq 0 .. MaxTurns + 1
         /\ s.live \in Interview!Stages /\ s.call \in {"none", "posted", "stream"}
         /\ s.action \in Interview!Actions /\ s.stream \in Seq(Frame)
         /\ s.closed \in BOOLEAN /\ s.finished \in BOOLEAN /\ s.thinking \in BOOLEAN
         /\ s.wait \in {"none", "due", "read", "failed"} /\ s.read \in Interview!Point
  BY DEF Tab

LEMMA HandledTyped ==
  ASSUME NEW s \in Tab, NEW a \in Interview!Actions
  PROVE  /\ Posted(s, a) \in Tab /\ Settled(s) \in Tab /\ NoMoreWait(s) \in Tab
         /\ \A w \in {"none", "due", "read", "failed"} :
              [s EXCEPT !.wait = w] \in Tab /\ [s EXCEPT !.wait = w, !.thinking = TRUE] \in Tab
         /\ [s EXCEPT !.call = "stream", !.action = "start"] \in Tab
         /\ \A frames \in Seq(Frame) : [s EXCEPT !.stream = frames, !.closed = TRUE] \in Tab
         /\ \A p \in Interview!Point : [s EXCEPT !.wait = "read", !.read = p] \in Tab
<1>1. <<>> \in Seq(Frame) /\ "start" \in Interview!Actions
  BY DEF Interview!Actions
<1>2. Posted(s, a) \in Tab
  BY <1>1 DEF Tab, Posted
<1>3. Settled(s) \in Tab
  BY <1>1 DEF Tab, Settled
<1>4. NoMoreWait(s) \in Tab
  BY AwayTyped DEF Tab, NoMoreWait
<1>5. /\ \A w \in {"none", "due", "read", "failed"} :
           [s EXCEPT !.wait = w] \in Tab /\ [s EXCEPT !.wait = w, !.thinking = TRUE] \in Tab
      /\ [s EXCEPT !.call = "stream", !.action = "start"] \in Tab
  BY <1>1 DEF Tab
<1>6. /\ \A frames \in Seq(Frame) : [s EXCEPT !.stream = frames, !.closed = TRUE] \in Tab
      /\ \A p \in Interview!Point : [s EXCEPT !.wait = "read", !.read = p] \in Tab
  BY DEF Tab
<1>7. QED
  BY <1>2, <1>3, <1>4, <1>5, <1>6

(* A step of one tab's own, and of what it does to the exchange.           *)
LEMMA OneTabMoves ==
  ASSUME ScreenInv, UNCHANGED <<session, cold>>,
         NEW t \in Tabs, NEW s \in Tab, tab' = [tab EXCEPT ![t] = s],
         TabOfSession(s), Shaped(s),
         exchange' \in Exchange,
         Attended', IsOver => ~exchange'.on,
         behind' \in {behind, behind \cup {t}, behind \ {t}},
         t \in behind' \/ Abreast(s)
  PROVE  ScreenInv'
<1>1. tab' \in [Tabs -> Tab] /\ tab'[t] = s /\ \A u \in Tabs \ {t} : tab'[u] = tab[u]
  BY DEF ScreenInv, ScreenTypeOK
<1>2. ScreenTypeOK'
  BY <1>1 DEF ScreenInv, ScreenTypeOK
<1>3. (session.stage = "intro" => session.next = 0)' /\ (IsOver => IsOver')
  BY DEF ScreenInv, IsOver
<1>4. ASSUME NEW u \in Tabs
      PROVE  (TabOfSession(tab[u]) /\ Shaped(tab[u]))'
  <2>1. CASE u = t
    BY <1>1, <1>3, <2>1 DEF TabOfSession, FrameOfSession, Shaped, Turns
  <2>2. CASE u # t
    BY <1>1, <1>3, <2>2 DEF ScreenInv, TabOfSession, FrameOfSession, Shaped, Turns
  <2>3. QED
    BY <2>1, <2>2
<1>6. ASSUME NEW u \in Tabs, u \notin behind'
      PROVE  Abreast(tab[u])'
  <2>1. CASE u = t
    BY <1>1, <1>6, <2>1 DEF Abreast, UpToDate, WillShow, WillSay, Turns, TurnFrame, TooLate
  <2>2. CASE u # t
    <3>1. Abreast(tab[u])
      BY <1>1, <1>6, <2>2 DEF ScreenInv
    <3>2. QED
      BY <1>1, <2>2, <3>1 DEF Abreast, UpToDate, WillShow, WillSay, Turns, TurnFrame, TooLate
  <2>3. QED
    BY <2>1, <2>2
<1>7. QED
  BY <1>2, <1>3, <1>4, <1>6 DEF ScreenInv

(* Which it leaves as it was when it neither starts nor stops reading.     *)
LEMMA AttendedStill ==
  ASSUME ScreenInv, NEW t \in Tabs, NEW s \in Tab, tab' = [tab EXCEPT ![t] = s],
         UNCHANGED exchange,
         (s.call = "stream" /\ ~s.closed) <=> Reading(t)
  PROVE  /\ exchange' \in Exchange
         /\ Attended'
         /\ IsOver => ~exchange'.on
<1>1. \A u \in Tabs : Reading(u)' <=> Reading(u)
  BY DEF ScreenInv, ScreenTypeOK, Reading
<1>2. QED
  BY <1>1 DEF ScreenInv, ScreenTypeOK, Attended, IsOver

(* Nor when it leaves off, and the exchange goes on for nobody.            *)
LEMMA AttendedNoMore ==
  ASSUME ScreenInv, NEW t \in Tabs, NEW s \in Tab, tab' = [tab EXCEPT ![t] = s],
         exchange' = Unheard(t), s.call = "none"
  PROVE  /\ exchange' \in Exchange
         /\ Attended'
         /\ IsOver => ~exchange'.on
<1>1. ~Reading(t)' /\ \A u \in Tabs \ {t} : Reading(u)' <=> Reading(u)
  BY DEF ScreenInv, ScreenTypeOK, Reading
<1>2. exchange' \in Exchange
  BY DEF ScreenInv, ScreenTypeOK, Unheard, Exchange
<1>3. exchange'.by = IF exchange.by = t THEN NoTab ELSE exchange.by
  BY DEF ScreenInv, ScreenTypeOK, Unheard, Exchange
<1>4. exchange'.on = exchange.on
  BY DEF ScreenInv, ScreenTypeOK, Unheard, Exchange
<1>5. QED
  BY <1>1, <1>2, <1>3, <1>4, ScreenAssumption DEF ScreenInv, Attended, IsOver

(* A page that is not up to date shows what has been stored, if not all.   *)
LEMMA FreshPage ==
  ASSUME ScreenInv,
         NEW page, page = [Away EXCEPT !.page = "screen", !.shown = Turns(session),
                                       !.live = session.stage]
  PROVE  page \in Tab /\ TabOfSession(page) /\ Shaped(page) /\ UpToDate(page) /\ Abreast(page)
<1>1. Turns(session) \in SUBSET (0 .. MaxTurns + 1)
  BY ScreenAssumption DEF ScreenInv, ScreenTypeOK, Turns, Interview!Point
<1>2. session.stage \in Interview!Stages /\ session.next \in Nat
  BY DEF ScreenInv, ScreenTypeOK, Interview!Point
<1>3. page \in Tab
  BY <1>1, <1>2, AwayTyped DEF Tab, Away
<1>4. /\ page.shown = Turns(session) /\ page.live = session.stage /\ page.stream = <<>>
      /\ page.call = "none" /\ page.wait = "none" /\ page.finished = FALSE
      /\ page.page = "screen" /\ page.read = Interview!Beginning /\ page.closed = FALSE
  BY DEF Away
<1>5. QED
  BY <1>2, <1>3, <1>4 DEF TabOfSession, Shaped, Abreast, UpToDate, WillShow, WillSay,
     Interview!Beginning

LEMMA NoPage ==
  ASSUME ScreenInv
  PROVE  /\ TabOfSession(Away) /\ Shaped(Away) /\ Away.page = "away" /\ Away.call = "none"
         /\ Shaped(Completed) /\ Completed.page = "complete" /\ Completed.call = "none"
         /\ TabOfSession(Completed) /\ (TooLate => Abreast(Completed)) /\ Abreast(Away)
<1>1. session.next \in Nat
  BY DEF ScreenInv, ScreenTypeOK, Interview!Point
<1>2. QED
  BY <1>1 DEF TabOfSession, Shaped, Abreast, Away, Completed, Interview!Beginning

(* A call begun, settled or no longer waited for leaves the page as it is. *)
LEMMA PageStays ==
  ASSUME NEW s \in Tab, NEW a \in Interview!Actions
  PROVE  /\ Posted(s, a).page = s.page /\ Settled(s).page = s.page /\ NoMoreWait(s).page = s.page
         /\ Posted(s, a).shown = s.shown /\ Settled(s).shown = s.shown
         /\ Posted(s, a).live = s.live /\ Settled(s).live = s.live
         /\ Posted(s, a).read = s.read /\ Settled(s).read = s.read
         /\ Posted(s, a).wait = s.wait
         /\ Settled(s).wait = IF s.wait = "failed" THEN "none" ELSE s.wait
         /\ Posted(s, a).stream = <<>> /\ Settled(s).stream = <<>>
         /\ Posted(s, a).call = "posted" /\ Settled(s).call = "none"
         /\ ~Posted(s, a).finished /\ ~Settled(s).finished
         /\ Posted(s, a).closed = FALSE /\ Settled(s).closed = FALSE
  BY DEF Tab, Posted, Settled, NoMoreWait

LEMMA SamePage ==
  ASSUME NEW s, NEW r, r.page = s.page, r.shown = s.shown, r.read = s.read,
         r.stream = <<>>, ~r.finished, TabOfSession(s)
  PROVE  /\ TabOfSession(r)
         /\ s.stream = <<>> /\ r.live = s.live /\ UpToDate(s) => UpToDate(r)
<1>1. TabOfSession(r)
  BY DEF TabOfSession
<1>2. ASSUME s.stream = <<>>, r.live = s.live, UpToDate(s)
      PROVE  UpToDate(r)
  BY <1>2 DEF UpToDate, WillShow, WillSay
<1>3. QED
  BY <1>1, <1>2

LEMMA CallEnds ==
  ASSUME NEW s \in Tab, NEW a \in Interview!Actions, TabOfSession(s), Shaped(s)
  PROVE  /\ TabOfSession(Posted(s, a)) /\ TabOfSession(Settled(s))
         /\ s.page = "screen" => Shaped(Posted(s, a))
         /\ Shaped(Settled(s))
         /\ s.stream = <<>> /\ UpToDate(s) => UpToDate(Posted(s, a)) /\ UpToDate(Settled(s))
<1>1. /\ TabOfSession(Posted(s, a))
      /\ s.stream = <<>> /\ UpToDate(s) => UpToDate(Posted(s, a))
  <2> DEFINE r == Posted(s, a)
  <2>1. /\ r.page = s.page /\ r.shown = s.shown /\ r.read = s.read /\ r.stream = <<>>
        /\ ~r.finished /\ r.live = s.live
    BY PageStays
  <2> HIDE DEF r
  <2>2. TabOfSession(r) /\ (s.stream = <<>> /\ UpToDate(s) => UpToDate(r))
    BY <2>1, SamePage
  <2>3. QED
    BY <2>2 DEF r
<1>2. /\ TabOfSession(Settled(s))
      /\ s.stream = <<>> /\ UpToDate(s) => UpToDate(Settled(s))
  <2> DEFINE r == Settled(s)
  <2>1. /\ r.page = s.page /\ r.shown = s.shown /\ r.read = s.read /\ r.stream = <<>>
        /\ ~r.finished /\ r.live = s.live
    BY PageStays
  <2> HIDE DEF r
  <2>2. TabOfSession(r) /\ (s.stream = <<>> /\ UpToDate(s) => UpToDate(r))
    BY <2>1, SamePage
  <2>3. QED
    BY <2>2 DEF r
<1>3. (s.page = "screen" => Shaped(Posted(s, a))) /\ Shaped(Settled(s))
  BY PageStays DEF Shaped
<1>4. QED
  BY <1>1, <1>2, <1>3

LEMMA WaitMoves ==
  ASSUME NEW s \in Tab, TabOfSession(s), Shaped(s), ScreenInv, s.wait # "none",
         NEW r \in Tab,
         r \in {NoMoreWait(s), [s EXCEPT !.wait = "none"], [s EXCEPT !.wait = "failed"],
                [s EXCEPT !.wait = "read", !.read = session]}
  PROVE  /\ TabOfSession(r) /\ Shaped(r) /\ (Abreast(s) => Abreast(r))
         /\ r.call = s.call /\ r.closed = s.closed /\ r.page = s.page
<1>1. session.next \in Nat /\ session \in Interview!Point
  BY DEF ScreenInv, ScreenTypeOK, Interview!Point
<1>2. /\ r.page = s.page /\ r.shown = s.shown /\ r.live = s.live /\ r.stream = s.stream
      /\ r.call = s.call /\ r.closed = s.closed /\ r.finished = s.finished
      /\ r.read \in {Interview!Beginning, session, s.read}
  BY DEF Tab, NoMoreWait
<1>3. TabOfSession(r)
  BY <1>1, <1>2 DEF TabOfSession, Interview!Beginning
<1>4. s.page = "screen"
  BY DEF Shaped
<1>5. QED
  BY <1>2, <1>3, <1>4 DEF Shaped, Abreast, UpToDate, WillShow, WillSay

-----------------------------------------------------------------------------
(* Every step. *)

LEMMA TabAt ==
  ASSUME ScreenInv, NEW t \in Tabs
  PROVE  /\ tab[t] \in Tab /\ TabOfSession(tab[t]) /\ Shaped(tab[t])
         /\ t \in behind \/ Abreast(tab[t])
         /\ behind \subseteq Tabs
         /\ Reading(t) <=> tab[t].call = "stream" /\ tab[t].closed = FALSE
  BY TabFields DEF ScreenInv, ScreenTypeOK, Reading

LEMMA OpenStep ==
  ASSUME ScreenInv, NEW t \in Tabs, Open(t)
  PROVE  ScreenInv'
<1> DEFINE page == [Away EXCEPT !.page = "screen", !.shown = Turns(session),
                                !.live = session.stage]
           s == IF session.stage = "ended" THEN Completed ELSE FirstAct(page)
<1>1. page \in Tab /\ TabOfSession(page) /\ Shaped(page) /\ UpToDate(page) /\ Abreast(page)
  BY FreshPage
<1>2. page.stream = <<>> /\ page.page = "screen" /\ page.call = "none"
  BY DEF Away
<1>3. "start" \in Interview!Actions
  BY DEF Interview!Actions
<1>4. CASE session.stage # "ended"
  <2>1. FirstAct(page) \in {page, Posted(page, "start")}
    BY DEF FirstAct
  <2> HIDE DEF page
  <2>2. /\ Posted(page, "start") \in Tab /\ TabOfSession(Posted(page, "start"))
        /\ Shaped(Posted(page, "start")) /\ UpToDate(Posted(page, "start"))
        /\ Posted(page, "start").call = "posted" /\ Posted(page, "start").page = "screen"
    BY <1>1, <1>2, <1>3, CallEnds, PageStays, HandledTyped
  <2>7. s \in {page, Posted(page, "start")}
    BY <1>4, <2>1
  <2>8. /\ s \in Tab /\ TabOfSession(s) /\ Shaped(s) /\ Abreast(s)
        /\ s.call # "stream"
    BY <1>1, <1>2, <2>2, <2>7 DEF Abreast
  <2>3. s.call # "stream" /\ ~Reading(t) /\ UNCHANGED <<session, cold, exchange>>
    BY <2>8, TabAt DEF Open, OnScreen, Shaped
  <2>4. tab' = [tab EXCEPT ![t] = s] /\ behind' = behind \ {t}
    BY DEF Open, page
  <2> HIDE DEF s
  <2>5. exchange' \in Exchange /\ Attended' /\ (IsOver => ~exchange'.on)
    BY <2>3, <2>4, <2>8, AttendedStill
  <2>6. QED
    BY <2>3, <2>4, <2>5, <2>8, OneTabMoves
<1>5. CASE session.stage = "ended"
  <2>1. tab' = [tab EXCEPT ![t] = Completed] /\ behind' = behind \ {t}
    BY <1>5 DEF Open
  <2>2. ~Reading(t) /\ UNCHANGED <<session, cold, exchange>>
    BY TabAt DEF Open, OnScreen, Shaped
  <2>3. exchange' \in Exchange /\ Attended' /\ (IsOver => ~exchange'.on)
    BY <2>1, <2>2, AttendedStill, NoPage, AwayTyped
  <2>4. QED
    BY <1>5, <2>1, <2>2, <2>3, OneTabMoves, NoPage, AwayTyped DEF TooLate
<1>6. QED
  BY <1>4, <1>5

LEMMA LeaveStep ==
  ASSUME ScreenInv, NEW t \in Tabs, Leave(t)
  PROVE  ScreenInv'
<1>1. tab' = [tab EXCEPT ![t] = Away] /\ exchange' = Unheard(t) /\ UNCHANGED <<session, cold>>
      /\ behind' = behind \ {t}
  BY DEF Leave
<1>2. exchange' \in Exchange /\ Attended' /\ (IsOver => ~exchange'.on)
  BY <1>1, AttendedNoMore, NoPage, AwayTyped
<1>3. QED
  BY <1>1, <1>2, OneTabMoves, NoPage, AwayTyped

LEMMA SendStep ==
  ASSUME ScreenInv, NEW t \in Tabs, NEW a \in Interview!Actions, Send(t, a)
  PROVE  ScreenInv'
<1> DEFINE s == Posted(tab[t], a)
<1>1. /\ tab' = [tab EXCEPT ![t] = s] /\ UNCHANGED <<session, cold, exchange, behind>>
      /\ tab[t].page = "screen" /\ tab[t].call = "none" /\ tab[t].stream = <<>>
  BY TabAt DEF Send, CanSend, OnScreen, Shaped
<1>2. s \in Tab /\ TabOfSession(s) /\ Shaped(s) /\ s.call = "posted"
  BY <1>1, TabAt, CallEnds, PageStays, HandledTyped
<1>3. t \in behind' \/ Abreast(s)
  BY <1>1, TabAt, CallEnds, PageStays DEF Abreast
<1>4. ~Reading(t)
  BY <1>1, TabAt
<1> HIDE DEF s
<1>5. exchange' \in Exchange /\ Attended' /\ (IsOver => ~exchange'.on)
  BY <1>1, <1>2, <1>4, AttendedStill
<1>6. QED
  BY <1>1, <1>2, <1>3, <1>5, OneTabMoves

LEMMA FoundStep ==
  ASSUME ScreenInv, NEW t \in Tabs, Found(t) \/ FetchFails(t)
  PROVE  ScreenInv'
<1>1. ASSUME NEW s \in Tab, tab[t].wait # "none",
             s \in {NoMoreWait(tab[t]), [tab[t] EXCEPT !.wait = "none"],
                    [tab[t] EXCEPT !.wait = "failed"],
                    [tab[t] EXCEPT !.wait = "read", !.read = session]},
             tab' = [tab EXCEPT ![t] = s], UNCHANGED <<session, cold, exchange, behind>>
      PROVE  ScreenInv'
  <2>1. /\ TabOfSession(s) /\ Shaped(s) /\ (Abreast(tab[t]) => Abreast(s))
        /\ s.call = tab[t].call /\ s.closed = tab[t].closed /\ s.page = tab[t].page
    BY <1>1, TabAt, WaitMoves
  <2>2. (s.call = "stream" /\ ~s.closed) <=> Reading(t)
    BY <2>1 DEF Reading
  <2>3. exchange' \in Exchange /\ Attended' /\ (IsOver => ~exchange'.on)
    BY <1>1, <2>2, AttendedStill
  <2>4. t \in behind' \/ Abreast(s)
    BY <1>1, <2>1, TabAt
  <2>5. QED
    BY <1>1, <2>1, <2>3, <2>4, OneTabMoves
<1>2. /\ session \in Interview!Point /\ "start" \in Interview!Actions /\ tab[t] \in Tab
  BY TabAt DEF ScreenInv, ScreenTypeOK, Interview!Actions
<1>3. NoMoreWait(tab[t]) \in Tab /\ [tab[t] EXCEPT !.wait = "read", !.read = session] \in Tab
  BY <1>2, HandledTyped
<1>4. CASE FetchFails(t)
  <2>1. CASE tab' = [tab EXCEPT ![t] = NoMoreWait(tab[t])]
    BY <1>1, <1>3, <1>4, <2>1 DEF FetchFails
  <2>2. CASE tab' = [tab EXCEPT ![t].wait = IF tab[t].thinking THEN "failed" ELSE "none"]
    <3> DEFINE wait == IF tab[t].thinking THEN "failed" ELSE "none"
               s    == [tab[t] EXCEPT !.wait = wait]
    <3>1. tab' = [tab EXCEPT ![t] = s]
      BY <1>2, <2>2 DEF ScreenInv, ScreenTypeOK
    <3>2. s \in Tab
      BY <1>2, HandledTyped
    <3>3. tab[t].wait # "none" /\ UNCHANGED <<session, cold, exchange, behind>>
      BY <1>4 DEF FetchFails
    <3>4. s \in {[tab[t] EXCEPT !.wait = "none"], [tab[t] EXCEPT !.wait = "failed"]}
      OBVIOUS
    <3> HIDE DEF s
    <3>5. QED
      BY <1>1, <3>1, <3>2, <3>3, <3>4
  <2>3. QED
    BY <1>4, <2>1, <2>2 DEF FetchFails
<1>5. CASE Found(t)
  <2>1. tab' = [tab EXCEPT ![t] = [tab[t] EXCEPT !.wait = "read", !.read = session]]
    BY <1>2, <1>5 DEF Found, ScreenInv, ScreenTypeOK
  <2>2. QED
    BY <1>1, <1>3, <1>5, <2>1 DEF Found
<1>6. QED
  BY <1>4, <1>5

LEMMA AdoptStep ==
  ASSUME ScreenInv, NEW t \in Tabs, Adopt(t)
  PROVE  ScreenInv'
<1>1. /\ tab[t] \in Tab /\ TabOfSession(tab[t]) /\ Shaped(tab[t]) /\ tab[t].page = "screen"
      /\ tab[t].read \in Interview!Point
  BY TabAt, TabFields DEF Adopt, Shaped
<1>2. behind' = IF tab[t].read = session THEN behind \ {t} ELSE behind \cup {t}
  BY DEF Adopt
<1>3. CASE tab[t].read.stage = "ended"
  <2>1. tab' = [tab EXCEPT ![t] = Completed] /\ exchange' = Unheard(t) /\ UNCHANGED <<session, cold>>
    BY <1>3 DEF Adopt
  <2>2. exchange' \in Exchange /\ Attended' /\ (IsOver => ~exchange'.on)
    BY <2>1, AttendedNoMore, NoPage, AwayTyped
  <2>3. t \in behind' \/ TooLate
    BY <1>2, <1>3 DEF TooLate
  <2>4. QED
    BY <1>2, <2>1, <2>2, <2>3, OneTabMoves, NoPage, AwayTyped
<1>4. CASE tab[t].read.stage # "ended"
  <2> DEFINE s == NoMoreWait(Adopted(tab[t]))
  <2>1. tab' = [tab EXCEPT ![t] = s] /\ UNCHANGED <<session, cold, exchange>>
    BY <1>4 DEF Adopt
  <2>2. session \in Interview!Point /\ session.next \in 0 .. MaxTurns + 1
    BY DEF ScreenInv, ScreenTypeOK
  <2>3. tab[t].read.next \in Nat /\ tab[t].read.next <= session.next
        /\ tab[t].read.stage \in Interview!Stages
    BY <1>1 DEF Interview!Point, TabOfSession
  <2>4. Turns(tab[t].read) \in SUBSET (0 .. MaxTurns + 1) /\ Turns(tab[t].read) \subseteq Turns(session)
    BY <2>2, <2>3, ScreenAssumption DEF Turns
  <2>5. Adopted(tab[t]) \in Tab
    BY <1>1, <2>3, <2>4 DEF Adopted, Tab
  <2>6. s \in Tab
    BY <2>5, HandledTyped DEF Interview!Actions
  <2>7. /\ s.page = "screen" /\ s.shown = Turns(tab[t].read) /\ s.live = tab[t].read.stage
        /\ s.stream = tab[t].stream /\ s.call = tab[t].call /\ s.closed = tab[t].closed
        /\ s.finished = tab[t].finished /\ s.read = Interview!Beginning /\ s.wait = "none"
    BY <1>1, <2>5 DEF Adopted, NoMoreWait, Tab
  <2> HIDE DEF s
  <2>8. TabOfSession(s)
    BY <1>1, <2>2, <2>4, <2>7 DEF TabOfSession, Interview!Beginning
  <2>9. Shaped(s)
    BY <1>1, <2>7 DEF Shaped
  <2>10. exchange' \in Exchange /\ Attended' /\ (IsOver => ~exchange'.on)
    <3>1. (s.call = "stream" /\ ~s.closed) <=> Reading(t)
      BY <2>7 DEF Reading
    <3>2. QED
      BY <2>1, <2>6, <3>1, AttendedStill
  <2>11. ASSUME tab[t].read = session
         PROVE  UpToDate(s)
    <3>1. \A seq \in Turns(session) : WillShow(s, seq)
      BY <2>7, <2>11 DEF WillShow
    <3>2. CASE s.stream = <<>>
      BY <2>7, <2>11, <3>1, <3>2 DEF UpToDate, WillSay
    <3>3. CASE s.stream # <<>>
      <4>1. s.stream \in Seq(Frame)
        BY <1>1, <2>7, TabFields
      <4>2. Len(s.stream) \in DOMAIN s.stream
        BY <3>3, <4>1
      <4>3. FrameOfSession(s.stream[Len(s.stream)]) /\ s.stream[Len(s.stream)].type = "state"
        BY <2>8, <2>9, <3>3, <4>2 DEF TabOfSession, Shaped
      <4>4. s.stream[Len(s.stream)].stage \in Interview!Stages
        BY <4>1, <4>2, <4>3 DEF Frame
      <4>5. s.stream[Len(s.stream)].stage = session.stage
        BY <1>4, <2>2, <2>11, <4>3, <4>4 DEF FrameOfSession, IsOver, Interview!Stages, Interview!Point
      <4>6. QED
        BY <3>1, <3>3, <4>5 DEF UpToDate, WillSay
    <3>4. QED
      BY <3>2, <3>3
  <2>12. t \in behind' \/ Abreast(s)
    BY <1>2, <2>7, <2>11 DEF Abreast
  <2>13. behind' \in {behind, behind \cup {t}, behind \ {t}}
    BY <1>2
  <2>14. QED
    BY <2>1, <2>6, <2>8, <2>9, <2>10, <2>12, <2>13, OneTabMoves
<1>5. QED
  BY <1>3, <1>4

(* What becomes of a page when its call is over.                           *)
LEMMA AfterCallIs ==
  ASSUME ScreenInv, NEW t \in Tabs, NEW s, s = AfterCall(tab[t])
  PROVE  /\ s \in Tab /\ TabOfSession(s) /\ Shaped(s) /\ s.call = "none"
         /\ tab[t].finished => Abreast(s)
         /\ tab[t].stream = <<>> => t \in behind \/ Abreast(s)
<1>1. CASE tab[t].finished
  <2>1. s = Completed /\ TooLate
    BY <1>1, TabAt DEF AfterCall, TabOfSession, IsOver, TooLate
  <2>2. QED
    BY <2>1, NoPage, AwayTyped
<1>2. CASE ~tab[t].finished
  <2>1. s = Settled(tab[t]) /\ "start" \in Interview!Actions /\ tab[t] \in Tab
    BY <1>2, TabAt DEF AfterCall, Interview!Actions
  <2>2. /\ Settled(tab[t]) \in Tab /\ Settled(tab[t]).call = "none"
        /\ Settled(tab[t]).page = tab[t].page
    BY <2>1, PageStays, HandledTyped
  <2>3. /\ TabOfSession(s) /\ Shaped(s)
        /\ tab[t].stream = <<>> /\ UpToDate(tab[t]) => UpToDate(s)
    BY <2>1, TabAt, CallEnds
  <2>4. QED
    BY <1>2, <2>1, <2>2, <2>3, TabAt DEF Abreast
<1>3. QED
  BY <1>1, <1>2

LEMMA BreakStep ==
  ASSUME ScreenInv, NEW t \in Tabs, Break(t)
  PROVE  ScreenInv'
<1>1. PICK s : s = AfterCall(tab[t])
  OBVIOUS
<1>2. /\ tab' = [tab EXCEPT ![t] = s] /\ exchange' = Unheard(t) /\ UNCHANGED <<session, cold>>
      /\ behind' = IF tab[t].finished THEN behind \ {t}
                   ELSE IF tab[t].stream = <<>> THEN behind ELSE behind \cup {t}
  BY <1>1 DEF Break
<1>3. /\ s \in Tab /\ TabOfSession(s) /\ Shaped(s) /\ s.call = "none"
      /\ tab[t].finished => Abreast(s)
      /\ tab[t].stream = <<>> => t \in behind \/ Abreast(s)
  BY <1>1, AfterCallIs
<1>4. exchange' \in Exchange /\ Attended' /\ (IsOver => ~exchange'.on)
  BY <1>2, <1>3, AttendedNoMore
<1>5. t \in behind' \/ Abreast(s)
  BY <1>2, <1>3
<1>6. behind' \in {behind, behind \cup {t}, behind \ {t}}
  BY <1>2
<1>7. QED
  BY <1>2, <1>3, <1>4, <1>5, <1>6, OneTabMoves

LEMMA StreamEndsStep ==
  ASSUME ScreenInv, NEW t \in Tabs, StreamEnds(t)
  PROVE  ScreenInv'
<1>1. PICK s : s = AfterCall(tab[t])
  OBVIOUS
<1>2. /\ tab[t].stream = <<>> /\ ~Reading(t) /\ UNCHANGED <<session, cold, exchange>>
      /\ tab' = [tab EXCEPT ![t] = s]
      /\ behind' = IF tab[t].finished THEN behind \ {t} ELSE behind
  BY <1>1 DEF StreamEnds, Reading
<1>3. /\ s \in Tab /\ TabOfSession(s) /\ Shaped(s) /\ s.call = "none"
      /\ tab[t].finished => Abreast(s)
      /\ t \in behind \/ Abreast(s)
  BY <1>1, <1>2, AfterCallIs
<1>4. exchange' \in Exchange /\ Attended' /\ (IsOver => ~exchange'.on)
  BY <1>2, <1>3, AttendedStill
<1>5. t \in behind' \/ Abreast(s)
  BY <1>2, <1>3
<1>6. QED
  BY <1>2, <1>3, <1>4, <1>5, OneTabMoves

Listening(s) == [s EXCEPT !.call = "stream", !.action = "start"]

LEMMA ListeningFields ==
  ASSUME NEW s \in Tab
  PROVE  /\ Listening(s) \in Tab
         /\ Listening(s).call = "stream" /\ Listening(s).page = s.page
         /\ Listening(s).shown = s.shown /\ Listening(s).live = s.live
         /\ Listening(s).stream = s.stream /\ Listening(s).closed = s.closed
         /\ Listening(s).finished = s.finished /\ Listening(s).wait = s.wait
         /\ Listening(s).read = s.read
  BY DEF Tab, Listening, Interview!Actions

LEMMA ArriveStep ==
  ASSUME ScreenInv, NEW t \in Tabs, Arrive(t)
  PROVE  ScreenInv'
<1>1. /\ tab[t] \in Tab /\ TabOfSession(tab[t]) /\ Shaped(tab[t]) /\ ~Reading(t)
      /\ tab[t].call = "posted" /\ tab[t].stream = <<>> /\ tab[t].page = "screen"
      /\ tab[t].closed = FALSE /\ (t \in behind \/ UpToDate(tab[t]))
      /\ tab[t].action \in Interview!Actions
  BY TabAt, TabFields DEF Arrive, Shaped, Abreast
<1>2. UNCHANGED <<session, cold>>
  BY DEF Arrive
<1>3. CASE TooLate
  <2>1. tab' = [tab EXCEPT ![t] = Completed] /\ UNCHANGED exchange /\ behind' = behind \ {t}
    BY <1>3 DEF Arrive
  <2>2. exchange' \in Exchange /\ Attended' /\ (IsOver => ~exchange'.on)
    BY <1>1, <2>1, AttendedStill, NoPage, AwayTyped
  <2>3. QED
    BY <1>2, <1>3, <2>1, <2>2, OneTabMoves, NoPage, AwayTyped
<1>4. CASE ~TooLate /\ exchange.on
  <2> DEFINE r == Settled(tab[t])
             wait == IF r.wait = "none" THEN "due" ELSE r.wait
             s == WillLook(r)
  <2>1. tab' = [tab EXCEPT ![t] = s] /\ UNCHANGED <<exchange, behind>>
    BY <1>4 DEF Arrive
  <2>2. /\ r \in Tab /\ TabOfSession(r) /\ Shaped(r) /\ r.call = "none" /\ r.page = "screen"
        /\ r.stream = <<>> /\ (UpToDate(tab[t]) => UpToDate(r)) 
        /\ r.wait \in {"none", "due", "read", "failed"}
    BY <1>1, CallEnds, PageStays, HandledTyped, TabFields
  <2> HIDE DEF r
  <2>8. wait \in {"none", "due", "read", "failed"}
    BY <2>2
  <2>3. s \in Tab
    BY <2>2, <2>8, HandledTyped DEF Interview!Actions, WillLook
  <2>4. /\ s.call = "none" /\ s.page = "screen" /\ s.shown = r.shown /\ s.live = r.live
        /\ s.stream = <<>> /\ s.read = r.read /\ s.finished = r.finished /\ s.closed = r.closed
    BY <2>2 DEF Tab, WillLook
  <2> HIDE DEF s
  <2>5. TabOfSession(s) /\ Shaped(s) /\ (UpToDate(r) => UpToDate(s))
    BY <2>2, <2>4 DEF TabOfSession, Shaped, UpToDate, WillShow, WillSay
  <2>6. exchange' \in Exchange /\ Attended' /\ (IsOver => ~exchange'.on)
    BY <1>1, <2>1, <2>3, <2>4, AttendedStill
  <2>9. t \in behind' \/ Abreast(s)
    BY <1>1, <2>1, <2>2, <2>4, <2>5 DEF Abreast
  <2>7. QED
    BY <1>2, <2>1, <2>3, <2>5, <2>6, <2>9, OneTabMoves
<1>5. CASE ~TooLate /\ ~exchange.on
  <2> DEFINE s == Listening(tab[t])
  <2>1. /\ tab' = [tab EXCEPT ![t] = s]
        /\ exchange' = [on |-> TRUE, by |-> t, action |-> tab[t].action,
                        found |-> session.stage]
        /\ UNCHANGED behind
    BY <1>5 DEF Arrive, ScreenInv, ScreenTypeOK, Listening
  <2>10. s \in Tab
    BY <1>1, ListeningFields
  <2>11. /\ s.call = "stream" /\ s.closed = tab[t].closed /\ s.stream = tab[t].stream
         /\ s.page = tab[t].page /\ s.shown = tab[t].shown /\ s.live = tab[t].live
         /\ s.read = tab[t].read /\ s.finished = tab[t].finished /\ s.wait = tab[t].wait
    <3>1. tab[t] \in Tab
      BY <1>1
    <3>2. QED
      BY <3>1, ListeningFields
  <2>2. /\ s.call = "stream" /\ s.closed = FALSE /\ s.stream = <<>>
        /\ s.page = "screen" /\ s.shown = tab[t].shown /\ s.live = tab[t].live
        /\ s.read = tab[t].read /\ s.finished = tab[t].finished /\ s.wait = tab[t].wait
    BY <1>1, <2>11
  <2> HIDE DEF s
  <2>3. TabOfSession(s) /\ Shaped(s) /\ (UpToDate(tab[t]) => UpToDate(s))
    BY <1>1, <2>2 DEF TabOfSession, Shaped, UpToDate, WillShow, WillSay
  <2>4. exchange' \in Exchange
    BY <1>1, <2>1 DEF Exchange, ScreenInv, ScreenTypeOK, Interview!Point
  <2>5. exchange.by \notin Tabs
    BY <1>5 DEF ScreenInv, Attended
  <2>6. Reading(t)' /\ \A u \in Tabs \ {t} : ~Reading(u)'
    BY <2>1, <2>2, <2>5 DEF Reading, ScreenInv, ScreenTypeOK, Attended
  <2>7. exchange'.on /\ exchange'.by = t
    BY <2>1
  <2>8. Attended'
    BY <2>6, <2>7 DEF Attended
  <2>12. t \in behind' \/ Abreast(s)
    BY <1>1, <2>1, <2>2, <2>3 DEF Abreast
  <2>13. ~IsOver
    BY <1>5 DEF IsOver, TooLate
  <2>9. QED
    BY <1>2, <2>1, <2>3, <2>4, <2>8, <2>10, <2>12, <2>13, OneTabMoves
<1>6. QED
  BY <1>3, <1>4, <1>5 DEF Arrive

LEMMA TailFacts ==
  ASSUME NEW S, NEW frames \in Seq(S), frames # <<>>
  PROVE  /\ Head(frames) = frames[1] /\ frames[1] \in S /\ 1 \in DOMAIN frames
         /\ Tail(frames) \in Seq(S) /\ Len(Tail(frames)) = Len(frames) - 1
         /\ \A i \in DOMAIN Tail(frames) : i + 1 \in DOMAIN frames /\ Tail(frames)[i] = frames[i + 1]
         /\ \A i \in DOMAIN frames : i # 1 => i - 1 \in DOMAIN Tail(frames) /\ Tail(frames)[i - 1] = frames[i]
         /\ Tail(frames) = <<>> <=> Len(frames) = 1
         /\ Len(frames) \in DOMAIN frames
<1>1. /\ Len(frames) \in Nat \ {0} /\ DOMAIN frames = 1 .. Len(frames)
      /\ Tail(frames) \in Seq(S) /\ Len(Tail(frames)) = Len(frames) - 1
      /\ DOMAIN Tail(frames) = 1 .. Len(frames) - 1
  OBVIOUS
<1>2. \A i \in 1 .. Len(frames) - 1 : Tail(frames)[i] = frames[i + 1]
  OBVIOUS
<1>3. Head(frames) = frames[1] /\ frames[1] \in S
  BY <1>1
<1>4. Tail(frames) = <<>> <=> Len(frames) = 1
  BY <1>1
<1>5. \A i \in 1 .. Len(frames) : i # 1 => i - 1 \in 1 .. Len(frames) - 1 /\ Tail(frames)[i - 1] = frames[i]
  BY <1>1, <1>2
<1>6. QED
  BY <1>1, <1>2, <1>3, <1>4, <1>5

(* What is drawn of a frame was to come.                                   *)
LEMMA ReadFrameStep ==
  ASSUME ScreenInv, NEW t \in Tabs, ReadFrame(t)
  PROVE  ScreenInv'
<1> DEFINE frames == tab[t].stream
           f == Head(frames)
           s == [Drawn(tab[t], f) EXCEPT !.stream = Tail(frames)]
<1>1. /\ tab[t] \in Tab /\ TabOfSession(tab[t]) /\ Shaped(tab[t])
      /\ tab[t].call = "stream" /\ tab[t].closed = TRUE /\ ~Reading(t)
      /\ tab[t].page = "screen" /\ frames \in Seq(Frame) /\ frames # <<>>
      /\ frames[Len(frames)].type = "state" /\ tab[t].shown \in SUBSET (0 .. MaxTurns + 1)
      /\ UNCHANGED <<session, cold, exchange, behind>>
  BY TabAt, TabFields DEF ReadFrame, Shaped, Reading
<1>2. /\ f = frames[1] /\ f \in Frame /\ 1 \in DOMAIN frames
      /\ Tail(frames) \in Seq(Frame) /\ Len(Tail(frames)) = Len(frames) - 1
      /\ \A i \in DOMAIN Tail(frames) : i + 1 \in DOMAIN frames /\ Tail(frames)[i] = frames[i + 1]
      /\ \A i \in DOMAIN frames : i # 1 => i - 1 \in DOMAIN Tail(frames) /\ Tail(frames)[i - 1] = frames[i]
      /\ Tail(frames) = <<>> <=> Len(frames) = 1
      /\ Len(frames) \in DOMAIN frames
  BY <1>1, TailFacts
<1>3. tab' = [tab EXCEPT ![t] = s]
  BY DEF ReadFrame
<1>4. /\ s \in Tab /\ s.stream = Tail(frames) /\ s.page = "screen" /\ s.call = "stream"
      /\ s.closed = TRUE /\ s.read = tab[t].read /\ s.wait = tab[t].wait
      /\ \/ /\ f.type = "turn" /\ s.shown = tab[t].shown \cup {f.seq} /\ s.live = tab[t].live
            /\ s.finished = tab[t].finished
         \/ /\ f.type = "state" /\ s.shown = tab[t].shown /\ s.live = f.stage
            /\ s.finished = (f.stage = "ended")
  <2>1. CASE f.type = "turn"
    <3>1. f.seq \in 0 .. MaxTurns + 1
      BY <1>2, <2>1 DEF Frame
    <3>2. s = [tab[t] EXCEPT !.shown = @ \cup {f.seq}, !.thinking = FALSE, !.stream = Tail(frames)]
      BY <1>1, <2>1 DEF Drawn, Tab
    <3> HIDE DEF s, f
    <3>3. s \in Tab
      BY <1>1, <1>2, <3>1, <3>2 DEF Tab
    <3>4. QED
      BY <1>1, <2>1, <3>2, <3>3 DEF Tab
  <2>2. CASE f.type = "state"
    <3>1. f.stage \in Interview!Stages
      BY <1>2, <2>2 DEF Frame
    <3>2. s = [tab[t] EXCEPT !.live = f.stage, !.finished = (f.stage = "ended"),
                             !.stream = Tail(frames)]
      BY <1>1, <2>2 DEF Drawn, Tab
    <3> HIDE DEF s, f
    <3>3. s \in Tab
      BY <1>1, <1>2, <3>1, <3>2 DEF Tab
    <3>4. QED
      BY <1>1, <2>2, <3>2, <3>3 DEF Tab
  <2>3. QED
    BY <1>2, <2>1, <2>2 DEF Frame
<1> HIDE DEF s, f
<1>5. FrameOfSession(f) /\ \A i \in DOMAIN Tail(frames) : FrameOfSession(Tail(frames)[i])
  BY <1>1, <1>2 DEF TabOfSession
<1>6. TabOfSession(s)
  <2>1. s.shown \subseteq Turns(session)
    <3>1. f.type = "turn" => f.seq \in Turns(session)
      BY <1>2, <1>5 DEF FrameOfSession, Frame, Turns, ScreenInv, ScreenTypeOK
    <3>2. QED
      BY <1>1, <1>4, <3>1 DEF TabOfSession
  <2>2. s.finished => IsOver
    BY <1>1, <1>4, <1>5 DEF TabOfSession, FrameOfSession
  <2>3. QED
    BY <1>1, <1>4, <1>5, <2>1, <2>2 DEF TabOfSession
<1>7. Shaped(s)
  <2>1. Tail(frames) # <<>> => Tail(frames)[Len(Tail(frames))].type = "state"
    BY <1>1, <1>2
  <2>2. QED
    BY <1>4, <2>1 DEF Shaped
<1>8. ASSUME UpToDate(tab[t])
      PROVE  UpToDate(s)
  <2>1. ASSUME NEW seq \in Turns(session)
        PROVE  WillShow(s, seq)
    <3>1. CASE seq \in tab[t].shown
      BY <1>4, <3>1 DEF WillShow
    <3>2. CASE \E i \in DOMAIN frames : frames[i] = TurnFrame(seq)
      <4>1. PICK i \in DOMAIN frames : frames[i] = TurnFrame(seq)
        BY <3>2
      <4>2. CASE i = 1
        <5>1. f.type = "turn" /\ f.seq = seq
          BY <1>2, <4>1, <4>2 DEF TurnFrame
        <5>2. QED
          BY <1>4, <5>1 DEF WillShow
      <4>3. CASE i # 1
        <5>1. i - 1 \in DOMAIN s.stream /\ s.stream[i - 1] = TurnFrame(seq)
          BY <1>2, <1>4, <4>1, <4>3
        <5>2. QED
          BY <5>1 DEF WillShow
      <4>4. QED
        BY <4>2, <4>3
    <3>3. QED
      BY <1>8, <3>1, <3>2 DEF UpToDate, WillShow
  <2>2. WillSay(s) = session.stage
    <3>1. frames[Len(frames)].stage = session.stage
      BY <1>1, <1>8 DEF UpToDate, WillSay
    <3>2. CASE Tail(frames) = <<>>
      BY <1>1, <1>2, <1>4, <3>1, <3>2 DEF WillSay
    <3>3. CASE Tail(frames) # <<>>
      BY <1>1, <1>2, <1>4, <3>1, <3>3 DEF WillSay
    <3>4. QED
      BY <3>2, <3>3
  <2>3. QED
    BY <2>1, <2>2 DEF UpToDate
<1>9. exchange' \in Exchange /\ Attended' /\ (IsOver => ~exchange'.on)
  BY <1>1, <1>3, <1>4, AttendedStill
<1>10. t \in behind' \/ Abreast(s)
  BY <1>1, <1>4, <1>8, TabAt DEF Abreast
<1>11. QED
  BY <1>1, <1>3, <1>4, <1>6, <1>7, <1>9, <1>10, OneTabMoves

(* An exchange takes the session one or two turns further.                 *)
LEMMA SessionGrows ==
  ASSUME ScreenInv, NEW a \in Interview!Actions, session' \in Interview!Outcomes(session, a)
  PROVE  /\ session' \in Interview!Point
         /\ session.next \in Nat /\ session'.next \in {session.next + 1, session.next + 2}
         /\ session'.stage \in {"open", "ended"}
<1>1. session \in Interview!Point
  BY DEF ScreenInv, ScreenTypeOK
<1>3. PICK stage \in {"open", "ended"} :
        session' = [stage |-> stage, next |-> session.next + Interview!TurnsOf(a)]
  BY DEF Interview!Outcomes
<1>4. Interview!TurnsOf(a) \in {1, 2}
  BY DEF Interview!TurnsOf, Interview!Actions
<1>5. QED
  BY <1>1, <1>3, <1>4 DEF Interview!Point, Interview!Stages

LEMMA ConcatFacts ==
  ASSUME NEW S, NEW s \in Seq(S), NEW u \in Seq(S), Len(u) = 1
  PROVE  /\ s \o u \in Seq(S) /\ Len(s \o u) = Len(s) + 1
         /\ (s \o u)[Len(s) + 1] = u[1]
         /\ \A i \in 1 .. Len(s) : (s \o u)[i] = s[i]
<1>1. Len(s) \in Nat
  BY LenProperties
<1>4. Len(s \o u) = Len(s) + 1 /\ s \o u \in Seq(S)
  BY ConcatProperties
<1>2. \A i \in 1 .. Len(s) + 1 : (s \o u)[i] = IF i <= Len(s) THEN s[i] ELSE u[i - Len(s)]
  BY ConcatProperties
<1>3. QED
  BY <1>1, <1>2, <1>4

(* Its frames are the turns it added, and then where the session stands.   *)
LEMMA FramesAre ==
  ASSUME NEW p, NEW q \in Interview!Point, p.next \in Nat, p.next < q.next,
         q.next <= MaxTurns + 1
  PROVE  LET frames == FramesFor(p, q)
             n      == q.next - p.next
         IN  /\ frames \in Seq(Frame) /\ Len(frames) = n + 1 /\ frames # <<>>
             /\ frames[n + 1] = [type |-> "state", stage |-> q.stage]
             /\ \A i \in 1 .. n : frames[i] = TurnFrame(p.next + i - 1)
<1> DEFINE n     == q.next - p.next
           added == [i \in 1 .. n |-> TurnFrame(p.next + i - 1)]
           last  == <<[type |-> "state", stage |-> q.stage]>>
<1>1. n \in Nat \ {0} /\ q.next \in Nat /\ q.stage \in Interview!Stages
  BY DEF Interview!Point
<1>2. \A i \in 1 .. n : TurnFrame(p.next + i - 1) \in Frame
  BY <1>1, ScreenAssumption DEF TurnFrame, Frame
<1>3. added \in Seq(Frame) /\ Len(added) = n
  BY <1>1, <1>2
<1>4. last \in Seq(Frame) /\ Len(last) = 1 /\ last[1] = [type |-> "state", stage |-> q.stage]
  BY <1>1 DEF Frame
<1>5. FramesFor(p, q) = added \o last
  BY DEF FramesFor
<1> HIDE DEF added, last, n
<1>6. /\ added \o last \in Seq(Frame) /\ Len(added \o last) = n + 1
      /\ (added \o last)[n + 1] = last[1]
      /\ \A i \in 1 .. n : (added \o last)[i] = added[i]
  BY <1>1, <1>3, <1>4, ConcatFacts
<1>7. \A i \in 1 .. n : added[i] = TurnFrame(p.next + i - 1)
  BY DEF added
<1>8. added \o last # <<>>
  BY <1>1, <1>6
<1>9. /\ FramesFor(p, q) \in Seq(Frame) /\ Len(FramesFor(p, q)) = n + 1
      /\ FramesFor(p, q) # <<>>
      /\ FramesFor(p, q)[n + 1] = [type |-> "state", stage |-> q.stage]
      /\ \A i \in 1 .. n : FramesFor(p, q)[i] = TurnFrame(p.next + i - 1)
  BY <1>4, <1>5, <1>6, <1>7, <1>8
<1>10. QED
  BY <1>9 DEF n

(* What is of the session stays of it.                                     *)
LEMMA StaysOfSession ==
  ASSUME ScreenInv, NEW a \in Interview!Actions, exchange.on,
         session' \in Interview!Outcomes(session, a),
         NEW s \in Tab, TabOfSession(s)
  PROVE  TabOfSession(s)'
<1>1. /\ session.next \in Nat /\ session'.next \in Nat /\ session.next < session'.next
      /\ ~IsOver /\ session'.stage # "intro"
  BY SessionGrows DEF IsOver
<1>2. \A i \in DOMAIN s.stream : s.stream[i] \in Frame
  BY TabFields
<1>3. \A i \in DOMAIN s.stream : FrameOfSession(s.stream[i])'
  BY <1>1, <1>2 DEF TabOfSession, FrameOfSession, Frame
<1>4. (s.shown \subseteq Turns(session))'
  BY <1>1 DEF TabOfSession, Turns
<1>5. s.read.next \in Nat
  BY TabFields DEF Interview!Point
<1>6. QED
  BY <1>1, <1>3, <1>4, <1>5 DEF TabOfSession

(* The stream is filled and closed.                                        *)
Filled(s, frames) == [s EXCEPT !.stream = frames, !.closed = TRUE]

LEMMA FilledFields ==
  ASSUME NEW s \in Tab, NEW frames \in Seq(Frame)
  PROVE  /\ Filled(s, frames) \in Tab
         /\ Filled(s, frames).stream = frames /\ Filled(s, frames).closed = TRUE
         /\ Filled(s, frames).call = s.call /\ Filled(s, frames).page = s.page
         /\ Filled(s, frames).shown = s.shown /\ Filled(s, frames).live = s.live
         /\ Filled(s, frames).finished = s.finished /\ Filled(s, frames).wait = s.wait
         /\ Filled(s, frames).read = s.read
  BY DEF Tab, Filled

LEMMA NobodyReads ==
  ASSUME ScreenInv, NEW frames \in Seq(Frame), tab' = Answers(frames), exchange' = NoExchange
  PROVE  /\ exchange' \in Exchange /\ Attended'
         /\ tab' \in [Tabs -> Tab]
         /\ \A t \in Tabs : t # exchange.by => tab'[t] = tab[t]
         /\ \A t \in Tabs : t = exchange.by =>
              /\ tab'[t] = Filled(tab[t], frames)
              /\ tab[t].call = "stream" /\ tab[t].stream = <<>> /\ tab[t].page = "screen"
<1>1. /\ \A t \in Tabs : t # exchange.by => tab'[t] = tab[t]
      /\ \A t \in Tabs : t = exchange.by => tab'[t] = Filled(tab[t], frames)
  BY DEF Answers, Filled
<1>2. \A t \in Tabs : tab[t] \in Tab /\ tab'[t] \in Tab
  <2>1. TAKE t \in Tabs
  <2>2. tab[t] \in Tab
    BY TabAt
  <2>3. Filled(tab[t], frames) \in Tab
    BY <2>2, FilledFields
  <2>4. QED
    BY <1>1, <2>2, <2>3
<1>3. tab' \in [Tabs -> Tab]
  BY <1>2 DEF Answers
<1>4. \A t \in Tabs : ~Reading(t)'
  <2>1. TAKE t \in Tabs
  <2>2. CASE t = exchange.by
    <3>1. tab'[t].closed = TRUE
      BY <1>1, <1>2, <2>2, FilledFields
    <3>2. QED
      BY <3>1 DEF Reading
  <2>3. CASE t # exchange.by
    BY <1>1, <2>3 DEF Reading, ScreenInv, Attended
  <2>4. QED
    BY <2>2, <2>3
<1>5. \A t \in Tabs : t = exchange.by =>
        tab[t].call = "stream" /\ tab[t].stream = <<>> /\ tab[t].page = "screen"
  BY TabAt DEF ScreenInv, Attended, Shaped
<1>6. exchange' \in Exchange /\ exchange'.by \notin Tabs
  BY ScreenAssumption DEF NoExchange, Exchange, Interview!Actions, Interview!Stages
<1>7. Attended'
  BY <1>4, <1>6 DEF Attended
<1>8. QED
  BY <1>1, <1>3, <1>5, <1>6, <1>7

LEMMA StoreStep ==
  ASSUME ScreenInv, Store
  PROVE  ScreenInv'
<1> DEFINE n == session'.next - session.next
<1>1. /\ exchange.action \in Interview!Actions /\ exchange.on
      /\ session' \in Interview!Outcomes(session, exchange.action) /\ UNCHANGED cold
      /\ session.next < MaxTurns /\ tab' = Answers(FramesFor(session, session'))
      /\ exchange' = NoExchange
      /\ behind' = behind \cup {t \in Tabs : tab[t].page # "away" /\ t # exchange.by}
  BY DEF Store, ScreenInv, ScreenTypeOK, Exchange
<1>2. /\ session' \in Interview!Point /\ session.next \in Nat
      /\ session'.next \in {session.next + 1, session.next + 2}
      /\ ~IsOver /\ session'.stage \in {"open", "ended"} /\ exchange'.on = FALSE
  BY <1>1, SessionGrows DEF IsOver, NoExchange
<1>13. session.next \in Nat /\ session'.next \in {session.next + 1, session.next + 2}
  BY <1>2
<1>3. session'.next \in 0 .. MaxTurns + 1 /\ n \in {1, 2}
  BY <1>1, <1>2, ScreenAssumption
<1>12. FramesFor(session, session') \in Seq(Frame)
  <2>1. session.next < session'.next /\ session'.next <= MaxTurns + 1
    BY <1>2, <1>3, ScreenAssumption
  <2>2. QED
    BY <1>2, <2>1, FramesAre
<1> SUFFICES ASSUME NEW frames \in Seq(Frame), frames = FramesFor(session, session')
             PROVE  ScreenInv'
  BY <1>12
<1>4. /\ frames \in Seq(Frame) /\ Len(frames) = n + 1 /\ frames # <<>>
      /\ frames[n + 1] = [type |-> "state", stage |-> session'.stage]
      /\ \A i \in 1 .. n : frames[i] = TurnFrame(session.next + i - 1)
      /\ tab' = Answers(frames)
  BY <1>1, <1>2, <1>3, FramesAre
<1> HIDE DEF n
<1>5. /\ exchange' \in Exchange /\ Attended' /\ tab' \in [Tabs -> Tab]
      /\ \A t \in Tabs : t # exchange.by => tab'[t] = tab[t]
      /\ \A t \in Tabs : t = exchange.by =>
           /\ tab'[t] = Filled(tab[t], frames)
           /\ tab[t].call = "stream" /\ tab[t].stream = <<>> /\ tab[t].page = "screen"
  BY <1>1, <1>4, NobodyReads
<1>6. ScreenTypeOK'
  BY <1>1, <1>2, <1>3, <1>5 DEF ScreenInv, ScreenTypeOK
<1>7. DOMAIN frames = 1 .. n + 1
  BY <1>4
<1>8. \A i \in DOMAIN frames : FrameOfSession(frames[i])'
  <2>1. TAKE i \in DOMAIN frames
  <2>2. CASE i = n + 1
    <3>1. frames[i].type = "state" /\ frames[i].stage = session'.stage
      BY <1>4, <2>2
    <3>2. QED
      BY <1>2, <3>1 DEF FrameOfSession, IsOver
  <2>3. CASE i \in 1 .. n
    <3>1. frames[i].type = "turn" /\ frames[i].seq = session.next + i - 1
      <4>1. frames[i] = TurnFrame(session.next + i - 1)
        BY <1>4, <2>3
      <4>2. QED
        BY <4>1 DEF TurnFrame
    <3>2. session.next + i - 1 < session'.next
      BY <1>2, <1>3, <2>3 DEF n
    <3>3. QED
      BY <3>1, <3>2 DEF FrameOfSession
  <2>4. QED
    BY <1>3, <1>7, <2>2, <2>3
<1>9. ASSUME NEW t \in Tabs
      PROVE  /\ (TabOfSession(tab[t]) /\ Shaped(tab[t]))'
             /\ t \in behind' \/ Abreast(tab[t])'
  <2>1. /\ tab[t] \in Tab /\ TabOfSession(tab[t]) /\ Shaped(tab[t])
        /\ t \in behind \/ Abreast(tab[t])
    BY TabAt
  <2> DEFINE old == tab[t]
             new == tab'[t]
  <2>2. CASE t # exchange.by
    <3>1. new = old /\ (t \in behind' \/ new.page = "away")
      BY <1>1, <1>5, <2>2
    <3>2. Shaped(tab[t])'
      BY <2>1, <3>1 DEF Shaped
    <3>4. TabOfSession(tab[t])'
      <4>1. ASSUME NEW s \in Tab, s = tab[t]
            PROVE  TabOfSession(tab[t])'
        <5>1. TabOfSession(s)
          BY <2>1, <4>1
        <5>2. TabOfSession(s)'
          BY <1>1, <5>1, StaysOfSession
        <5>3. tab'[t] = s
          BY <3>1, <4>1
        <5>4. QED
          BY <5>2, <5>3 DEF TabOfSession
      <4>2. QED
        BY <2>1, <4>1
    <3>6. t \in behind' \/ Abreast(tab[t])'
      BY <3>1 DEF Abreast
    <3>5. QED
      BY <3>1, <3>2, <3>4, <3>6
  <2>3. CASE t = exchange.by
    <3>1. /\ new.stream = frames /\ new.closed = TRUE /\ new.call = "stream"
          /\ new.page = "screen" /\ new.shown = old.shown /\ new.live = old.live
          /\ new.finished = old.finished /\ new.wait = old.wait /\ new.read = old.read
          /\ old.stream = <<>> /\ old.page = "screen"
      <4>1. new = Filled(old, frames)
        BY <1>5, <2>3
      <4>2. old \in Tab
        BY <2>1
      <4>3. /\ Filled(old, frames).stream = frames /\ Filled(old, frames).closed = TRUE
            /\ Filled(old, frames).call = old.call /\ Filled(old, frames).page = old.page
            /\ Filled(old, frames).shown = old.shown /\ Filled(old, frames).live = old.live
            /\ Filled(old, frames).finished = old.finished
            /\ Filled(old, frames).wait = old.wait /\ Filled(old, frames).read = old.read
        BY <1>4, <4>2, FilledFields
      <4>4. old.stream = <<>> /\ old.page = "screen" /\ old.call = "stream"
        BY <1>5, <2>3
      <4>5. QED
        BY <4>1, <4>3, <4>4
    <3>2. TabOfSession(tab[t])'
      <4>1. old.read.next \in Nat /\ old.shown \subseteq Turns(session)
            /\ old.read.next <= session.next /\ ~old.finished
        BY <1>2, <2>1, TabFields DEF TabOfSession, Interview!Point
      <4>2. new.shown \subseteq Turns(session)'
        BY <1>2, <3>1, <4>1 DEF Turns
      <4>3. QED
        BY <1>2, <1>8, <3>1, <4>1, <4>2 DEF TabOfSession
    <3>3. Shaped(tab[t])'
      BY <1>4, <3>1 DEF Shaped
    <3>4. ASSUME t \notin behind'
          PROVE  Abreast(tab[t])'
      <4>1. UpToDate(old)
        BY <1>1, <2>1, <3>1, <3>4 DEF Abreast
      <4>2. ASSUME NEW seq \in Turns(session)'
            PROVE  WillShow(tab[t], seq)'
        <5>1. CASE seq \in Turns(session)
          <6>1. seq \in old.shown
            BY <3>1, <4>1, <5>1 DEF UpToDate, WillShow
          <6>2. QED
            BY <3>1, <6>1 DEF WillShow
        <5>2. CASE seq \notin Turns(session)
          <6> DEFINE i == seq - session.next + 1
          <6>1. i \in 1 .. n /\ seq = session.next + i - 1
            BY <1>13, <4>2, <5>2 DEF Turns, n
          <6>2. i \in DOMAIN frames /\ frames[i] = TurnFrame(seq)
            BY <1>3, <1>4, <1>7, <6>1
          <6> HIDE DEF i
          <6>3. QED
            BY <3>1, <6>2 DEF WillShow, TurnFrame
        <5>3. QED
          BY <5>1, <5>2
      <4>3. WillSay(tab[t])' = session'.stage
        BY <1>4, <3>1 DEF WillSay
      <4>5. UpToDate(tab[t])'
        BY <4>2, <4>3 DEF UpToDate
      <4>4. QED
        BY <3>1, <4>5 DEF Abreast
    <3>5. QED
      BY <3>2, <3>3, <3>4
  <2>4. QED
    BY <2>2, <2>3
<1>10. (session.stage = "intro" => session.next = 0)'
  BY <1>2
<1>11. QED
  BY <1>5, <1>6, <1>9, <1>10 DEF ScreenInv

LEMMA FailStep ==
  ASSUME ScreenInv, Fail
  PROVE  ScreenInv'
<1>1. /\ tab' = Answers(<<>>) /\ exchange' = NoExchange /\ UNCHANGED <<session, cold, behind>>
      /\ exchange'.on = FALSE
  BY DEF Fail, NoExchange
<1>2. <<>> \in Seq(Frame)
  OBVIOUS
<1>3. /\ exchange' \in Exchange /\ Attended' /\ tab' \in [Tabs -> Tab]
      /\ \A t \in Tabs : t # exchange.by => tab'[t] = tab[t]
      /\ \A t \in Tabs : t = exchange.by =>
           /\ tab'[t] = Filled(tab[t], <<>>)
           /\ tab[t].call = "stream" /\ tab[t].stream = <<>> /\ tab[t].page = "screen"
  BY <1>1, <1>2, NobodyReads
<1>4. ScreenTypeOK'
  BY <1>1, <1>3 DEF ScreenInv, ScreenTypeOK
<1>5. ASSUME NEW t \in Tabs
      PROVE  /\ (TabOfSession(tab[t]) /\ Shaped(tab[t]))'
             /\ t \in behind' \/ Abreast(tab[t])'
  <2>1. /\ tab[t] \in Tab /\ TabOfSession(tab[t]) /\ Shaped(tab[t])
        /\ t \in behind \/ Abreast(tab[t])
    BY TabAt
  <2> DEFINE old == tab[t]
             new == tab'[t]
  <2>2. /\ new.stream = old.stream /\ new.call = old.call
        /\ new.page = old.page /\ new.shown = old.shown /\ new.live = old.live
        /\ new.finished = old.finished /\ new.wait = old.wait /\ new.read = old.read
        /\ new.closed = old.closed \/ (new.call = "stream" /\ new.closed = TRUE)
    <3>1. CASE t # exchange.by
      BY <1>3, <3>1
    <3>2. CASE t = exchange.by
      <4>1. new = Filled(old, <<>>) /\ old.stream = <<>> /\ old.call = "stream"
        BY <1>3, <3>2
      <4>2. old \in Tab
        BY <2>1
      <4>3. /\ Filled(old, <<>>).stream = <<>> /\ Filled(old, <<>>).closed = TRUE
            /\ Filled(old, <<>>).call = old.call /\ Filled(old, <<>>).page = old.page
            /\ Filled(old, <<>>).shown = old.shown /\ Filled(old, <<>>).live = old.live
            /\ Filled(old, <<>>).finished = old.finished
            /\ Filled(old, <<>>).wait = old.wait /\ Filled(old, <<>>).read = old.read
        BY <1>2, <4>2, FilledFields
      <4>4. QED
        BY <4>1, <4>3
    <3>3. QED
      BY <3>1, <3>2
  <2>3. UNCHANGED <<session, cold, behind>> /\ (IsOver => IsOver')
    BY <1>1 DEF IsOver
  <2>4. TabOfSession(tab[t])'
    BY <2>1, <2>2, <2>3 DEF TabOfSession, FrameOfSession, Turns
  <2>5. Shaped(tab[t])'
    BY <2>1, <2>2 DEF Shaped
  <2>6. t \in behind' \/ Abreast(tab[t])'
    BY <2>1, <2>2, <2>3 DEF Abreast, UpToDate, WillShow, WillSay, Turns, TurnFrame, TooLate
  <2>7. QED
    BY <2>4, <2>5, <2>6
<1>6. (session.stage = "intro" => session.next = 0)'
  BY <1>1 DEF ScreenInv
<1>7. QED
  BY <1>3, <1>4, <1>5, <1>6 DEF ScreenInv

(* The row is ended, and everybody on screen is behind.                    *)
LEMMA AbandonStep ==
  ASSUME ScreenInv, Abandon
  PROVE  ScreenInv'
<1>1. /\ session' = [session EXCEPT !.stage = "ended"] /\ UNCHANGED <<cold, exchange, tab>>
      /\ behind' = behind \cup {t \in Tabs : OnScreen(t)}
  BY DEF Abandon
<1>2. /\ session' \in Interview!Point /\ session'.next = session.next /\ session'.stage = "ended"
      /\ session.stage # "ended" /\ ~IsOver
  BY <1>1 DEF Abandon, ScreenInv, ScreenTypeOK, IsOver, Interview!Point, Interview!Stages
<1>3. ScreenTypeOK'
  BY <1>1, <1>2 DEF ScreenInv, ScreenTypeOK
<1>4. Attended'
  BY <1>1 DEF ScreenInv, Attended, Reading
<1>5. ASSUME NEW t \in Tabs
      PROVE  (TabOfSession(tab[t]) /\ Shaped(tab[t]))' /\ (t \in behind' \/ Abreast(tab[t])')
  <2>1. TabOfSession(tab[t]) /\ Shaped(tab[t])
    BY TabAt
  <2>2. (TabOfSession(tab[t]) /\ Shaped(tab[t]))'
    BY <1>1, <1>2, <2>1 DEF TabOfSession, FrameOfSession, Shaped, Turns
  <2>3. t \in behind' \/ Abreast(tab[t])'
    BY <1>1, <1>2 DEF Abreast, OnScreen, TooLate
  <2>4. QED
    BY <2>2, <2>3
<1>6. QED
  BY <1>2, <1>3, <1>4, <1>5 DEF ScreenInv

LEMMA GrowColdStep ==
  ASSUME ScreenInv, GrowCold
  PROVE  ScreenInv'
  BY DEF GrowCold, ScreenInv, ScreenTypeOK, TabOfSession, FrameOfSession, IsOver, Shaped, Turns,
     Attended, Reading, Abreast, TooLate, UpToDate, WillShow, WillSay, TurnFrame

LEMMA ScreenStarts == ScreenInit => ScreenInv
<1> SUFFICES ASSUME ScreenInit PROVE ScreenInv
  OBVIOUS
<1>1. /\ session = Interview!Beginning /\ exchange = NoExchange /\ behind = {}
      /\ cold = FALSE
      /\ tab = [t \in Tabs |-> Away]
  BY DEF ScreenInit, Interview!Init
<1>2. session \in Interview!Point /\ session.next = 0 /\ Away \in Tab
  BY <1>1, AwayTyped DEF Interview!Beginning
<1>3. exchange \in Exchange /\ exchange.by \notin Tabs
  BY <1>1, ScreenAssumption DEF NoExchange, Exchange, Interview!Actions, Interview!Stages
<1>4. ScreenTypeOK
  <2>1. cold \in BOOLEAN
    BY <1>1
  <2>2. session.next \in 0 .. MaxTurns + 1
    BY <1>2, ScreenAssumption
  <2>3. tab \in [Tabs -> Tab] /\ behind \subseteq Tabs
    BY <1>1, <1>2
  <2>4. QED
    BY <1>1, <1>2, <1>3, <2>1, <2>2, <2>3 DEF ScreenTypeOK
<1>5. \A t \in Tabs : tab[t] = Away
  BY <1>1
<1>6. Away.page = "away" /\ Away.call = "none" /\ TabOfSession(Away) /\ Shaped(Away) /\ Abreast(Away)
  BY <1>2 DEF Away, TabOfSession, Shaped, Abreast, Interview!Beginning
<1>7. Attended
  BY <1>3, <1>5, <1>6 DEF Attended, Reading
<1>8. QED
  BY <1>2, <1>4, <1>5, <1>6, <1>7 DEF ScreenInv

LEMMA ScreenStep == ScreenInv /\ [ScreenNext]_screenVars => ScreenInv'
<1> SUFFICES ASSUME ScreenInv, [ScreenNext]_screenVars PROVE ScreenInv'
  OBVIOUS
<1>1. CASE UNCHANGED screenVars
  BY <1>1 DEF screenVars, ScreenInv, ScreenTypeOK, TabOfSession, FrameOfSession, IsOver, Shaped,
     Turns, Attended, Reading, Abreast, TooLate, UpToDate, WillShow, WillSay, TurnFrame
<1>2. ASSUME NEW t \in Tabs, Open(t) PROVE ScreenInv'
  BY <1>2, OpenStep
<1>3. ASSUME NEW t \in Tabs, Leave(t) PROVE ScreenInv'
  BY <1>3, LeaveStep
<1>4. ASSUME NEW t \in Tabs, Arrive(t) PROVE ScreenInv'
  BY <1>4, ArriveStep
<1>5. ASSUME NEW t \in Tabs, Reads(t) PROVE ScreenInv'
  BY <1>5, ReadFrameStep, StreamEndsStep DEF Reads
<1>6. ASSUME NEW t \in Tabs, Break(t) PROVE ScreenInv'
  BY <1>6, BreakStep
<1>7. ASSUME NEW t \in Tabs, LooksAgain(t) PROVE ScreenInv'
  BY <1>7, FoundStep, AdoptStep DEF LooksAgain
<1>8. ASSUME NEW t \in Tabs, NEW a \in Interview!Actions, Send(t, a) PROVE ScreenInv'
  BY <1>8, SendStep
<1>9. CASE Store \/ Fail \/ Abandon \/ GrowCold
  BY <1>9, StoreStep, FailStep, AbandonStep, GrowColdStep
<1>10. QED
  BY <1>1, <1>2, <1>3, <1>4, <1>5, <1>6, <1>7, <1>8, <1>9 DEF ScreenNext, GoesOn

(* What the next two rest on.                                              *)
THEOREM ScreenInvariance == ScreenSpec => []ScreenInv
  BY ScreenStarts, ScreenStep, PTL DEF ScreenSpec

(* Every tab, exchange and session is of its type, for any number of tabs  *)
(* and turns.                                                              *)
THEOREM ScreenTyped == ScreenSpec => []ScreenTypeOK
<1>1. ScreenInv => ScreenTypeOK
  BY DEF ScreenInv
<1>2. QED
  BY <1>1, ScreenInvariance, PTL

(* What any tab shows is stored; one that is not behind and has no call out*)
(* shows all there is, and has moved on only from a session that is over or*)
(* too old to resume: for any number of tabs, whatever breaks, is left or  *)
(* comes late, although the session is abandoned beside them.              *)
THEOREM ScreenIsKept == ScreenSpec => []ScreenKeepsUp
<1>1. ScreenInv => ScreenKeepsUp
  <2> SUFFICES ASSUME ScreenInv, NEW t \in Tabs
               PROVE  /\ tab[t].shown \subseteq Turns(session)
                      /\ t \notin behind =>
                           /\ OnScreen(t) /\ tab[t].call = "none" =>
                                tab[t].shown = Turns(session) /\ tab[t].live = session.stage
                           /\ tab[t].page = "complete" => TooLate
    BY DEF ScreenKeepsUp
  <2>1. TabOfSession(tab[t]) /\ Shaped(tab[t]) /\ (t \in behind \/ Abreast(tab[t]))
    BY TabAt
  <2>2. tab[t].call = "none" => tab[t].stream = <<>>
    BY <2>1 DEF Shaped
  <2>3. UpToDate(tab[t]) /\ tab[t].stream = <<>> =>
          tab[t].live = session.stage /\ \A seq \in Turns(session) : seq \in tab[t].shown
    BY DEF UpToDate, WillShow, WillSay
  <2>4. QED
    BY <2>1, <2>2, <2>3 DEF TabOfSession, Abreast, OnScreen
<1>2. QED
  BY <1>1, ScreenInvariance, PTL

(* A tab that reads a stream has one that is closed, or is the one tab     *)
(* that the exchange under way answers; no two tabs wait for it.           *)
WaitersAreAnswered ==
  \A t \in Tabs : tab[t].call = "stream" =>
    tab[t].closed \/ (exchange.on /\ exchange.by = t)

(* The safety half of NobodyIsKeptWaiting: whatever breaks, is left,       *)
(* reloaded or sent again, no tab is left at a stream nobody will end.     *)
THEOREM NobodyIsForgotten == ScreenSpec => []WaitersAreAnswered
<1>1. ScreenInv => WaitersAreAnswered
  BY DEF ScreenInv, Attended, Reading, WaitersAreAnswered
<1>2. QED
  BY <1>1, ScreenInvariance, PTL
=============================================================================
