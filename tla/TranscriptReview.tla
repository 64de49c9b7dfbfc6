-------------------------- MODULE TranscriptReview --------------------------
(***************************************************************************)
(* Whose words a person may read: candidates decide, again and again, on   *)
(* the text of the transcript_review consent, and staff open and score the *)
(* answers of those who have granted it.                                   *)
(*                                                                         *)
(* Decisions are an append-only history of which the latest row by         *)
(* created_at counts, and only if it granted the current version of the    *)
(* text.  No lock is held over the look at the history and the write, nor  *)
(* over the list of who has granted and the read of an answer, so every    *)
(* query is a step of its own.                                             *)
(***************************************************************************)
EXTENDS Naturals

CONSTANTS Users,        \* each has been interviewed and had an answer scored
          Requests,     \* what the API can be doing at once
          MaxVersion    \* bound: how often the text is reworded

ASSUME ReviewAssumption == MaxVersion \in Nat \ {0}

Versions == 1 .. MaxVersion

VARIABLES
  latest,    \* the row of each user's history that counts, if there is one
  version,   \* CONSENT_VERSIONS.transcript_review of the running API
  open,      \* CALIBRATION_ALLOW_CANDIDATE_TRANSCRIPTS
  staff,     \* the users whose role is admin or content_expert
  audited,   \* who is on record as having read whose answer
  scores,    \* who has scored whose answer
  job,       \* what each request is doing
  settled,   \* history: what each user last made clear
  seen       \* history: what has been so at some time during each request

vars == <<latest, version, open, staff, audited, scores, job, settled, seen>>

-----------------------------------------------------------------------------
NoRow == [granted |-> FALSE, version |-> 0]     \* never decided

Row == [granted : BOOLEAN, version : Versions] \cup {NoRow}

Listings == {"queue", "flags"}
Kinds == Listings \cup {"answer", "score"}

(* A decision: alone until another of the same user's is in flight too,    *)
(* overtaken once another's row was written after it began.                *)
Decision == [step : {"look", "write"}, user : Users, granted : BOOLEAN,
             previous : Row, alone : BOOLEAN, overtaken : BOOLEAN]

(* A reviewer's request; author is whose answer was asked for, ids are the *)
(* authors found eligible so far.                                          *)
Review == [step : {"consents", "roles", "find", "record"}, kind : Kinds,
           reviewer : Users, author : Users, ids : SUBSET Users]

Idle == [step |-> "idle"]

IsDecision(j) == j.step \in {"look", "write"}

Deciding(u) == {r \in Requests : IsDecision(job[r]) /\ job[r].user = u}

(* Mutant: a yes to an older wording still counts.                         *)
AnyGrant(row) == row.granted

isCurrentGrant(row) == row.granted /\ row.version = version

usersGranting == {u \in Users : isCurrentGrant(latest[u])}

(* Who has not made it clear that they are unwilling, and whose answers    *)
(* the owner lets be read at all.                                          *)
Now == [willing |-> {u \in Users : settled[u] # "no"},
        allowed |-> IF open THEN Users ELSE staff]

Init ==
  /\ latest = [u \in Users |-> NoRow]
  /\ version = 1
  /\ open \in BOOLEAN
  /\ staff \in SUBSET Users
  /\ audited = {}
  /\ scores = {}
  /\ job = [r \in Requests |-> Idle]
  /\ settled = [u \in Users |-> "no"]
  /\ seen = [r \in Requests |-> Now]

-----------------------------------------------------------------------------
(* update: the decision is on the current text, or it is refused outright. *)
Decide(r, u, granted) ==
  /\ job[r] = Idle
  /\ LET others == Deciding(u)
     IN  /\ job' = [s \in Requests |->
              IF s = r THEN [step |-> "look", user |-> u, granted |-> granted,
                             previous |-> NoRow, alone |-> others = {},
                             overtaken |-> FALSE]
              ELSE IF s \in others THEN [job[s] EXCEPT !.alone = FALSE]
              ELSE job[s]]
         /\ settled' = IF others = {} THEN settled
                       ELSE [settled EXCEPT ![u] = "unclear"]
  /\ UNCHANGED <<latest, version, open, staff, audited, scores>>

(* The transaction reads the row that counts as it begins its work.        *)
ReadLatest(r) ==
  /\ job[r].step = "look"
  /\ job' = [job EXCEPT ![r].step = "write", ![r].previous = latest[job[r].user]]
  /\ UNCHANGED <<latest, version, open, staff, audited, scores, settled>>

(* Mutant: the same answer is the same decision, whatever the text says.   *)
SameAnswer(previous, granted) == previous # NoRow /\ previous.granted = granted

Unchanged(previous, granted) ==
  previous # NoRow /\ previous.granted = granted /\ previous.version = version

(* ... and appends the decision if it differs.  created_at lies somewhere  *)
(* between the request's beginning and its commit, so that the new row is  *)
(* the latest unless another was written meanwhile, when it may be either. *)
WriteDecision(r) ==
  LET u == job[r].user
      granted == job[r].granted
      skip == Unchanged(job[r].previous, granted)
      row == [granted |-> granted, version |-> version]
  IN  /\ job[r].step = "write"
      /\ \/ skip /\ UNCHANGED latest
         \/ ~skip /\ latest' = [latest EXCEPT ![u] = row]
         \/ ~skip /\ job[r].overtaken /\ UNCHANGED latest
      /\ job' = [s \in Requests |->
           IF s = r THEN Idle
           ELSE IF s \in Deciding(u) /\ ~skip THEN [job[s] EXCEPT !.overtaken = TRUE]
           ELSE job[s]]
      /\ settled' = IF job[r].alone
                    THEN [settled EXCEPT ![u] = IF granted THEN "yes" ELSE "no"]
                    ELSE settled
      /\ UNCHANGED <<version, open, staff, audited, scores>>

-----------------------------------------------------------------------------
(* queue, flags, answer and score, each by somebody who is on the staff as *)
(* the request comes in; a listing asks for nobody's in particular.        *)
Ask(r, kind, reviewer, author) ==
  /\ job[r] = Idle
  /\ kind \in Listings => author = reviewer
  /\ reviewer \in staff
  /\ job' = [job EXCEPT ![r] =
       [step |-> "consents", kind |-> kind, reviewer |-> reviewer, author |-> author,
        ids |-> {}]]
  /\ UNCHANGED <<latest, version, open, staff, audited, scores, settled>>

(* eligibleAuthors, its first query: all who have granted the text.        *)
FindConsenting(r) ==
  /\ job[r].step = "consents"
  /\ LET next == IF usersGranting = {} \/ open THEN "find" ELSE "roles"
     IN  job' = [job EXCEPT ![r].step = next, ![r].ids = usersGranting]
  /\ UNCHANGED <<latest, version, open, staff, audited, scores, settled>>

(* Its second, while the owner's gate is closed.                           *)
NarrowToStaff(r) ==
  /\ job[r].step = "roles"
  /\ job' = [job EXCEPT ![r].step = "find", ![r].ids = @ \cap staff]
  /\ UNCHANGED <<latest, version, open, staff, audited, scores, settled>>

(* The authors whose answers the last query brings up: flags does not      *)
(* leave out the reviewer's own, and neither listing shows what was said.  *)
Found(j) ==
  CASE j.kind = "flags" -> j.ids
    [] j.kind = "queue" -> j.ids \ {j.reviewer}
    [] OTHER -> (j.ids \ {j.reviewer}) \cap {j.author}

Find(r) ==
  /\ job[r].step = "find"
  /\ job' = [job EXCEPT ![r] =
       IF job[r].kind \in Listings \/ Found(job[r]) = {}   \* listed, or 404
       THEN Idle
       ELSE [@ EXCEPT !.step = "record", !.ids = {}]]
  /\ UNCHANGED <<latest, version, open, staff, audited, scores, settled>>

(* answer: the read goes on record before the words go out.                *)
RecordRead(r) ==
  /\ job[r].step = "record" /\ job[r].kind = "answer"
  /\ audited' = audited \cup {<<job[r].reviewer, job[r].author>>}
  /\ job' = [job EXCEPT ![r] = Idle]
  /\ UNCHANGED <<latest, version, open, staff, scores, settled>>

(* score: one per reviewer and answer, with its audit row; it stays in the *)
(* agreement figures whatever the author decides later.                    *)
StoreScore(r) ==
  /\ job[r].step = "record" /\ job[r].kind = "score"
  /\ scores' = scores \cup {<<job[r].reviewer, job[r].author>>}
  /\ job' = [job EXCEPT ![r] = Idle]
  /\ UNCHANGED <<latest, version, open, staff, audited, settled>>

-----------------------------------------------------------------------------
(* setUserRole, from the command line.                                     *)
SetRole(u) ==
  /\ staff' = IF u \in staff THEN staff \ {u} ELSE staff \cup {u}
  /\ UNCHANGED <<latest, version, open, audited, scores, job, settled>>

(* The API stops with whatever it was doing and comes back, perhaps with a *)
(* new wording, to which nobody has said yes, or with the gate moved.      *)
Restart(v, gate) ==
  /\ v \in {version, version + 1} \cap Versions
  /\ version' = v
  /\ open' = gate
  /\ job' = [r \in Requests |-> Idle]
  /\ settled' = IF v = version THEN settled ELSE [u \in Users |-> "no"]
  /\ UNCHANGED <<latest, staff, audited, scores>>

Step ==
  \/ \E r \in Requests, u \in Users, granted \in BOOLEAN : Decide(r, u, granted)
  \/ \E r \in Requests, k \in Kinds, reviewer, author \in Users : Ask(r, k, reviewer, author)
  \/ \E r \in Requests :
       \/ ReadLatest(r) \/ WriteDecision(r)
       \/ FindConsenting(r) \/ NarrowToStaff(r) \/ Find(r)
       \/ RecordRead(r) \/ StoreScore(r)
  \/ \E u \in Users : SetRole(u)
  \/ \E v \in Versions, gate \in BOOLEAN : Restart(v, gate)

(* History: what held at some time since each review began.                *)
Watch ==
  seen' = [r \in Requests |->
    IF job'[r].step \notin {"consents", "roles", "find"} THEN Now'
    ELSE [willing |-> seen[r].willing \cup Now.willing',
          allowed |-> seen[r].allowed \cup Now.allowed']]

Next == Step /\ Watch

Spec == Init /\ [][Next]_vars

-----------------------------------------------------------------------------
TypeOK ==
  /\ latest \in [Users -> Row]
  /\ version \in Versions
  /\ open \in BOOLEAN
  /\ staff \subseteq Users
  /\ audited \subseteq Users \X Users
  /\ scores \subseteq Users \X Users
  /\ job \in [Requests -> Decision \cup Review \cup {Idle}]
  /\ settled \in [Users -> {"yes", "no", "unclear"}]
  /\ seen \in [Requests -> [willing : SUBSET Users, allowed : SUBSET Users]]

(* What counts is what the candidate last said: however often they change  *)
(* their mind, and whatever the wording does in between, a decision made   *)
(* on its own is the one isCurrentGrant reports, though nothing is written *)
(* when it looks the same as before (update's filter) and the order of the *)
(* rows is that of their stamps.                                           *)
DecisionsStand ==
  \A u \in Users :
    settled[u] # "unclear" => (isCurrentGrant(latest[u]) <=> settled[u] = "yes")

(* What the last query of a review would bring up at any time is no answer *)
(* of anybody who, all the while the request ran, had settled on no or had *)
(* not said yes to the present wording, nor, with the owner's gate closed, *)
(* of anybody who was at no time of it on the staff.                       *)
NoMeansNo ==
  \A r \in Requests :
    job[r].step = "find" =>
      /\ Found(job[r]) \subseteq seen[r].willing
      /\ Found(job[r]) \subseteq seen[r].allowed
=============================================================================
