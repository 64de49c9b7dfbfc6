-------------------------- MODULE ContentWorkflow --------------------------
(***************************************************************************)
(* One item of learning content: its row, its version history, the vector  *)
(* of a question and the module of a track, and the requests that work on  *)
(* it at once: editors, admins and the seed importer.                      *)
(*                                                                         *)
(* Every operation reads the row first and writes in a transaction later.  *)
(* What keeps two of them apart is the unique key of content_versions: a   *)
(* transaction snapshots the item under the version its request had read.  *)
(* The seven kinds of item share this code; a question stands for them,    *)
(* and a track for the one whose modules are versioned with it.            *)
(***************************************************************************)
EXTENDS Integers

CONSTANTS
  Words,       \* what an item, a module or a file can say
  NoWords,     \* no vector, no module
  Requests,    \* what is being done at once
  Production,  \* NODE_ENV = "production"
  MaxVersion   \* bound: versions of the item

ASSUME ContentAssumption ==
  /\ NoWords \notin Words
  /\ Production \in BOOLEAN
  /\ MaxVersion \in Nat \ {0}

VARIABLES
  kind,       \* "questions" or "tracks", for good
  row,        \* the item
  history,    \* its content_versions
  vector,     \* the words a question's embedding was made of
  pc,         \* where each request is
  job,        \* what it is doing, and the row it read
  overtaken,  \* history: requests whose row had moved when they read it again
  muddled     \* history: has a sync been cut short, or had company?

vars == <<kind, row, history, vector, pc, job, overtaken, muddled>>

-----------------------------------------------------------------------------
(* unreviewed: ai_draft_unreviewed; seeded, moduleSeeded: seed_managed.    *)
Status == {"draft", "in_review", "published", "retired"}

Row == [status : Status, version : Nat, words : Words, module : Words \cup {NoWords},
        unreviewed : BOOLEAN, seeded : BOOLEAN, moduleSeeded : BOOLEAN]

Content(item) == [status |-> item.status, words |-> item.words, module |-> item.module]

Snapshot == [version : Nat, content : [status : Status, words : Words,
                                       module : Words \cup {NoWords}]]

(* What a request keeps of the row it read, and what writeSnapshot stores. *)
SnapshotOf(item) == [version |-> item.version, content |-> Content(item)]

Actor == [role : {"content_expert", "admin"}, drafted : {"cms", "human", "ai_draft"}]

InCms(role) == [role |-> role, drafted |-> "cms"]

SeedActor(author) == [role |-> "admin", drafted |-> author]

CmsActors == {InCms("content_expert"), InCms("admin")}

SeedActors == {SeedActor("human"), SeedActor("ai_draft")}

FromSeed(actor) == actor.drafted # "cms"

(* --force-published, --force.                                             *)
Insistence == {"no", "published", "yes"}

Job == [op : {"edit", "module", "move", "review", "embed"}, actor : Actor, to : Status,
        words : Words, insists : Insistence, read : Snapshot]

NoJob == [op |-> "none"]

Places == {"idle", "looked", "checked", "vouching", "syncing", "writing", "shown", "embedding"}

(* createQuestion and its like: by a person, or by the importer, which     *)
(* marks the row after the file's author.                                  *)
Created(actor, w) ==
  [status |-> "draft", version |-> 1, words |-> w, module |-> NoWords,
   unreviewed |-> actor.drafted = "ai_draft", seeded |-> FromSeed(actor),
   moduleSeeded |-> FALSE]

Init ==
  /\ kind \in {"questions", "tracks"}
  /\ \E actor \in CmsActors \cup SeedActors, w \in Words : row = Created(actor, w)
  /\ history = {} /\ vector = NoWords
  /\ pc = [r \in Requests |-> "idle"] /\ job = [r \in Requests |-> NoJob]
  /\ overtaken = {} /\ muddled = FALSE

-----------------------------------------------------------------------------
(* Guards *)

(* Mutant: an expert may edit what is published.                           *)
AnyoneMayEdit(actor, status) == TRUE

MayEdit(actor, status) == status # "published" \/ actor.role = "admin"

Rule == [submit          |-> [from |-> {"draft"}, to |-> "in_review",
                              roles |-> {"content_expert", "admin"}],
         return_to_draft |-> [from |-> {"in_review", "retired"}, to |-> "draft",
                              roles |-> {"content_expert", "admin"}],
         publish         |-> [from |-> {"in_review"}, to |-> "published", roles |-> {"admin"}],
         retire          |-> [from |-> {"published"}, to |-> "retired", roles |-> {"admin"}]]

Allowed(transition, status, role) ==
  role \in Rule[transition].roles /\ status \in Rule[transition].from

PublishNeedsReview(unreviewed, acknowledged) == Production /\ unreviewed /\ ~acknowledged

(* applyChange: words that differ are written to a row the files own, and  *)
(* not over what candidates read, unless forced.                           *)
MayWrite(seeded, insists) == seeded \/ insists = "yes"

(* Mutant: the importer writes over published rows unforced.               *)
NoPublishGuard(status, insists) == FALSE

PublishGuardApplies(status, insists) == status = "published" /\ insists = "no"

-----------------------------------------------------------------------------
(* Steps of a request *)

Room == row.version < MaxVersion

Starts(r, place, newJob) ==
  /\ pc[r] = "idle"
  /\ pc' = [pc EXCEPT ![r] = place]
  /\ job' = [job EXCEPT ![r] = newJob]

Goes(r, place) ==
  /\ pc' = [pc EXCEPT ![r] = place]
  /\ job' = [job EXCEPT ![r] = IF place = "idle" THEN NoJob ELSE @]
  /\ overtaken' = IF place = "idle" THEN overtaken \ {r} ELSE overtaken

Reads(r, place) ==
  /\ pc' = [pc EXCEPT ![r] = place]
  /\ job' = [job EXCEPT ![r].read = SnapshotOf(row)]
  /\ overtaken' = IF SnapshotOf(row) # job[r].read THEN overtaken \cup {r} ELSE overtaken

JobOf(op, actor, w, insists) ==
  [op |-> op, actor |-> actor, to |-> "draft", words |-> w, insists |-> insists,
   read |-> SnapshotOf(row)]

(* PUT of an item: the same content again is not written.                  *)
AskEdit(r) ==
  /\ Room
  /\ \E actor \in CmsActors, w \in Words \ {row.words} :
       MayEdit(actor, row.status) /\ Starts(r, "writing", JobOf("edit", actor, w, "no"))
  /\ UNCHANGED <<kind, row, history, vector, overtaken, muddled>>

(* A module rides on its track: createModule has read all it needs,        *)
(* updateModule reads the track a second time before it writes.            *)
AskModule(r) ==
  /\ Room /\ kind = "tracks"
  /\ \E actor \in CmsActors, w \in Words \ {row.module} :
       /\ MayEdit(actor, row.status)
       /\ Starts(r, IF row.module = NoWords THEN "writing" ELSE "checked",
                 JobOf("module", actor, w, "no"))
  /\ UNCHANGED <<kind, row, history, vector, overtaken, muddled>>

ReadTrack(r) ==
  /\ pc[r] = "checked"
  /\ Reads(r, "writing")
  /\ UNCHANGED <<kind, row, history, vector, muddled>>

AskMove(r) ==
  /\ Room
  /\ \E transition \in DOMAIN Rule, actor \in CmsActors, acknowledged \in BOOLEAN :
       /\ Allowed(transition, row.status, actor.role)
       /\ transition = "publish" => ~PublishNeedsReview(row.unreviewed, acknowledged)
       /\ Starts(r, "writing", [JobOf("move", actor, row.words, "no")
                                  EXCEPT !.to = Rule[transition].to])
  /\ UNCHANGED <<kind, row, history, vector, overtaken, muddled>>

AskReview(r) ==
  /\ Room /\ row.unreviewed
  /\ Starts(r, "writing", JobOf("review", InCms("content_expert"), row.words, "no"))
  /\ UNCHANGED <<kind, row, history, vector, overtaken, muddled>>

(* The importer looks at a row and decides; what it decides to update is   *)
(* read again by the update itself.                                        *)
Look(r) ==
  /\ Room
  /\ \E actor \in SeedActors, w \in Words, insists \in Insistence :
       /\ MayWrite(row.seeded, insists)
       /\ w # row.words => ~PublishGuardApplies(row.status, insists)
       /\ IF w = row.words
          THEN Starts(r, "vouching", JobOf("edit", actor, w, "no"))
          ELSE Starts(r, "looked", JobOf("edit", actor, w, insists))
  /\ UNCHANGED <<kind, row, history, vector, overtaken, muddled>>

(* A module has no status for the importer to guard by.  One it saw        *)
(* missing it creates, which fails if there is one by then.                *)
LookAtModule(r) ==
  /\ Room /\ kind = "tracks"
  /\ \E actor \in SeedActors, w \in Words \ {row.module}, insists \in Insistence :
       /\ row.module = NoWords \/ MayWrite(row.moduleSeeded, insists)
       /\ Starts(r, "looked", JobOf("module", actor, w, insists))
  /\ UNCHANGED <<kind, row, history, vector, overtaken, muddled>>

Same(r) == job[r].words = IF job[r].op = "module" THEN row.module ELSE row.words

UpdateLooked(r) ==
  /\ pc[r] = "looked"
  /\ \/ Same(r) /\ Goes(r, "idle")
     \/ /\ ~Same(r)
        /\ \/ job[r].op # "module" \/ row.module = NoWords
           \/ job[r].read.content.module # NoWords
        /\ Reads(r, IF job[r].op = "module" /\ row.module # NoWords
                    THEN "checked" ELSE "writing")
  /\ UNCHANGED <<kind, row, history, vector, muddled>>

Claim(r) == job[r].actor.drafted = "ai_draft"

(* syncSeedReviewState: no version, no snapshot, guarded on nothing.       *)
Vouch(r) ==
  /\ pc[r] = "vouching"
  /\ Goes(r, IF row.unreviewed = Claim(r) THEN "idle" ELSE "syncing")
  /\ UNCHANGED <<kind, row, history, vector, muddled>>

SyncReviewState(r) ==
  /\ pc[r] = "syncing"
  /\ row' = [row EXCEPT !.unreviewed = Claim(r)]
  /\ Goes(r, "idle")
  /\ UNCHANGED <<kind, history, vector, muddled>>

-----------------------------------------------------------------------------
(* Transactions *)

(* Mutant: a version may have two snapshots.                               *)
KeylessSnapshot(r) == history' = history \cup {job[r].read}

(* writeSnapshot, under the key (entity, version) and as the request read  *)
(* it: it fails if that version has been left before.                      *)
WriteSnapshot(r) ==
  /\ \A s \in history : s.version # job[r].read.version
  /\ history' = history \cup {job[r].read}

(* authorship: a person takes the row from the files and leaves the mark   *)
(* alone, the importer sets both.                                          *)
Authored(item, actor) ==
  [item EXCEPT !.seeded = FromSeed(actor),
               !.unreviewed = IF FromSeed(actor) THEN actor.drafted = "ai_draft" ELSE @]

Embedding(s) == pc[s] \in {"shown", "embedding"}

(* After the commit, a question's vector is made of what candidates read.  *)
Embeds(r, due, place) ==
  /\ Goes(r, IF due THEN place ELSE "idle")
  /\ muddled' = (muddled \/ (due /\ \E s \in Requests \ {r} : Embedding(s)))

CommitEdit(r) ==
  /\ pc[r] = "writing" /\ job[r].op = "edit"
  /\ WriteSnapshot(r)
  /\ row' = Authored([row EXCEPT !.words = job[r].words, !.version = @ + 1], job[r].actor)
  /\ Embeds(r, /\ kind = "questions" /\ row.status = "published"
               /\ job[r].words # job[r].read.content.words, "embedding")
  /\ UNCHANGED <<kind, vector>>

(* Mutant: a module is written without moving its track's version.         *)
QuietModule(r) ==
  /\ pc[r] = "writing" /\ job[r].op = "module"
  /\ WriteSnapshot(r)
  /\ row' = [row EXCEPT !.module = job[r].words, !.moduleSeeded = FromSeed(job[r].actor)]
  /\ Goes(r, "idle")
  /\ UNCHANGED <<kind, vector, muddled>>

CommitModule(r) ==
  /\ pc[r] = "writing" /\ job[r].op = "module"
  /\ WriteSnapshot(r)
  /\ row' = [row EXCEPT !.module = job[r].words, !.version = @ + 1,
                        !.moduleSeeded = FromSeed(job[r].actor)]
  /\ Goes(r, "idle")
  /\ UNCHANGED <<kind, vector, muddled>>

CommitMove(r) ==
  /\ pc[r] = "writing" /\ job[r].op = "move"
  /\ row.status = job[r].read.content.status /\ row.version = job[r].read.version
  /\ WriteSnapshot(r)
  /\ row' = [row EXCEPT !.status = job[r].to, !.version = @ + 1]
  /\ Embeds(r, kind = "questions" /\ job[r].to = "published", "shown")
  /\ UNCHANGED <<kind, vector>>

CommitReview(r) ==
  /\ pc[r] = "writing" /\ job[r].op = "review"
  /\ row.unreviewed
  /\ WriteSnapshot(r)
  /\ row' = [row EXCEPT !.unreviewed = FALSE, !.version = @ + 1]
  /\ Goes(r, "idle")
  /\ UNCHANGED <<kind, vector, muddled>>

(* A transaction that collides, a database or a process that fails.        *)
Fails(r) ==
  /\ pc[r] # "idle"
  /\ muddled' = (muddled \/ Embedding(r))
  /\ Goes(r, "idle")
  /\ UNCHANGED <<kind, row, history, vector>>

-----------------------------------------------------------------------------
(* Embeddings *)

(* A publication, and a batch, read the question again to embed it.        *)
ReadShown(r) ==
  /\ pc[r] = "shown"
  /\ pc' = [pc EXCEPT ![r] = "embedding"]
  /\ job' = [job EXCEPT ![r].words = row.words]
  /\ UNCHANGED <<kind, row, history, vector, overtaken, muddled>>

(* content:reembed works through the published questions with no vector.   *)
Reembed(r) ==
  /\ kind = "questions" /\ row.status = "published" /\ vector = NoWords
  /\ Starts(r, "shown", JobOf("embed", InCms("admin"), row.words, "no"))
  /\ muddled' = (muddled \/ \E s \in Requests : Embedding(s))
  /\ UNCHANGED <<kind, row, history, vector, overtaken>>

(* Mutant: a sync that has no vector to store leaves the one there was.    *)
StaleSync(r) ==
  /\ pc[r] = "embedding"
  /\ vector' \in {job[r].words, vector}
  /\ Goes(r, "idle")
  /\ UNCHANGED <<kind, row, history, muddled>>

(* sync: no vector from the worker, or none that could be stored, clears   *)
(* the one there was.                                                      *)
Sync(r) ==
  /\ pc[r] = "embedding"
  /\ vector' \in {job[r].words, NoWords}
  /\ Goes(r, "idle")
  /\ UNCHANGED <<kind, row, history, muddled>>

-----------------------------------------------------------------------------
Next ==
  \E r \in Requests :
    \/ AskEdit(r) \/ AskModule(r) \/ ReadTrack(r) \/ AskMove(r) \/ AskReview(r)
    \/ Look(r) \/ LookAtModule(r) \/ UpdateLooked(r) \/ Vouch(r) \/ SyncReviewState(r)
    \/ CommitEdit(r) \/ CommitModule(r) \/ CommitMove(r) \/ CommitReview(r) \/ Fails(r)
    \/ ReadShown(r) \/ Reembed(r) \/ Sync(r)

Spec == Init /\ [][Next]_vars

-----------------------------------------------------------------------------
(* Properties *)

TypeOK ==
  /\ kind \in {"questions", "tracks"}
  /\ row \in Row
  /\ history \subseteq Snapshot
  /\ vector \in Words \cup {NoWords}
  /\ pc \in [Requests -> Places]
  /\ job \in [Requests -> Job \cup {NoJob}]
  /\ \A r \in Requests : pc[r] # "idle" => job[r] \in Job
  /\ overtaken \subseteq Requests
  /\ muddled \in BOOLEAN

(* Nothing an item ever said, and no status it ever had, goes unrecorded:  *)
(* it changes only together with its version, and each time its history    *)
(* gains exactly what the item then was (ADR-0014 decision 2).             *)
HistoryIsWhole ==
  [][IF row'.version = row.version
     THEN Content(row') = Content(row) /\ history' = history
     ELSE /\ row'.version = row.version + 1
          /\ \A s \in history : s.version < row.version
          /\ history' = history \cup {SnapshotOf(row)}]_vars

Commits(r) == pc[r] = "writing" /\ row'.version # row.version /\ pc'[r] # "writing"

(* Two requests never act on one reading of an item: a publication, an     *)
(* edit or a review lands only on the very words and status its request    *)
(* last read, although only a move checks that it does.                    *)
DecidedOnWhatWasRead ==
  [][\A r \in Requests : Commits(r) => SnapshotOf(row) = job[r].read]_vars

(* What candidates are shown, the words of an item and the module of a     *)
(* track, is an admin's decision (ADR-0014 decisions 1 and 7): no expert's *)
(* request changes it in a published item or makes it public, even if the  *)
(* item was published between the request's check and its transaction.     *)
(* The exception is updateModule, which reads the track a second time      *)
(* after its check: a module's edit lands on a track that has moved in     *)
(* between, whatever it has become.                                        *)
ShownIsAdmins ==
  [][/\ row'.status = "published"
     /\ Content(row) # Content(row')
     => \E r \in Requests :
          /\ Commits(r)
          /\ job[r].actor.role = "admin" \/ (job[r].op = "module" /\ r \in overtaken)]_vars

(* An import that is not forced rewrites only rows the files own, and none *)
(* that candidates read (decisions 5 and 7), unless the row moved between  *)
(* the importer's look at it and the update's own.                         *)
FilesKnowTheirPlace ==
  [][\A r \in Requests :
       /\ Commits(r) /\ FromSeed(job[r].actor) /\ job[r].op = "edit"
       /\ r \notin overtaken
       => /\ row.seeded \/ job[r].insists = "yes"
          /\ row.status = "published" => job[r].insists # "no"]_vars

(* Absent rather than stale (question-embeddings.service): the vector of a *)
(* published question is of the words candidates read, unless a sync was   *)
(* cut short or ran beside another.                                        *)
PublishedVectorIsFresh ==
  /\ kind = "questions" /\ row.status = "published"
  /\ ~muddled /\ \A r \in Requests : ~Embedding(r)
  => vector \in {row.words, NoWords}
=============================================================================
