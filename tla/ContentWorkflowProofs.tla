----------------------- MODULE ContentWorkflowProofs -----------------------
(***************************************************************************)
(* What holds of an item of content for any words, any number of requests  *)
(* and any number of versions.                                             *)
(***************************************************************************)
EXTENDS ContentWorkflow, TLAPS

-----------------------------------------------------------------------------
(* The inductive invariant. *)

(* Every version left behind has its snapshot, and no other has one.       *)
HistoryInv ==
  /\ row.version >= 1
  /\ \A s \in history : s.version < row.version
  /\ \A v \in 1 .. row.version - 1 : \E s \in history : s.version = v

(* A request's reading is of a version there was, and of the item itself   *)
(* as long as the version has not moved.                                   *)
ReadInv ==
  \A r \in Requests : pc[r] # "idle" =>
    /\ job[r].read.version \in 1 .. row.version
    /\ job[r].read.version = row.version => job[r].read = SnapshotOf(row)

(* What a request was allowed to do when it was checked.                   *)
RightInv ==
  \A r \in Requests : pc[r] # "idle" =>
    /\ job[r].op \in {"edit", "module"} =>
         \/ job[r].actor.role = "admin"
         \/ /\ pc[r] # "looked"
            /\ \/ job[r].read.content.status # "published"
               \/ job[r].op = "module" /\ r \in overtaken
    /\ pc[r] = "checked" => job[r].op = "module"
    /\ job[r].op = "move" /\ job[r].to = "published" => job[r].actor.role = "admin"

(* What the importer found before it set out to update a row.              *)
SeedInv ==
  \A r \in Requests :
    /\ pc[r] \in {"idle", "looked"} => r \notin overtaken
    /\ /\ pc[r] \in {"looked", "writing"} /\ job[r].op = "edit" /\ FromSeed(job[r].actor)
       /\ r \notin overtaken /\ job[r].read.version = row.version
       => /\ row.seeded \/ job[r].insists = "yes"
          /\ row.status = "published" => job[r].insists # "no"

(* As long as no sync was cut short or had company, the one on its way is  *)
(* of the words shown.                                                     *)
VectorInv ==
  ~muddled =>
    /\ \A r, s \in Requests : Embedding(r) /\ Embedding(s) => r = s
    /\ kind = "questions" /\ row.status = "published" =>
         /\ \A r \in Requests : pc[r] = "embedding" => job[r].words = row.words
         /\ (\A r \in Requests : ~Embedding(r)) => vector \in {row.words, NoWords}

IInv == TypeOK /\ HistoryInv /\ ReadInv /\ RightInv /\ SeedInv /\ VectorInv

-----------------------------------------------------------------------------
(* The pieces steps are made of. *)

(* What is kept of an item is a snapshot of it.                            *)
LEMMA SnapshotTyped ==
  ASSUME NEW item \in Row
  PROVE  /\ SnapshotOf(item) \in Snapshot
         /\ SnapshotOf(item).version = item.version
         /\ SnapshotOf(item).content = Content(item)
         /\ SnapshotOf(item).content.status = item.status
         /\ SnapshotOf(item).content.words = item.words
  BY DEF SnapshotOf, Snapshot, Content, Row

(* A request asked for is a job, on the row as it is.                      *)
LEMMA JobTyped ==
  ASSUME TypeOK, NEW op \in {"edit", "module", "move", "review", "embed"},
         NEW actor \in Actor, NEW w \in Words, NEW insists \in Insistence
  PROVE  /\ JobOf(op, actor, w, insists) \in Job
         /\ JobOf(op, actor, w, insists).op = op
         /\ JobOf(op, actor, w, insists).actor = actor
         /\ JobOf(op, actor, w, insists).words = w
         /\ JobOf(op, actor, w, insists).insists = insists
         /\ JobOf(op, actor, w, insists).to = "draft"
         /\ JobOf(op, actor, w, insists).read = SnapshotOf(row)
<1>1. SnapshotOf(row) \in Snapshot
  BY SnapshotTyped DEF TypeOK
<1>2. "draft" \in Status
  BY DEF Status
<1>3. QED
  BY <1>1, <1>2 DEF JobOf, Job

(* Everyone who acts is an actor; who acts for the files is an admin.      *)
LEMMA ActorsTyped ==
  /\ CmsActors \subseteq Actor /\ SeedActors \subseteq Actor
  /\ \A a \in SeedActors : a.role = "admin" /\ FromSeed(a)
  /\ \A a \in CmsActors : ~FromSeed(a)
  /\ \A role \in {"content_expert", "admin"} : InCms(role) \in CmsActors
  BY DEF CmsActors, SeedActors, Actor, InCms, SeedActor, FromSeed

(* A request that starts leaves the others where they are.                 *)
LEMMA StartsDoes ==
  ASSUME TypeOK, NEW r \in Requests, NEW place \in Places, NEW j \in Job,
         Starts(r, place, j)
  PROVE  /\ pc[r] = "idle" /\ pc'[r] = place /\ job'[r] = j
         /\ pc' \in [Requests -> Places] /\ job' \in [Requests -> Job \cup {NoJob}]
         /\ \A s \in Requests : s # r => pc'[s] = pc[s] /\ job'[s] = job[s]
  BY DEF Starts, TypeOK

(* So does one that moves on; only ending, it lets go of its job.          *)
LEMMA GoesDoes ==
  ASSUME TypeOK, NEW r \in Requests, NEW place \in Places, Goes(r, place)
  PROVE  /\ pc'[r] = place /\ (place # "idle" => job'[r] = job[r])
         /\ pc' \in [Requests -> Places] /\ job' \in [Requests -> Job \cup {NoJob}]
         /\ \A s \in Requests : s # r => pc'[s] = pc[s] /\ job'[s] = job[s]
         /\ overtaken' = IF place = "idle" THEN overtaken \ {r} ELSE overtaken
  BY DEF Goes, TypeOK

(* One that reads keeps its job, with the row as it is.                    *)
LEMMA ReadsDoes ==
  ASSUME TypeOK, NEW r \in Requests, NEW place \in Places, pc[r] # "idle", Reads(r, place)
  PROVE  /\ pc'[r] = place
         /\ job'[r] = [job[r] EXCEPT !.read = SnapshotOf(row)]
         /\ job'[r] \in Job
         /\ pc' \in [Requests -> Places] /\ job' \in [Requests -> Job \cup {NoJob}]
         /\ \A s \in Requests : s # r => pc'[s] = pc[s] /\ job'[s] = job[s]
<1>1. SnapshotOf(row) \in Snapshot
  BY SnapshotTyped DEF TypeOK
<1>2. job[r] \in Job
  BY DEF TypeOK
<1>3. [job[r] EXCEPT !.read = SnapshotOf(row)] \in Job
  BY <1>1, <1>2 DEF Job
<1>4. QED
  BY <1>3 DEF Reads, TypeOK

-----------------------------------------------------------------------------
(* The kinds of step. *)

(* One request sets out: nothing is written yet.                           *)
Begins(r) ==
  \/ AskEdit(r) \/ AskModule(r) \/ AskMove(r) \/ AskReview(r)
  \/ Look(r) \/ LookAtModule(r) \/ Reembed(r)

Commit(r) == CommitEdit(r) \/ CommitModule(r) \/ CommitMove(r) \/ CommitReview(r)

(* A request begins with a job on the row as it is, allowed to do it.      *)
LEMMA BeginsDoes ==
  ASSUME TypeOK, NEW r \in Requests, Begins(r)
  PROVE  /\ UNCHANGED <<kind, row, history, vector, overtaken>>
         /\ \E place \in Places, j \in Job :
           /\ Starts(r, place, j)
           /\ place \in {"looked", "checked", "vouching", "writing", "shown"}
           /\ j.read = SnapshotOf(row)
           /\ j.op \in {"edit", "module"} =>
                (j.actor.role = "admin" \/ (place # "looked" /\ row.status # "published"))
           /\ place = "checked" => j.op = "module"
           /\ j.op = "move" /\ j.to = "published" => j.actor.role = "admin"
           /\ j.op = "edit" /\ FromSeed(j.actor) /\ place \in {"looked", "writing"} =>
                /\ row.seeded \/ j.insists = "yes"
                /\ row.status = "published" => j.insists # "no"
           /\ muddled' = (muddled \/ (place = "shown" /\ \E s \in Requests : Embedding(s)))
<1> USE DEF Places
<1>0. /\ "no" \in Insistence /\ row.words \in Words /\ row \in Row /\ muddled \in BOOLEAN
  BY DEF Insistence, TypeOK, Row
<1>1. CASE AskEdit(r)
  <2>1. PICK actor \in CmsActors, w \in Words :
          MayEdit(actor, row.status) /\ Starts(r, "writing", JobOf("edit", actor, w, "no"))
    BY <1>1 DEF AskEdit
  <2>2. actor \in Actor /\ ~FromSeed(actor)
    BY <2>1, ActorsTyped
  <2>3. QED
    BY <1>0, <1>1, <2>1, <2>2, JobTyped DEF AskEdit, MayEdit
<1>2. CASE AskModule(r)
  <2>1. PICK actor \in CmsActors, w \in Words, place \in {"writing", "checked"} :
          MayEdit(actor, row.status) /\ Starts(r, place, JobOf("module", actor, w, "no"))
    BY <1>2 DEF AskModule
  <2>2. actor \in Actor
    BY <2>1, ActorsTyped
  <2>3. QED
    BY <1>0, <1>2, <2>1, <2>2, JobTyped, ActorsTyped DEF AskModule, MayEdit
<1>3. CASE AskMove(r)
  <2>1. PICK transition \in DOMAIN Rule, actor \in CmsActors :
          /\ Allowed(transition, row.status, actor.role)
          /\ Starts(r, "writing", [JobOf("move", actor, row.words, "no")
                                     EXCEPT !.to = Rule[transition].to])
    BY <1>3 DEF AskMove
  <2> DEFINE j == [JobOf("move", actor, row.words, "no") EXCEPT !.to = Rule[transition].to]
  <2>2. actor \in Actor
    BY <2>1, ActorsTyped
  <2>3. /\ Rule[transition].to \in Status
        /\ Rule[transition].to = "published" => Rule[transition].roles = {"admin"}
    BY <2>1 DEF Rule, Status
  <2>4. JobOf("move", actor, row.words, "no") \in Job
    BY <1>0, <2>2, JobTyped
  <2>5. /\ j \in Job /\ j.op = "move" /\ j.actor = actor /\ j.to = Rule[transition].to
        /\ j.read = SnapshotOf(row)
    BY <1>0, <2>2, <2>3, <2>4, JobTyped DEF Job
  <2>6. j.to = "published" => actor.role = "admin"
    BY <2>1, <2>3, <2>5 DEF Allowed
  <2>7. QED
    BY <1>0, <1>3, <2>1, <2>5, <2>6 DEF AskMove
<1>4. CASE AskReview(r)
  <2>1. InCms("content_expert") \in Actor
    BY ActorsTyped
  <2>2. QED
    BY <1>0, <1>4, <2>1, JobTyped DEF AskReview
<1>5. CASE Look(r)
  <2>1. PICK actor \in SeedActors, w \in Words, insists \in Insistence :
          /\ MayWrite(row.seeded, insists)
          /\ w # row.words => ~PublishGuardApplies(row.status, insists)
          /\ IF w = row.words
             THEN Starts(r, "vouching", JobOf("edit", actor, w, "no"))
             ELSE Starts(r, "looked", JobOf("edit", actor, w, insists))
    BY <1>5 DEF Look
  <2>2. actor \in Actor /\ actor.role = "admin"
    BY <2>1, ActorsTyped
  <2>3. CASE w = row.words
    BY <1>0, <1>5, <2>1, <2>2, <2>3, JobTyped DEF Look
  <2>4. CASE w # row.words
    BY <1>0, <1>5, <2>1, <2>2, <2>4, JobTyped DEF Look, MayWrite, PublishGuardApplies
  <2>5. QED
    BY <2>3, <2>4
<1>6. CASE LookAtModule(r)
  <2>1. PICK actor \in SeedActors, w \in Words, insists \in Insistence :
          Starts(r, "looked", JobOf("module", actor, w, insists))
    BY <1>6 DEF LookAtModule
  <2>2. actor \in Actor /\ actor.role = "admin"
    BY <2>1, ActorsTyped
  <2>3. QED
    BY <1>0, <1>6, <2>1, <2>2, JobTyped DEF LookAtModule
<1>7. CASE Reembed(r)
  <2>1. InCms("admin") \in Actor
    BY ActorsTyped
  <2>2. QED
    BY <1>0, <1>7, <2>1, JobTyped DEF Reembed
<1>8. QED
  BY <1>1, <1>2, <1>3, <1>4, <1>5, <1>6, <1>7 DEF Begins

(* What a transaction makes of an item is an item, one version on.         *)
LEMMA WrittenTyped ==
  ASSUME NEW item \in Row, NEW to \in Status, NEW w \in Words, NEW actor \in Actor
  PROVE  /\ [item EXCEPT !.words = w, !.version = @ + 1] \in Row
         /\ [item EXCEPT !.status = to, !.version = @ + 1] \in Row
         /\ [item EXCEPT !.unreviewed = FALSE, !.version = @ + 1] \in Row
         /\ [item EXCEPT !.module = w, !.version = @ + 1,
                         !.moduleSeeded = FromSeed(actor)] \in Row
         /\ Authored(item, actor) \in Row
         /\ Authored(item, actor).version = item.version
         /\ Authored(item, actor).words = item.words
         /\ Authored(item, actor).status = item.status
         /\ Authored(item, actor).module = item.module
<1>1. item.version + 1 \in Nat
  BY DEF Row
<1>2. /\ FromSeed(actor) \in BOOLEAN
      /\ (actor.drafted = "ai_draft") \in BOOLEAN
  BY Zenon DEF FromSeed
<1>3. [item EXCEPT !.words = w, !.version = @ + 1] \in Row
  BY <1>1 DEF Row
<1>4. [item EXCEPT !.status = to, !.version = @ + 1] \in Row
  BY <1>1 DEF Row
<1>5. [item EXCEPT !.unreviewed = FALSE, !.version = @ + 1] \in Row
  BY <1>1 DEF Row
<1>6. ASSUME NEW b \in BOOLEAN
      PROVE  [item EXCEPT !.module = w, !.version = @ + 1, !.moduleSeeded = b] \in Row
  BY <1>1 DEF Row
<1>7. ASSUME NEW b \in BOOLEAN, NEW c \in BOOLEAN
      PROVE  /\ [item EXCEPT !.seeded = b, !.unreviewed = c] \in Row
             /\ [item EXCEPT !.seeded = b, !.unreviewed = c].version = item.version
             /\ [item EXCEPT !.seeded = b, !.unreviewed = c].words = item.words
             /\ [item EXCEPT !.seeded = b, !.unreviewed = c].status = item.status
             /\ [item EXCEPT !.seeded = b, !.unreviewed = c].module = item.module
  BY DEF Row
<1>8. item.unreviewed \in BOOLEAN
  BY DEF Row
<1>9. (IF FromSeed(actor) THEN actor.drafted = "ai_draft" ELSE item.unreviewed) \in BOOLEAN
  BY <1>2, <1>8, Zenon
<1>10. QED
  BY <1>2, <1>3, <1>4, <1>5, <1>6, <1>7, <1>9 DEF Authored

(* What each transaction writes.                                           *)
LEMMA CommitWrites ==
  ASSUME TypeOK, NEW r \in Requests, Commit(r), job[r] \in Job
  PROVE  /\ row' \in Row /\ row'.version = row.version + 1
         /\ CommitEdit(r) => row'.words = job[r].words /\ row'.status = row.status
         /\ ~CommitEdit(r) => row'.words = row.words
         /\ CommitMove(r) => row'.status = job[r].to
         /\ ~CommitMove(r) => row'.status = row.status
<1>1. row \in Row
  BY DEF TypeOK
<1>2. /\ job[r].words \in Words /\ job[r].to \in Status /\ job[r].actor \in Actor
      /\ job[r].op \in {"edit", "module", "move", "review", "embed"}
  BY DEF Job
<1>3. CASE CommitEdit(r)
  <2> DEFINE item == [row EXCEPT !.words = job[r].words, !.version = @ + 1]
  <2>1. item \in Row /\ item.version = row.version + 1 /\ item.words = job[r].words
        /\ item.status = row.status
    BY <1>1, <1>2, WrittenTyped DEF Row
  <2>2. row' = Authored(item, job[r].actor) /\ job[r].op = "edit"
    BY <1>3 DEF CommitEdit
  <2>3. row' \in Row /\ row'.version = row.version + 1 /\ row'.words = job[r].words
        /\ row'.status = row.status
    BY <1>2, <2>1, <2>2, WrittenTyped
  <2>4. ~CommitMove(r)
    BY <2>2 DEF CommitMove
  <2>5. QED
    BY <1>3, <2>3, <2>4
<1>4. CASE CommitModule(r)
  <2>1. job[r].op = "module" /\ ~CommitMove(r) /\ ~CommitEdit(r)
    BY <1>4 DEF CommitModule, CommitMove, CommitEdit
  <2>2. row' = [row EXCEPT !.module = job[r].words, !.version = @ + 1,
                           !.moduleSeeded = FromSeed(job[r].actor)]
    BY <1>4 DEF CommitModule
  <2>3. row' \in Row
    BY <1>1, <1>2, <2>2, WrittenTyped
  <2>4. QED
    BY <1>1, <2>1, <2>2, <2>3 DEF Row
<1>5. CASE CommitMove(r)
  <2>1. job[r].op = "move" /\ ~CommitEdit(r)
    BY <1>5 DEF CommitMove, CommitEdit
  <2>2. row' = [row EXCEPT !.status = job[r].to, !.version = @ + 1]
    BY <1>5 DEF CommitMove
  <2>3. row' \in Row
    BY <1>1, <1>2, <2>2, WrittenTyped
  <2>4. QED
    BY <1>1, <1>5, <2>1, <2>2, <2>3 DEF Row
<1>6. CASE CommitReview(r)
  <2>1. job[r].op = "review" /\ ~CommitMove(r) /\ ~CommitEdit(r)
    BY <1>6 DEF CommitReview, CommitMove, CommitEdit
  <2>2. row' = [row EXCEPT !.unreviewed = FALSE, !.version = @ + 1]
    BY <1>6 DEF CommitReview
  <2>3. row' \in Row
    BY <1>1, <1>2, <2>2, WrittenTyped
  <2>4. QED
    BY <1>1, <2>1, <2>2, <2>3 DEF Row
<1>7. QED
  BY <1>3, <1>4, <1>5, <1>6 DEF Commit

(* A transaction that goes through is on the row its request had read, and *)
(* puts exactly that row into the history.                                 *)
LEMMA CommitDoes ==
  ASSUME IInv, NEW r \in Requests, Commit(r)
  PROVE  /\ pc[r] = "writing" /\ job[r] \in Job
         /\ job[r].read = SnapshotOf(row)
         /\ history' = history \cup {SnapshotOf(row)}
         /\ row' \in Row /\ row'.version = row.version + 1
         /\ UNCHANGED <<kind, vector>>
         /\ \E place \in {"idle", "shown", "embedding"} : Goes(r, place)
<1>1. pc[r] = "writing"
  BY DEF Commit, CommitEdit, CommitModule, CommitMove, CommitReview
<1>2. /\ job[r] \in Job /\ row \in Row
      /\ job[r].read.version \in 1 .. row.version
      /\ job[r].read.version = row.version => job[r].read = SnapshotOf(row)
  BY <1>1 DEF IInv, TypeOK, ReadInv
<1>3. WriteSnapshot(r)
  BY DEF Commit, CommitEdit, CommitModule, CommitMove, CommitReview
<1>4. job[r].read.version \notin 1 .. row.version - 1
  BY <1>3 DEF WriteSnapshot, IInv, HistoryInv
<1>5. job[r].read = SnapshotOf(row)
  BY <1>2, <1>4 DEF Row
<1>6. row' \in Row /\ row'.version = row.version + 1
  BY <1>2, CommitWrites DEF IInv
<1>7. \E place \in {"idle", "shown", "embedding"} : Goes(r, place)
  BY DEF Commit, CommitEdit, CommitModule, CommitMove, CommitReview, Embeds
<1>8. UNCHANGED <<kind, vector>>
  BY DEF Commit, CommitEdit, CommitModule, CommitMove, CommitReview
<1>9. QED
  BY <1>1, <1>2, <1>3, <1>5, <1>6, <1>7, <1>8 DEF WriteSnapshot

-----------------------------------------------------------------------------
(* IInv is inductive. *)

(* It holds of an item just created.                                       *)
LEMMA InitInv == Init => IInv
<1> SUFFICES ASSUME Init PROVE IInv
  OBVIOUS
<1>1. PICK actor \in CmsActors \cup SeedActors, w \in Words : row = Created(actor, w)
  BY DEF Init
<1>2. /\ (actor.drafted = "ai_draft") \in BOOLEAN /\ FromSeed(actor) \in BOOLEAN
  BY Zenon DEF FromSeed
<1>3. ASSUME NEW b \in BOOLEAN, NEW c \in BOOLEAN
      PROVE  [status |-> "draft", version |-> 1, words |-> w, module |-> NoWords,
              unreviewed |-> b, seeded |-> c, moduleSeeded |-> FALSE] \in Row
  BY DEF Row, Status
<1>4. row \in Row /\ row.version = 1
  BY <1>1, <1>2, <1>3 DEF Created
<1>5. TypeOK
  BY <1>4 DEF Init, TypeOK, Places
<1>6. HistoryInv /\ ReadInv /\ RightInv /\ SeedInv
  BY <1>4 DEF Init, HistoryInv, ReadInv, RightInv, SeedInv
<1>7. VectorInv
  BY DEF Init, VectorInv, Embedding
<1>8. QED
  BY <1>5, <1>6, <1>7 DEF IInv

(* A request that begins keeps it.                                         *)
LEMMA BeginsKeeps ==
  ASSUME IInv, NEW r \in Requests, Begins(r)
  PROVE  IInv'
<1>1. TypeOK /\ row \in Row /\ UNCHANGED <<kind, row, history, vector, overtaken>>
  BY BeginsDoes DEF IInv, TypeOK
<1>2. PICK place \in Places, j \in Job :
           /\ Starts(r, place, j)
           /\ place \in {"looked", "checked", "vouching", "writing", "shown"}
           /\ j.read = SnapshotOf(row)
           /\ j.op \in {"edit", "module"} =>
                (j.actor.role = "admin" \/ (place # "looked" /\ row.status # "published"))
           /\ place = "checked" => j.op = "module"
           /\ j.op = "move" /\ j.to = "published" => j.actor.role = "admin"
           /\ j.op = "edit" /\ FromSeed(j.actor) /\ place \in {"looked", "writing"} =>
                /\ row.seeded \/ j.insists = "yes"
                /\ row.status = "published" => j.insists # "no"
           /\ muddled' = (muddled \/ (place = "shown" /\ \E s \in Requests : Embedding(s)))
  BY <1>1, BeginsDoes
<1>3. /\ pc[r] = "idle" /\ pc'[r] = place /\ job'[r] = j
      /\ pc' \in [Requests -> Places] /\ job' \in [Requests -> Job \cup {NoJob}]
      /\ \A s \in Requests : s # r => pc'[s] = pc[s] /\ job'[s] = job[s]
  BY <1>1, <1>2, StartsDoes
<1>4. TypeOK'
  <2>1. muddled' \in BOOLEAN
    BY <1>2, Zenon
  <2>2. QED
    BY <1>1, <1>3, <2>1 DEF TypeOK
<1>5. HistoryInv'
  BY <1>1 DEF IInv, HistoryInv
<1>6. ReadInv'
  <2>1. row.version \in 1 .. row.version
    BY <1>1 DEF IInv, HistoryInv, Row
  <2>2. j.read.version = row.version
    BY <1>1, <1>2, SnapshotTyped
  <2>3. SnapshotOf(row)' = SnapshotOf(row)
    BY <1>1 DEF SnapshotOf, Content
  <2>4. QED
    BY <1>1, <1>2, <1>3, <2>1, <2>2, <2>3 DEF IInv, ReadInv
<1>7. RightInv'
  BY <1>1, <1>2, <1>3, SnapshotTyped DEF IInv, RightInv
<1>8. SeedInv'
  BY <1>1, <1>2, <1>3 DEF IInv, SeedInv, FromSeed
<1>9. VectorInv'
  <2>1. \A s \in Requests : /\ s # r => (Embedding(s)' <=> Embedding(s))
                            /\ Embedding(r)' <=> place = "shown"
    BY <1>2, <1>3 DEF Embedding
  <2>2. ~muddled' => ~muddled /\ (place = "shown" => \A s \in Requests : ~Embedding(s))
    BY <1>2
  <2>3. ~Embedding(r)
    BY <1>3 DEF Embedding
  <2>4. QED
    BY <1>1, <1>2, <1>3, <2>1, <2>2, <2>3 DEF IInv, VectorInv
<1>10. QED
  BY <1>4, <1>5, <1>6, <1>7, <1>8, <1>9 DEF IInv

(* A transaction keeps it.                                                 *)
LEMMA CommitKeeps ==
  ASSUME IInv, NEW r \in Requests, Commit(r)
  PROVE  IInv'
<1>1. /\ pc[r] = "writing" /\ job[r] \in Job
      /\ job[r].read = SnapshotOf(row)
      /\ history' = history \cup {SnapshotOf(row)}
      /\ row' \in Row /\ row'.version = row.version + 1
      /\ UNCHANGED <<kind, vector>>
  BY CommitDoes
<1>2. PICK place \in {"idle", "shown", "embedding"} : Goes(r, place)
  BY CommitDoes
<1>3. /\ pc'[r] = place /\ (place # "idle" => job'[r] = job[r])
      /\ pc' \in [Requests -> Places] /\ job' \in [Requests -> Job \cup {NoJob}]
      /\ \A s \in Requests : s # r => pc'[s] = pc[s] /\ job'[s] = job[s]
      /\ overtaken' = IF place = "idle" THEN overtaken \ {r} ELSE overtaken
  BY <1>2, GoesDoes DEF IInv, Places
<1>4. row \in Row /\ row.version \in Nat
  BY DEF IInv, TypeOK, Row
<1>5. /\ SnapshotOf(row) \in Snapshot /\ SnapshotOf(row).version = row.version
      /\ SnapshotOf(row).content.words = row.words
  BY <1>4, SnapshotTyped
<1>6. TypeOK'
  <2>1. muddled' \in BOOLEAN
    <3>1. muddled' = muddled \/ \E due \in BOOLEAN :
             muddled' = (muddled \/ (due /\ \E s \in Requests \ {r} : Embedding(s)))
      BY Zenon DEF Commit, CommitEdit, CommitModule, CommitMove, CommitReview, Embeds
    <3>2. QED
      BY <3>1, Zenon DEF IInv, TypeOK
  <2>2. QED
    BY <1>1, <1>3, <1>5, <2>1 DEF IInv, TypeOK
<1>7. HistoryInv'
  <2>1. \A s \in history : s.version \in Nat /\ s.version < row.version
    BY DEF IInv, TypeOK, HistoryInv, Snapshot
  <2>2. \A v \in 1 .. row.version - 1 : \E s \in history : s.version = v
    BY DEF IInv, HistoryInv
  <2>3. ASSUME NEW v \in 1 .. row'.version - 1
        PROVE  \E s \in history' : s.version = v
    <3>1. v = row.version \/ v \in 1 .. row.version - 1
      BY <1>1, <1>4
    <3>2. QED
      BY <1>1, <1>5, <2>2, <3>1
  <2>4. \A s \in history' : s.version < row'.version
    BY <1>1, <1>4, <1>5, <2>1
  <2>5. row'.version >= 1
    BY <1>1, <1>4
  <2>6. QED
    BY <2>3, <2>4, <2>5 DEF HistoryInv
<1>8. ReadInv'
  <2>1. \A s \in Requests : pc[s] # "idle" =>
          job[s].read.version \in 1 .. row'.version /\ job[s].read.version # row'.version
    BY <1>1, <1>4 DEF IInv, ReadInv
  <2>2. QED
    BY <1>1, <1>3, <2>1 DEF ReadInv
<1>9. RightInv'
  BY <1>1, <1>3 DEF IInv, RightInv
<1>10. SeedInv'
  <2>1. \A s \in Requests : pc[s] # "idle" => job[s].read.version # row'.version
    BY <1>1, <1>4 DEF IInv, ReadInv
  <2>2. \A s \in Requests : pc'[s] \in {"idle", "looked"} => s \notin overtaken'
    BY <1>1, <1>3 DEF IInv, SeedInv
  <2>3. \A s \in Requests : pc'[s] \in {"looked", "writing"} =>
           job'[s].read.version # row'.version
    BY <1>3, <2>1
  <2>4. QED
    BY <2>2, <2>3 DEF SeedInv
<1>11. VectorInv'
  <2>1. \A s \in Requests : s # r => (Embedding(s)' <=> Embedding(s))
    BY <1>3 DEF Embedding
  <2>2. ~Embedding(r) /\ (Embedding(r)' <=> place # "idle")
    BY <1>1, <1>3 DEF Embedding
  <2>3. /\ CommitEdit(r) => row'.words = job[r].words /\ row'.status = row.status
        /\ ~CommitEdit(r) => row'.words = row.words
        /\ CommitMove(r) => row'.status = job[r].to
        /\ ~CommitMove(r) => row'.status = row.status
    BY <1>1, CommitWrites DEF IInv
  <2>4. ASSUME NEW due, NEW where \in {"shown", "embedding"}, Embeds(r, due, where)
        PROVE  /\ place = IF due THEN where ELSE "idle"
               /\ ~muddled' => ~muddled /\ (due => \A s \in Requests : ~Embedding(s))
    <3>1. pc'[r] = IF due THEN where ELSE "idle"
      BY <2>4 DEF IInv, TypeOK, Embeds, Goes
    <3>2. QED
      BY <1>3, <2>2, <2>4, <3>1 DEF Embeds
  <2>5. CASE CommitEdit(r)
    <3> DEFINE due == /\ kind = "questions" /\ row.status = "published"
                      /\ job[r].words # job[r].read.content.words
    <3>1. job[r].op = "edit" /\ Embeds(r, due, "embedding")
      BY <2>5 DEF CommitEdit
    <3>2. /\ place = IF due THEN "embedding" ELSE "idle"
          /\ ~muddled' => ~muddled /\ (due => \A s \in Requests : ~Embedding(s))
      BY <2>4, <3>1
    <3>3. row'.words = job[r].words /\ row'.status = row.status
      BY <2>3, <2>5
    <3>4. CASE due
      <4>1. place = "embedding" /\ Embedding(r)' /\ job'[r].words = row'.words
        BY <1>3, <2>2, <3>2, <3>3, <3>4
      <4>2. \A s \in Requests : ~muddled' /\ Embedding(s)' => s = r
        BY <2>1, <3>2, <3>4
      <4>3. \A s \in Requests : ~muddled' /\ pc'[s] = "embedding" => s = r
        BY <4>2 DEF Embedding
      <4>4. QED
        BY <4>1, <4>2, <4>3 DEF VectorInv
    <3>5. CASE ~due
      <4>1. kind = "questions" /\ row.status = "published" => row'.words = row.words
        BY <1>1, <1>5, <3>3, <3>5
      <4>2. QED
        BY <1>1, <1>3, <2>1, <2>2, <3>2, <3>3, <3>5, <4>1 DEF IInv, VectorInv
    <3>6. QED
      BY <3>4, <3>5
  <2>6. CASE CommitMove(r)
    <3> DEFINE due == kind = "questions" /\ job[r].to = "published"
    <3>1. Embeds(r, due, "shown") /\ row'.status = job[r].to
      BY <2>3, <2>6 DEF CommitMove
    <3>2. /\ place = IF due THEN "shown" ELSE "idle"
          /\ ~muddled' => ~muddled /\ (due => \A s \in Requests : ~Embedding(s))
      BY <2>4, <3>1
    <3>3. CASE due
      <4>1. pc'[r] = "shown" /\ \A s \in Requests : ~muddled' /\ Embedding(s)' => s = r
        BY <1>3, <2>1, <3>2, <3>3
      <4>2. ~muddled' => \A s \in Requests : pc'[s] # "embedding"
        BY <4>1 DEF Embedding
      <4>3. Embedding(r)'
        BY <4>1 DEF Embedding
      <4>4. QED
        BY <4>1, <4>2, <4>3 DEF VectorInv
    <3>4. CASE ~due
      BY <1>1, <2>1, <2>2, <3>1, <3>2, <3>4 DEF IInv, VectorInv
    <3>5. QED
      BY <3>3, <3>4
  <2>7. CASE CommitModule(r) \/ CommitReview(r)
    <3>1. job[r].op \in {"module", "review"} /\ Goes(r, "idle") /\ muddled' = muddled
      BY <2>7 DEF CommitModule, CommitReview
    <3>2. ~CommitEdit(r) /\ ~CommitMove(r)
      BY <3>1 DEF CommitEdit, CommitMove
    <3>3. pc'[r] = "idle"
      BY <3>1 DEF IInv, TypeOK, Goes
    <3>4. QED
      BY <1>1, <1>3, <2>1, <2>2, <2>3, <3>1, <3>2, <3>3 DEF IInv, VectorInv
  <2>8. QED
    BY <2>5, <2>6, <2>7 DEF Commit
<1>12. QED
  BY <1>6, <1>7, <1>8, <1>9, <1>10, <1>11 DEF IInv

(* A request that moves on without a transaction.                          *)
Proceeds(r) ==
  \/ ReadTrack(r) \/ UpdateLooked(r) \/ Vouch(r) \/ SyncReviewState(r)
  \/ Fails(r) \/ ReadShown(r) \/ Sync(r)

(* What it may have become: of a job only the reading and the words can be *)
(* new, the reading that of the row as it is.                              *)
LEMMA ProceedsDoes ==
  ASSUME IInv, NEW r \in Requests, Proceeds(r)
  PROVE  /\ pc[r] # "idle" /\ job[r] \in Job
         /\ UNCHANGED <<kind, history>>
         /\ row' \in Row
         /\ row'.version = row.version /\ Content(row') = Content(row)
         /\ row'.words = row.words /\ row'.status = row.status /\ row'.seeded = row.seeded
         /\ pc' \in [Requests -> Places] /\ job' \in [Requests -> Job \cup {NoJob}]
         /\ \A s \in Requests : s # r => pc'[s] = pc[s] /\ job'[s] = job[s]
         /\ overtaken' \subseteq Requests
         /\ overtaken' \ {r} = overtaken \ {r}
         /\ pc'[r] # "looked" /\ (pc'[r] = "idle" => r \notin overtaken')
         /\ pc'[r] = "checked" => job[r].op = "module"
         /\ pc'[r] # "idle" =>
              /\ job'[r] \in Job
              /\ job'[r].op = job[r].op /\ job'[r].actor = job[r].actor
              /\ job'[r].to = job[r].to /\ job'[r].insists = job[r].insists
              /\ job'[r].read \in {job[r].read, SnapshotOf(row)}
              /\ r \in overtaken \/ job'[r].read # job[r].read => r \in overtaken'
         /\ pc'[r] = "writing" => /\ pc[r] \in {"looked", "checked"}
                                  /\ pc[r] = "checked" => ReadTrack(r)
                                  /\ r \notin overtaken' => job'[r].read = job[r].read
<1> USE DEF Places
<1>1. /\ row \in Row /\ pc[r] # "idle" /\ job[r] \in Job /\ TypeOK
      /\ overtaken \subseteq Requests
  BY DEF IInv, TypeOK, Proceeds, ReadTrack, UpdateLooked, Vouch, SyncReviewState, Fails,
         ReadShown, Sync
<1>2. UNCHANGED <<kind, history>>
  BY DEF Proceeds, ReadTrack, UpdateLooked, Vouch, SyncReviewState, Fails, ReadShown, Sync
<1>3. /\ row' \in Row
      /\ row'.version = row.version /\ Content(row') = Content(row)
      /\ row'.words = row.words /\ row'.status = row.status /\ row'.seeded = row.seeded
  <2>1. CASE SyncReviewState(r)
    <3>1. Claim(r) \in BOOLEAN
      BY Zenon DEF Claim
    <3>2. ASSUME NEW b \in BOOLEAN
          PROVE  [row EXCEPT !.unreviewed = b] \in Row
      BY <1>1 DEF Row
    <3>3. row' = [row EXCEPT !.unreviewed = Claim(r)]
      BY <2>1 DEF SyncReviewState
    <3>4. row' \in Row
      BY <3>1, <3>2, <3>3
    <3>5. QED
      BY <1>1, <3>3, <3>4 DEF Row, Content
  <2>2. CASE ~SyncReviewState(r)
    BY <1>1, <2>2 DEF Proceeds, ReadTrack, UpdateLooked, Vouch, Fails, ReadShown, Sync
  <2>3. QED
    BY <2>1, <2>2
<1>4. CASE \E place \in {"idle", "syncing"} : Goes(r, place)
  BY <1>1, <1>2, <1>3, <1>4, GoesDoes
<1>5. CASE \E place \in {"checked", "writing"} :
             /\ Reads(r, place) /\ pc[r] \in {"looked", "checked"}
             /\ place = "checked" => job[r].op = "module"
             /\ pc[r] = "checked" => ReadTrack(r)
  <2>1. PICK place \in {"checked", "writing"} :
             /\ Reads(r, place) /\ pc[r] \in {"looked", "checked"}
             /\ place = "checked" => job[r].op = "module"
             /\ pc[r] = "checked" => ReadTrack(r)
    BY <1>5
  <2>2. /\ pc'[r] = place
        /\ job'[r] = [job[r] EXCEPT !.read = SnapshotOf(row)]
        /\ job'[r] \in Job
        /\ pc' \in [Requests -> Places] /\ job' \in [Requests -> Job \cup {NoJob}]
        /\ \A s \in Requests : s # r => pc'[s] = pc[s] /\ job'[s] = job[s]
    BY <1>1, <2>1, ReadsDoes
  <2>3. /\ job'[r].op = job[r].op /\ job'[r].actor = job[r].actor
        /\ job'[r].to = job[r].to /\ job'[r].insists = job[r].insists
        /\ job'[r].read = SnapshotOf(row)
    BY <1>1, <2>2 DEF Job
  <2>4. /\ overtaken' = IF SnapshotOf(row) # job[r].read THEN overtaken \cup {r} ELSE overtaken
    BY <2>1 DEF Reads
  <2>5. QED
    BY <1>1, <1>2, <1>3, <2>1, <2>2, <2>3, <2>4
<1>6. CASE ReadShown(r)
  <2>1. [job[r] EXCEPT !.words = row.words] \in Job
    BY <1>1 DEF Job, Row
  <2>2. /\ pc[r] = "shown" /\ pc' = [pc EXCEPT ![r] = "embedding"]
        /\ job' = [job EXCEPT ![r].words = row.words] /\ overtaken' = overtaken
    BY <1>6 DEF ReadShown
  <2>3. /\ job'[r] = [job[r] EXCEPT !.words = row.words] /\ pc'[r] = "embedding"
    BY <1>1, <2>2 DEF TypeOK
  <2>4. /\ job'[r].op = job[r].op /\ job'[r].actor = job[r].actor
        /\ job'[r].to = job[r].to /\ job'[r].insists = job[r].insists
        /\ job'[r].read = job[r].read
    BY <1>1, <2>3 DEF Job
  <2>5. /\ pc' \in [Requests -> Places] /\ job' \in [Requests -> Job \cup {NoJob}]
        /\ \A s \in Requests : s # r => pc'[s] = pc[s] /\ job'[s] = job[s]
    BY <1>1, <2>1, <2>2 DEF TypeOK
  <2>6. QED
    BY <1>1, <1>2, <1>3, <2>1, <2>2, <2>3, <2>4, <2>5
<1>7. QED
  BY <1>4, <1>5, <1>6 DEF Proceeds, ReadTrack, UpdateLooked, Vouch, SyncReviewState, Fails, Sync

(* Only an import on its way and an updateModule read the row again.       *)
LEMMA ProceedsReads ==
  ASSUME IInv, NEW r \in Requests, Proceeds(r), pc'[r] # "idle", job'[r].read # job[r].read
  PROVE  pc[r] \in {"looked", "checked"}
<1>1. job[r] \in Job /\ pc[r] # "idle"
  BY ProceedsDoes
<1>2. CASE ReadShown(r)
  BY <1>1, <1>2 DEF ReadShown, IInv, TypeOK, Job
<1>3. CASE Vouch(r) \/ SyncReviewState(r) \/ Fails(r) \/ Sync(r)
  BY <1>1, <1>3 DEF Vouch, SyncReviewState, Fails, Sync, Goes, IInv, TypeOK
<1>4. CASE ReadTrack(r) \/ UpdateLooked(r)
  BY <1>4 DEF ReadTrack, UpdateLooked
<1>5. QED
  BY <1>2, <1>3, <1>4 DEF Proceeds

(* Moving on keeps it.                                                     *)
LEMMA ProceedsKeeps ==
  ASSUME IInv, NEW r \in Requests, Proceeds(r)
  PROVE  IInv'
<1>1. /\ pc[r] # "idle" /\ job[r] \in Job
      /\ UNCHANGED <<kind, history>>
      /\ row' \in Row
      /\ row'.version = row.version /\ Content(row') = Content(row)
      /\ row'.words = row.words /\ row'.status = row.status /\ row'.seeded = row.seeded
  BY ProceedsDoes
<1>2. /\ pc' \in [Requests -> Places] /\ job' \in [Requests -> Job \cup {NoJob}]
      /\ \A s \in Requests : s # r => pc'[s] = pc[s] /\ job'[s] = job[s]
      /\ overtaken' \subseteq Requests
      /\ \A s \in Requests : s # r => (s \in overtaken' <=> s \in overtaken)
      /\ pc'[r] # "looked" /\ (pc'[r] = "idle" => r \notin overtaken')
  BY ProceedsDoes
<1>3. pc'[r] # "idle" =>
        /\ job'[r] \in Job
        /\ job'[r].op = job[r].op /\ job'[r].actor = job[r].actor
        /\ job'[r].to = job[r].to /\ job'[r].insists = job[r].insists
        /\ job'[r].read \in {job[r].read, SnapshotOf(row)}
  BY ProceedsDoes
<1>4. pc'[r] = "writing" => /\ pc[r] \in {"looked", "checked"}
                            /\ pc[r] = "checked" => ReadTrack(r)
                            /\ r \notin overtaken' => job'[r].read = job[r].read
  BY ProceedsDoes
<1>5. /\ row \in Row /\ row.version \in Nat /\ row.version >= 1
      /\ SnapshotOf(row).version = row.version
      /\ SnapshotOf(row).content.status = row.status
      /\ SnapshotOf(row') = SnapshotOf(row)
  BY <1>1, SnapshotTyped DEF IInv, TypeOK, Row, HistoryInv, SnapshotOf
<1>6. TypeOK'
  <2>1. vector' \in Words \cup {NoWords}
    BY <1>1 DEF IInv, TypeOK, Proceeds, ReadTrack, UpdateLooked, Vouch, SyncReviewState, Fails,
                ReadShown, Sync, Job
  <2>2. muddled' \in BOOLEAN
    <3>1. muddled' = muddled \/ muddled' = (muddled \/ Embedding(r))
      BY Zenon DEF Proceeds, ReadTrack, UpdateLooked, Vouch, SyncReviewState, Fails, ReadShown, Sync
    <3>2. QED
      BY <3>1, Zenon DEF IInv, TypeOK
  <2>3. QED
    BY <1>1, <1>2, <1>3, <2>1, <2>2 DEF IInv, TypeOK
<1>7. HistoryInv'
  BY <1>1 DEF IInv, HistoryInv
<1>8. ReadInv'
  <2>1. ASSUME NEW s \in Requests, pc'[s] # "idle"
        PROVE  /\ job'[s].read.version \in 1 .. row.version
               /\ job'[s].read.version = row.version => job'[s].read = SnapshotOf(row)
    <3>1. CASE s = r
      BY <1>1, <1>3, <1>5, <2>1, <3>1 DEF IInv, ReadInv
    <3>2. CASE s # r
      BY <1>2, <2>1, <3>2 DEF IInv, ReadInv
    <3>3. QED
      BY <3>1, <3>2
  <2>2. QED
    BY <1>1, <1>5, <2>1 DEF ReadInv
<1>9. RightInv'
  <2>1. pc[r] = "looked" =>
          (job[r].op \in {"edit", "module"} => job[r].actor.role = "admin")
    BY <1>1 DEF IInv, RightInv
  <2>2. pc'[r] = "checked" => job[r].op = "module"
    BY ProceedsDoes
  <2>3. pc'[r] # "idle" /\ job'[r].read # job[r].read => pc[r] = "looked" \/ job[r].op = "module"
    BY <1>1, ProceedsReads DEF IInv, RightInv
  <2>4. pc'[r] # "idle" =>
          (r \in overtaken \/ job'[r].read # job[r].read => r \in overtaken')
    BY ProceedsDoes
  <2>5. QED
    BY <1>1, <1>2, <1>3, <2>1, <2>2, <2>3, <2>4 DEF IInv, RightInv
<1>10. SeedInv'
  <2>1. \A s \in Requests : pc'[s] \in {"idle", "looked"} => s \notin overtaken'
    BY <1>2 DEF IInv, SeedInv
  <2>2. ASSUME NEW s \in Requests, pc'[s] \in {"looked", "writing"}, job'[s].op = "edit",
               FromSeed(job'[s].actor), s \notin overtaken',
               job'[s].read.version = row'.version
        PROVE  /\ row'.seeded \/ job'[s].insists = "yes"
               /\ row'.status = "published" => job'[s].insists # "no"
    <3>1. CASE s # r
      BY <1>1, <1>2, <2>2, <3>1 DEF IInv, SeedInv
    <3>2. CASE s = r
      <4>1. pc'[r] = "writing" /\ pc[r] \in {"looked", "checked"}
        BY <1>2, <1>4, <2>2, <3>2
      <4>2. job'[r].op = job[r].op /\ job'[r].actor = job[r].actor
            /\ job'[r].insists = job[r].insists /\ job'[r].read = job[r].read
        BY <1>3, <1>4, <2>2, <3>2, <4>1
      <4>3. pc[r] = "looked"
        BY <1>1, <2>2, <3>2, <4>1, <4>2 DEF IInv, RightInv
      <4>4. r \notin overtaken
        BY <4>3 DEF IInv, SeedInv
      <4>5. QED
        BY <1>1, <2>2, <3>2, <4>2, <4>3, <4>4 DEF IInv, SeedInv
    <3>3. QED
      BY <3>1, <3>2
  <2>3. QED
    BY <2>1, <2>2 DEF SeedInv
<1>11. VectorInv'
  <2>1. \A s \in Requests : s # r => (Embedding(s)' <=> Embedding(s))
    BY <1>2 DEF Embedding
  <2>2. CASE Fails(r)
    <3>1. pc'[r] = "idle" /\ vector' = vector /\ ~Embedding(r)'
      BY <2>2 DEF Fails, Goes, IInv, TypeOK, Embedding
    <3>2. ~muddled' => ~muddled /\ ~Embedding(r)
      BY <2>2 DEF Fails
    <3>3. QED
      BY <1>1, <1>2, <2>1, <3>1, <3>2 DEF IInv, VectorInv
  <2>3. CASE Sync(r)
    <3>1. /\ pc'[r] = "idle" /\ vector' \in {job[r].words, NoWords} /\ muddled' = muddled
          /\ pc[r] = "embedding" /\ Embedding(r) /\ ~Embedding(r)'
      BY <2>3 DEF Sync, Goes, IInv, TypeOK, Embedding
    <3>2. QED
      BY <1>1, <1>2, <2>1, <3>1 DEF IInv, VectorInv
  <2>4. CASE ReadShown(r)
    <3>1. /\ pc'[r] = "embedding" /\ vector' = vector /\ muddled' = muddled
          /\ job'[r].words = row.words /\ Embedding(r) /\ Embedding(r)'
      BY <1>1, <2>4 DEF ReadShown, IInv, TypeOK, Embedding, Job
    <3>2. QED
      BY <1>1, <1>2, <2>1, <3>1 DEF IInv, VectorInv
  <2>5. CASE ReadTrack(r) \/ UpdateLooked(r) \/ Vouch(r) \/ SyncReviewState(r)
    <3>1. /\ ~Embedding(r) /\ ~Embedding(r)' /\ vector' = vector /\ muddled' = muddled
          /\ pc'[r] # "embedding"
      BY <2>5 DEF ReadTrack, UpdateLooked, Vouch, SyncReviewState, Goes, Reads, IInv, TypeOK,
                  Embedding
    <3>2. QED
      BY <1>1, <1>2, <2>1, <3>1 DEF IInv, VectorInv
  <2>6. QED
    BY <2>2, <2>3, <2>4, <2>5 DEF Proceeds
<1>12. QED
  BY <1>6, <1>7, <1>8, <1>9, <1>10, <1>11 DEF IInv

(* Every step begins, proceeds or commits.                                 *)
LEMMA Steps ==
  ASSUME Next
  PROVE  \E r \in Requests : Begins(r) \/ Proceeds(r) \/ Commit(r)
  BY DEF Next, Begins, Proceeds, Commit

(* So every step keeps the invariant.                                      *)
LEMMA StepInv == IInv /\ [Next]_vars => IInv'
<1> SUFFICES ASSUME IInv, [Next]_vars PROVE IInv'
  OBVIOUS
<1>1. CASE Next
  BY <1>1, Steps, BeginsKeeps, ProceedsKeeps, CommitKeeps
<1>2. CASE UNCHANGED vars
  BY <1>2 DEF vars, IInv, TypeOK, HistoryInv, ReadInv, RightInv, SeedInv, VectorInv, Embedding,
              SnapshotOf, Content
<1>3. QED
  BY <1>1, <1>2

-----------------------------------------------------------------------------
(* Theorems *)

(* The invariant holds of every behaviour of the content workflow.         *)
THEOREM Invariance == Spec => []IInv
  BY InitInv, StepInv, PTL DEF Spec

(* The variables keep their types.                                         *)
THEOREM TypeCorrect == Spec => []TypeOK
<1>1. IInv => TypeOK
  BY DEF IInv
<1>2. QED
  BY <1>1, Invariance, PTL

(* The embedding of a published question is absent or of its words, unless *)
(* a sync was cut short or had company.                                    *)
THEOREM VectorFresh == Spec => []PublishedVectorIsFresh
<1>1. IInv => PublishedVectorIsFresh
  BY DEF IInv, VectorInv, PublishedVectorIsFresh
<1>2. QED
  BY <1>1, Invariance, PTL

(* Only a transaction changes the version; the others leave the content.   *)
LEMMA OnlyCommits ==
  ASSUME IInv, Next, row'.version # row.version \/ Content(row') # Content(row) \/ history' # history
  PROVE  \E r \in Requests : Commit(r)
<1>1. ASSUME NEW r \in Requests, Begins(r) PROVE FALSE
  BY <1>1, BeginsDoes DEF IInv
<1>2. ASSUME NEW r \in Requests, Proceeds(r) PROVE FALSE
  BY <1>2, ProceedsDoes
<1>3. QED
  BY <1>1, <1>2, Steps

(* Whatever an item said and whatever status it had is in its history,     *)
(* under its version, however many requests work on it.                    *)
THEOREM HistoryWhole == Spec => HistoryIsWhole
<1>1. IInv /\ [Next]_vars =>
        [IF row'.version = row.version
         THEN Content(row') = Content(row) /\ history' = history
         ELSE /\ row'.version = row.version + 1
              /\ \A s \in history : s.version < row.version
              /\ history' = history \cup {SnapshotOf(row)}]_vars
  <2> SUFFICES ASSUME IInv, Next
               PROVE  IF row'.version = row.version
                      THEN Content(row') = Content(row) /\ history' = history
                      ELSE /\ row'.version = row.version + 1
                           /\ \A s \in history : s.version < row.version
                           /\ history' = history \cup {SnapshotOf(row)}
    OBVIOUS
  <2>1. CASE \E r \in Requests : Commit(r)
    BY <2>1, CommitDoes DEF IInv, TypeOK, HistoryInv, Row
  <2>2. CASE ~\E r \in Requests : Commit(r)
    BY <2>2, OnlyCommits
  <2>3. QED
    BY <2>1, <2>2
<1>2. QED
  BY <1>1, Invariance, PTL DEF Spec, HistoryIsWhole

(* The request a change of version is put down to is the one whose         *)
(* transaction made it.                                                    *)
LEMMA WhoCommits ==
  ASSUME IInv, Next, row'.version # row.version
  PROVE  \E r \in Requests :
           /\ Commit(r) /\ Commits(r)
           /\ \A s \in Requests : Commits(s) => s = r
<1>1. PICK r \in Requests : Commit(r)
  BY OnlyCommits
<1>2. PICK place \in {"idle", "shown", "embedding"} : Goes(r, place)
  BY <1>1, CommitDoes
<1>3. /\ pc[r] = "writing" /\ pc'[r] = place
      /\ \A s \in Requests : s # r => pc'[s] = pc[s]
  BY <1>1, <1>2, CommitDoes, GoesDoes DEF IInv, Places
<1>4. QED
  BY <1>1, <1>3 DEF Commits

(* A transaction goes through only on the words and the status its request *)
(* had read, although only a move checks them.                             *)
THEOREM DecidedAsRead == Spec => DecidedOnWhatWasRead
<1>1. IInv /\ [Next]_vars =>
        [\A r \in Requests : Commits(r) => SnapshotOf(row) = job[r].read]_vars
  <2> SUFFICES ASSUME IInv, Next, NEW r \in Requests, Commits(r)
               PROVE  SnapshotOf(row) = job[r].read
    OBVIOUS
  <2>1. Commit(r)
    BY WhoCommits DEF Commits
  <2>2. QED
    BY <2>1, CommitDoes
<1>2. QED
  BY <1>1, Invariance, PTL DEF Spec, DecidedOnWhatWasRead

(* Only an admin's request changes what candidates are shown, but for a    *)
(* module's edit whose track moved between its two readings.               *)
THEOREM AdminsShow == Spec => ShownIsAdmins
<1>1. IInv /\ [Next]_vars =>
        [row'.status = "published" /\ Content(row) # Content(row')
         => \E r \in Requests :
              /\ Commits(r)
              /\ job[r].actor.role = "admin" \/ (job[r].op = "module" /\ r \in overtaken)]_vars
  <2> SUFFICES ASSUME IInv, Next, row'.status = "published", Content(row) # Content(row')
               PROVE  \E r \in Requests :
                        /\ Commits(r)
                        /\ \/ job[r].actor.role = "admin"
                           \/ job[r].op = "module" /\ r \in overtaken
    OBVIOUS
  <2>1. row \in Row
    BY DEF IInv, TypeOK
  <2>2. PICK r \in Requests : Commit(r)
    BY OnlyCommits
  <2>3. /\ job[r] \in Job /\ pc[r] = "writing" /\ job[r].read = SnapshotOf(row)
        /\ row'.version = row.version + 1
    BY <2>2, CommitDoes
  <2>4. Commits(r)
    <3>1. row'.version # row.version
      BY <2>1, <2>3 DEF Row
    <3>2. PICK place \in {"idle", "shown", "embedding"} : Goes(r, place)
      BY <2>2, CommitDoes
    <3>3. pc'[r] = place
      BY <3>2, GoesDoes DEF IInv, Places
    <3>4. QED
      BY <2>3, <3>1, <3>3 DEF Commits
  <2>5. /\ CommitMove(r) => row'.status = job[r].to
        /\ ~CommitMove(r) => row'.status = row.status
    BY <2>2, <2>3, CommitWrites DEF IInv
  <2>6. CASE CommitMove(r)
    BY <2>3, <2>4, <2>5, <2>6 DEF CommitMove, IInv, RightInv
  <2>7. CASE CommitEdit(r) \/ CommitModule(r)
    <3>1. job[r].op \in {"edit", "module"} /\ job[r].op # "move"
      BY <2>7 DEF CommitEdit, CommitModule
    <3>2. row.status = "published"
      BY <2>5, <3>1 DEF CommitMove
    <3>3. job[r].read.content.status = "published"
      BY <2>1, <2>3, <3>2, SnapshotTyped
    <3>4. QED
      BY <2>3, <2>4, <3>1, <3>3 DEF IInv, RightInv
  <2>8. CASE CommitReview(r)
    <3>1. Content(row') = Content(row)
      BY <2>1, <2>8 DEF CommitReview, Content, Row
    <3>2. QED
      BY <3>1
  <2>9. QED
    BY <2>2, <2>6, <2>7, <2>8 DEF Commit
<1>2. QED
  BY <1>1, Invariance, PTL DEF Spec, ShownIsAdmins

(* An import rewrites only what is the files' own and what nobody reads,   *)
(* unless it is forced or overtaken.                                       *)
THEOREM ImportsKeepAway == Spec => FilesKnowTheirPlace
<1>1. IInv /\ [Next]_vars =>
        [\A r \in Requests :
           /\ Commits(r) /\ FromSeed(job[r].actor) /\ job[r].op = "edit"
           /\ r \notin overtaken
           => /\ row.seeded \/ job[r].insists = "yes"
              /\ row.status = "published" => job[r].insists # "no"]_vars
  <2> SUFFICES ASSUME IInv, Next, NEW r \in Requests, Commits(r), FromSeed(job[r].actor),
                      job[r].op = "edit", r \notin overtaken
               PROVE  /\ row.seeded \/ job[r].insists = "yes"
                      /\ row.status = "published" => job[r].insists # "no"
    OBVIOUS
  <2>1. Commit(r)
    BY WhoCommits DEF Commits
  <2>2. pc[r] = "writing" /\ job[r].read = SnapshotOf(row) /\ row \in Row
    BY <2>1, CommitDoes DEF IInv, TypeOK
  <2>3. job[r].read.version = row.version
    BY <2>2, SnapshotTyped
  <2>4. QED
    BY <2>2, <2>3 DEF IInv, SeedInv
<1>2. QED
  BY <1>1, Invariance, PTL DEF Spec, FilesKnowTheirPlace
=============================================================================
