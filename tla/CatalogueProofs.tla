-------------------------- MODULE CatalogueProofs --------------------------
(***************************************************************************)
(* What the catalogue's checks achieve, for any rows, any candidates and   *)
(* any number of requests at once.                                         *)
(***************************************************************************)
EXTENDS Catalogue, TLAPS

-----------------------------------------------------------------------------
(* What a request found when it asked is still so, unless the request has  *)
(* been overtaken, or is late and will be told so.                         *)

PublishInv ==
  \A r \in Requests \ overtaken :
    job[r].op = "publish" /\ ~job[r].late => Publishable(job[r].row)

RetireInv ==
  \A r \in Requests \ overtaken : job[r].op = "retire" => Retirable(job[r].row)

RelinkInv ==
  \A r \in Requests \ overtaken :
    job[r].op = "relink" /\ ~job[r].late => LinksRemovable(job[r].row, job[r].to)

ChooseInv ==
  \A r \in Requests \ overtaken : job[r].op = "choose" => OnOffer(job[r].to)

Held == PublishInv /\ RetireInv /\ RelinkInv /\ ChooseInv

IInv == TypeOK /\ Held

-----------------------------------------------------------------------------
(* Jobs *)

(* What each kind of job is about.                                         *)
LEMMA JobTyped ==
  ASSUME NEW j \in Job \cup {NoJob}
  PROVE  /\ j.op \in {"publish", "retire"} => j.row \in Rows
         /\ j.op = "relink" => j.row \in Roles /\ j.to \in Offer
         /\ j.op = "retag" => j.row \in Questions /\ j.to \in Tags
         /\ j.op = "repair" => j.row \in Tracks /\ j.to \in Pair
         /\ j.op = "choose" => j.row \in Candidates /\ j.to \in Target
         /\ j # NoJob => j \in Job /\ j.op # "none" /\ j.late \in BOOLEAN
         /\ j.op \in {"publish", "retire", "relink", "retag", "repair", "choose", "none"}
  BY DEF Job, NoJob

(* A late job is a job, of the same kind and about the same.               *)
LEMMA LateTyped ==
  ASSUME NEW j \in Job
  PROVE  /\ [j EXCEPT !.late = TRUE] \in Job
         /\ [j EXCEPT !.late = TRUE].op = j.op
         /\ [j EXCEPT !.late = TRUE].row = j.row
         /\ [j EXCEPT !.late = TRUE].late = TRUE
         /\ j.op \in {"relink", "retag", "repair", "choose"} =>
              [j EXCEPT !.late = TRUE].to = j.to
<1>1. CASE j \in [op : {"publish", "retire"}, row : Rows, late : BOOLEAN]
  <2>1. [j EXCEPT !.late = TRUE] \in [op : {"publish", "retire"}, row : Rows, late : BOOLEAN]
    BY <1>1
  <2>2. QED
    BY <1>1, <2>1 DEF Job
<1>2. CASE j \in [op : {"relink"}, row : Roles, to : Offer, late : BOOLEAN]
  <2>1. [j EXCEPT !.late = TRUE] \in [op : {"relink"}, row : Roles, to : Offer, late : BOOLEAN]
    BY <1>2
  <2>2. QED
    BY <1>2, <2>1 DEF Job
<1>3. CASE j \in [op : {"retag"}, row : Questions, to : Tags, late : BOOLEAN]
  <2>1. [j EXCEPT !.late = TRUE] \in [op : {"retag"}, row : Questions, to : Tags, late : BOOLEAN]
    BY <1>3
  <2>2. QED
    BY <1>3, <2>1 DEF Job
<1>4. CASE j \in [op : {"repair"}, row : Tracks, to : Pair, late : BOOLEAN]
  <2>1. [j EXCEPT !.late = TRUE] \in [op : {"repair"}, row : Tracks, to : Pair, late : BOOLEAN]
    BY <1>4
  <2>2. QED
    BY <1>4, <2>1 DEF Job
<1>5. CASE j \in [op : {"choose"}, row : Candidates, to : Target, late : BOOLEAN]
  <2>1. [j EXCEPT !.late = TRUE] \in [op : {"choose"}, row : Candidates, to : Target,
                                      late : BOOLEAN]
    BY <1>5
  <2>2. QED
    BY <1>5, <2>1 DEF Job
<1>6. QED
  BY <1>1, <1>2, <1>3, <1>4, <1>5 DEF Job

(* A request that asks changes nothing but its own job.                    *)
LEMMA AsksDoes ==
  ASSUME TypeOK, NEW r \in Requests, NEW j \in Job, Asks(r, j)
  PROVE  /\ UNCHANGED <<published, offers, tags, pair, profile, overtaken>>
         /\ job' \in [Requests -> Job \cup {NoJob}]
         /\ job'[r] = j /\ \A s \in Requests \ {r} : job'[s] = job[s]
  BY DEF Asks, TypeOK

Asking(r) ==
  AskPublish(r) \/ AskRetire(r) \/ AskRelink(r) \/ AskRetag(r) \/ AskRepair(r) \/ AskChoose(r)

(* It has found what it needs to find.                                     *)
LEMMA AskingDoes ==
  ASSUME TypeOK, NEW r \in Requests, Asking(r)
  PROVE  \E j \in Job :
           /\ Asks(r, j)
           /\ j.op = "publish" => Publishable(j.row)
           /\ j.op = "retire" => Retirable(j.row)
           /\ j.op = "relink" => LinksRemovable(j.row, j.to)
           /\ j.op = "choose" => OnOffer(j.to)
<1>1. CASE AskPublish(r)
  <2>1. PICK row \in Rows : /\ Publishable(row)
                            /\ Asks(r, [op |-> "publish", row |-> row, late |-> FALSE])
    BY <1>1 DEF AskPublish
  <2>2. [op |-> "publish", row |-> row, late |-> FALSE] \in Job
    BY DEF Job
  <2>3. QED
    BY <2>1, <2>2
<1>2. CASE AskRetire(r)
  <2>1. PICK row \in Rows : /\ Retirable(row)
                            /\ Asks(r, [op |-> "retire", row |-> row, late |-> FALSE])
    BY <1>2 DEF AskRetire, TypeOK
  <2>2. [op |-> "retire", row |-> row, late |-> FALSE] \in Job
    BY DEF Job
  <2>3. QED
    BY <2>1, <2>2
<1>3. CASE AskRelink(r)
  <2>1. PICK role \in Roles, to \in Offer :
          /\ LinksRemovable(role, to)
          /\ Asks(r, [op |-> "relink", row |-> role, to |-> to, late |-> FALSE])
    BY <1>3 DEF AskRelink
  <2>2. [op |-> "relink", row |-> role, to |-> to, late |-> FALSE] \in Job
    BY DEF Job
  <2>3. QED
    BY <2>1, <2>2
<1>4. CASE AskRetag(r)
  <2>1. PICK q \in Questions, to \in Tags :
          Asks(r, [op |-> "retag", row |-> q, to |-> to, late |-> FALSE])
    BY <1>4 DEF AskRetag
  <2>2. [op |-> "retag", row |-> q, to |-> to, late |-> FALSE] \in Job
    BY DEF Job
  <2>3. QED
    BY <2>1, <2>2
<1>5. CASE AskRepair(r)
  <2>1. PICK t \in Tracks, to \in Pair :
          Asks(r, [op |-> "repair", row |-> t, to |-> to, late |-> FALSE])
    BY <1>5 DEF AskRepair
  <2>2. [op |-> "repair", row |-> t, to |-> to, late |-> FALSE] \in Job
    BY DEF Job
  <2>3. QED
    BY <2>1, <2>2
<1>6. CASE AskChoose(r)
  <2>1. PICK c \in Candidates, to \in Target :
          /\ OnOffer(to)
          /\ Asks(r, [op |-> "choose", row |-> c, to |-> to, late |-> FALSE])
    BY <1>6 DEF AskChoose
  <2>2. [op |-> "choose", row |-> c, to |-> to, late |-> FALSE] \in Job
    BY DEF Job
  <2>3. QED
    BY <2>1, <2>2
<1>7. QED
  BY <1>1, <1>2, <1>3, <1>4, <1>5, <1>6 DEF Asking

Commit(r) ==
  Publish(r) \/ Retire(r) \/ Relink(r) \/ Retag(r) \/ Repair(r) \/ Choose(r)

(* A transaction ends its request and makes others late, no more.          *)
LEMMA CommitDoes ==
  ASSUME TypeOK, NEW r \in Requests, Commit(r)
  PROVE  /\ job[r] \in Job /\ job'[r] = NoJob
         /\ job' \in [Requests -> Job \cup {NoJob}]
         /\ \A s \in Requests \ {r} :
              /\ job'[s].op = job[s].op
              /\ job[s] # NoJob => job'[s].row = job[s].row
              /\ job[s].op \in {"relink", "retag", "repair", "choose"} => job'[s].to = job[s].to
              /\ job[s] # NoJob /\ ~job'[s].late => ~job[s].late /\ job[s].row # job[r].row
         /\ overtaken' = (overtaken \cup {s \in Requests : Upsets(job[r], job[s])}) \ {r}
<1>1. PICK op \in {"publish", "retire", "relink", "retag", "repair", "choose"} : Commits(r, op)
  BY DEF Commit, Publish, Retire, Relink, Retag, Repair, Choose
<1>2. job[r] \in Job \cup {NoJob} /\ job[r] # NoJob
  BY <1>1 DEF TypeOK, Commits, NoJob
<1>3. job'[r] = NoJob
  BY <1>1 DEF Commits
<1>4. ASSUME NEW s \in Requests \ {r}
      PROVE  /\ job'[s] \in Job \cup {NoJob}
             /\ job'[s].op = job[s].op
             /\ job[s] # NoJob => job'[s].row = job[s].row
             /\ job[s].op \in {"relink", "retag", "repair", "choose"} => job'[s].to = job[s].to
             /\ job[s] # NoJob /\ ~job'[s].late => ~job[s].late /\ job[s].row # job[r].row
  <2>1. job[s] \in Job \cup {NoJob}
    BY DEF TypeOK
  <2>2. CASE job[s] # NoJob /\ job[s].row = job[r].row
    <3>1. job'[s] = [job[s] EXCEPT !.late = TRUE]
      BY <1>1, <2>2 DEF Commits
    <3>2. QED
      BY <2>1, <2>2, <3>1, LateTyped
  <2>3. CASE ~(job[s] # NoJob /\ job[s].row = job[r].row)
    <3>1. job'[s] = job[s]
      BY <1>1, <2>3 DEF Commits
    <3>2. QED
      BY <2>1, <2>3, <3>1
  <2>4. QED
    BY <2>2, <2>3
<1>5. job' \in [Requests -> Job \cup {NoJob}]
  <2>1. DOMAIN job' = Requests /\ job' = [s \in Requests |-> job'[s]]
    BY <1>1 DEF Commits
  <2>2. \A s \in Requests : job'[s] \in Job \cup {NoJob}
    BY <1>3, <1>4
  <2>3. QED
    BY <2>1, <2>2
<1>6. QED
  BY <1>1, <1>2, <1>3, <1>4, <1>5 DEF Commits, Ends

-----------------------------------------------------------------------------
(* The checks, when rows change *)

Settled == <<published, offers, tags, pair, profile>>

(* What was found is still so while nothing is written.                    *)
LEMMA SameFindings ==
  ASSUME UNCHANGED Settled
  PROVE  /\ \A row \in Rows : (Publishable(row) => Publishable(row)')
                              /\ (Retirable(row) => Retirable(row)')
         /\ \A role \in Roles, kept \in Offer :
              LinksRemovable(role, kept) => LinksRemovable(role, kept)'
         /\ \A target \in Target : OnOffer(target) => OnOffer(target)'
         /\ \A c \in Candidates : Has(c)' => Has(c) /\ profile'[c] = profile[c]
  BY DEF Settled, Publishable, Retirable, LinksRemovable, OnOffer, OnePublished, Has,
         LevelUnused, StackUnused, RoleUnused

(* More is published: more can be, and what is on offer stays so.          *)
LEMMA MorePublished ==
  ASSUME published \subseteq published', UNCHANGED <<offers, tags, pair, profile>>
  PROVE  /\ \A row \in Rows : Publishable(row) => Publishable(row)'
         /\ \A target \in Target : OnOffer(target) => OnOffer(target)'
         /\ \A row \in Rows : Reached(row) => Reached(row)'
  BY DEF Publishable, OnOffer, OnePublished, Reached

(* A row that may be withdrawn is nobody's choice.                         *)
LEMMA RetiredIsNotChosen ==
  ASSUME TypeOK, NEW row \in Rows, Retirable(row), NEW c \in Candidates, Has(c),
         OnOffer(profile[c]), published' = published \ {row},
         UNCHANGED <<offers, tags, pair, profile>>
  PROVE  OnOffer(profile[c])'
<1>1. profile[c] \in Target
  BY DEF TypeOK, Has
<1>2. profile[c].role # row /\ profile[c].level # row
  BY <1>1 DEF Retirable, LevelUnused, RoleUnused, Target
<1>3. profile[c].stack # None => profile[c].stack # row
  BY <1>1 DEF Retirable, StackUnused, Target
<1>4. QED
  BY <1>2, <1>3 DEF OnOffer

(* Nor does it leave another row out of reach.                             *)
LEMMA RetiredStrandsNothing ==
  ASSUME TypeOK, NEW gone \in Rows, Retirable(gone), published' = published \ {gone},
         UNCHANGED <<offers, tags, pair>>, NEW row \in published', Reached(row)
  PROVE  Reached(row)'
<1>1. row \in published /\ row # gone
  OBVIOUS
<1>2. row \in Questions =>
        gone \notin tags[row].roles /\ gone \notin tags[row].levels /\ gone \notin tags[row].stacks
  <2>1. SUFFICES ASSUME row \in Questions
                 PROVE  /\ gone \notin tags[row].roles
                        /\ gone \notin tags[row].levels
                        /\ gone \notin tags[row].stacks
    OBVIOUS
  <2>2. /\ tags[row].roles \subseteq Roles /\ tags[row].levels \subseteq Levels
        /\ tags[row].stacks \subseteq Stacks
    BY <2>1 DEF TypeOK, Tags
  <2>3. QED
    BY <1>1, <2>1, <2>2 DEF Retirable, LevelUnused, StackUnused, RoleUnused
<1>3. row \in Roles => gone \notin offers[row].levels
  <2>1. SUFFICES ASSUME row \in Roles PROVE gone \notin offers[row].levels
    OBVIOUS
  <2>2. offers[row].levels \subseteq Levels
    BY <2>1 DEF TypeOK, Offer
  <2>3. QED
    BY <1>1, <2>1, <2>2 DEF Retirable, LevelUnused
<1>4. row \in Tracks => pair[row].role # gone /\ pair[row].level # gone
  <2>1. SUFFICES ASSUME row \in Tracks PROVE pair[row].role # gone /\ pair[row].level # gone
    OBVIOUS
  <2>2. pair[row].role \in Roles /\ pair[row].level \in Levels
    BY <2>1 DEF TypeOK, Pair
  <2>3. QED
    BY <1>1, <2>1, <2>2 DEF Retirable, LevelUnused, RoleUnused
<1>5. \A rows : gone \notin rows /\ OnePublished(rows) => OnePublished(rows)'
  BY DEF OnePublished
<1>6. QED
  BY <1>2, <1>3, <1>4, <1>5 DEF Reached

(* Taking a level or a variant off a role leaves candidates what they      *)
(* chose.                                                                  *)
LEMMA RelinkedIsNotChosen ==
  ASSUME TypeOK, NEW role \in Roles, NEW to \in Offer, LinksRemovable(role, to),
         offers' = [offers EXCEPT ![role] = to], UNCHANGED <<published, profile>>,
         NEW c \in Candidates, Has(c), OnOffer(profile[c])
  PROVE  OnOffer(profile[c])'
<1>1. profile[c] \in Target
  BY DEF TypeOK, Has
<1>2. CASE profile[c].role # role
  <2>1. offers'[profile[c].role] = offers[profile[c].role]
    BY <1>1, <1>2 DEF TypeOK, Target
  <2>2. QED
    BY <2>1 DEF OnOffer
<1>3. CASE profile[c].role = role
  <2>1. offers'[role] = to
    BY DEF TypeOK
  <2>2. profile[c].level \in to.levels
    BY <1>3 DEF LinksRemovable, OnOffer
  <2>3. profile[c].stack # None => profile[c].stack \in to.stacks
    BY <1>3 DEF LinksRemovable, OnOffer
  <2>4. QED
    BY <1>3, <2>1, <2>2, <2>3 DEF OnOffer
<1>4. QED
  BY <1>2, <1>3

-----------------------------------------------------------------------------
(* Findings that a transaction of somebody else leaves alone *)

(* What may be withdrawn may be still, unless it has come to be needed.    *)
LEMMA StaysRetirable ==
  ASSUME TypeOK, NEW r \in Requests, Commit(r), job[r] \in Job,
         NEW row \in Rows, Retirable(row), ~Needs(job[r], row)
  PROVE  Retirable(row)'
<1>1. CASE Publish(r)
  <2>1. /\ job[r].op = "publish" /\ ~HangsOn(job[r].row, row)
        /\ published' = published \cup {job[r].row} /\ UNCHANGED <<offers, tags, pair, profile>>
    BY <1>1 DEF Publish, Commits, Needs
  <2>2. LevelUnused(row) => LevelUnused(row)'
    BY <2>1 DEF LevelUnused, HangsOn, Tagged, Has
  <2>3. StackUnused(row) => StackUnused(row)'
    BY <2>1 DEF StackUnused, HangsOn, Tagged, Has
  <2>4. RoleUnused(row) => RoleUnused(row)'
    BY <2>1 DEF RoleUnused, HangsOn, Tagged, Has
  <2>5. QED
    BY <2>2, <2>3, <2>4 DEF Retirable
<1>2. CASE Retire(r)
  <2>1. published' \subseteq published /\ UNCHANGED <<offers, tags, pair, profile>>
    BY <1>2 DEF Retire
  <2>2. QED
    BY <2>1 DEF Retirable, LevelUnused, StackUnused, RoleUnused, Has
<1>3. CASE Relink(r)
  <2>1. /\ job[r].op = "relink" /\ job[r].row \in Roles
        /\ job[r].row \in published => row \notin job[r].to.levels \cup job[r].to.stacks
        /\ UNCHANGED <<published, tags, pair, profile>>
    BY <1>3, JobTyped DEF Relink, Commits, Needs
  <2>2. \A role \in Roles : offers'[role] = IF role = job[r].row THEN job[r].to ELSE offers[role]
    BY <1>3 DEF Relink, TypeOK
  <2>3. LevelUnused(row) => LevelUnused(row)'
    BY <2>1, <2>2 DEF LevelUnused, Has
  <2>4. StackUnused(row) => StackUnused(row)'
    BY <2>1, <2>2 DEF StackUnused, Has
  <2>5. RoleUnused(row) => RoleUnused(row)'
    BY <2>1 DEF RoleUnused, Has
  <2>6. QED
    BY <2>3, <2>4, <2>5 DEF Retirable
<1>4. CASE Retag(r)
  <2>1. /\ job[r].op = "retag" /\ job[r].row \in Questions
        /\ job[r].row \in published => row \notin Tagged(job[r].to)
        /\ UNCHANGED <<published, offers, pair, profile>>
    BY <1>4, JobTyped DEF Retag, Commits, Needs
  <2>2. \A q \in Questions : tags'[q] = IF q = job[r].row THEN job[r].to ELSE tags[q]
    BY <1>4 DEF Retag, TypeOK
  <2>3. LevelUnused(row) => LevelUnused(row)'
    BY <2>1, <2>2 DEF LevelUnused, Tagged, Has
  <2>4. StackUnused(row) => StackUnused(row)'
    BY <2>1, <2>2 DEF StackUnused, Tagged, Has
  <2>5. RoleUnused(row) => RoleUnused(row)'
    BY <2>1, <2>2 DEF RoleUnused, Tagged, Has
  <2>6. QED
    BY <2>3, <2>4, <2>5 DEF Retirable
<1>5. CASE Repair(r)
  <2>1. /\ job[r].op = "repair" /\ job[r].row \in Tracks
        /\ job[r].row \in published => row \notin {job[r].to.role, job[r].to.level}
        /\ UNCHANGED <<published, offers, tags, profile>>
    BY <1>5, JobTyped DEF Repair, Commits, Needs
  <2>2. \A t \in Tracks : pair'[t] = IF t = job[r].row THEN job[r].to ELSE pair[t]
    BY <1>5 DEF Repair, TypeOK
  <2>3. LevelUnused(row) => LevelUnused(row)'
    BY <2>1, <2>2 DEF LevelUnused, Has
  <2>4. StackUnused(row) => StackUnused(row)'
    BY <2>1 DEF StackUnused, Has
  <2>5. RoleUnused(row) => RoleUnused(row)'
    BY <2>1, <2>2 DEF RoleUnused, Has
  <2>6. QED
    BY <2>3, <2>4, <2>5 DEF Retirable
<1>6. CASE Choose(r)
  <2>1. /\ row \notin {job[r].to.role, job[r].to.level, job[r].to.stack}
        /\ UNCHANGED <<published, offers, tags, pair>>
    BY <1>6 DEF Choose, Commits, Needs
  <2>2. \A c \in Candidates : profile'[c] = job[r].to \/ profile'[c] = profile[c]
    BY <1>6 DEF Choose, TypeOK
  <2>3. LevelUnused(row) => LevelUnused(row)'
    BY <2>1, <2>2 DEF LevelUnused, Has
  <2>4. StackUnused(row) => StackUnused(row)'
    BY <2>1, <2>2 DEF StackUnused, Has
  <2>5. RoleUnused(row) => RoleUnused(row)'
    BY <2>1, <2>2 DEF RoleUnused, Has
  <2>6. QED
    BY <2>3, <2>4, <2>5 DEF Retirable
<1>7. QED
  BY <1>1, <1>2, <1>3, <1>4, <1>5, <1>6 DEF Commit

(* What may be published may be still, unless it was edited or what it     *)
(* hangs on was withdrawn.                                                 *)
LEMMA StaysPublishable ==
  ASSUME TypeOK, NEW r \in Requests, Commit(r),
         NEW row \in Rows, Publishable(row), row # job[r].row,
         ~(job[r].op = "retire" /\ HangsOn(row, job[r].row))
  PROVE  Publishable(row)'
<1>1. CASE Publish(r)
  BY <1>1, MorePublished DEF Publish
<1>2. CASE Retire(r)
  <2>1. /\ ~HangsOn(row, job[r].row) /\ published' = published \ {job[r].row}
        /\ UNCHANGED <<offers, tags>>
    BY <1>2 DEF Retire, Commits
  <2>2. \A rows : job[r].row \notin rows /\ OnePublished(rows) => OnePublished(rows)'
    BY <2>1 DEF OnePublished
  <2>3. QED
    BY <2>1, <2>2 DEF Publishable, HangsOn, Tagged
<1>3. CASE Relink(r)
  BY <1>3 DEF Relink, TypeOK, Publishable, OnePublished
<1>4. CASE Retag(r)
  BY <1>4 DEF Retag, TypeOK, Publishable, OnePublished
<1>5. CASE Repair(r) \/ Choose(r)
  BY <1>5 DEF Repair, Choose, Publishable, OnePublished
<1>6. QED
  BY <1>1, <1>2, <1>3, <1>4, <1>5 DEF Commit

(* What is on offer stays so, unless a part of it is withdrawn or dropped. *)
LEMMA StaysOnOffer ==
  ASSUME TypeOK, NEW r \in Requests, Commit(r), NEW target \in Target, OnOffer(target),
         job[r].op = "retire" => job[r].row \notin {target.role, target.level, target.stack},
         job[r].op = "relink" /\ target.role = job[r].row =>
           /\ target.level \in job[r].to.levels
           /\ target.stack \in job[r].to.stacks \cup {None}
  PROVE  OnOffer(target)'
<1>1. CASE Publish(r)
  BY <1>1, MorePublished DEF Publish
<1>2. CASE Retire(r)
  BY <1>2 DEF Retire, Commits, OnOffer
<1>3. CASE Relink(r)
  <2>1. /\ job[r].op = "relink" /\ published' = published
        /\ offers'[target.role] = IF target.role = job[r].row THEN job[r].to
                                  ELSE offers[target.role]
    BY <1>3 DEF Relink, Commits, TypeOK, Target
  <2>2. QED
    BY <2>1 DEF OnOffer
<1>4. CASE Retag(r) \/ Repair(r) \/ Choose(r)
  BY <1>4 DEF Retag, Repair, Choose, OnOffer
<1>5. QED
  BY <1>1, <1>2, <1>3, <1>4 DEF Commit

(* Links that may go may go still, unless the role was edited or a         *)
(* candidate has chosen by one of them.                                    *)
LEMMA StaysRemovable ==
  ASSUME TypeOK, NEW r \in Requests, Commit(r), job[r] \in Job,
         NEW role \in Roles, NEW kept \in Offer, LinksRemovable(role, kept), role # job[r].row,
         job[r].op = "choose" /\ job[r].to.role = role =>
           /\ job[r].to.level \in kept.levels
           /\ job[r].to.stack \in kept.stacks \cup {None}
  PROVE  LinksRemovable(role, kept)'
<1>1. CASE Choose(r)
  <2>1. job[r].op = "choose" /\ job[r].to \in Target /\ offers' = offers
    BY <1>1, JobTyped DEF Choose, Commits
  <2>2. \A c \in Candidates : profile'[c] = job[r].to \/ profile'[c] = profile[c]
    BY <1>1 DEF Choose, TypeOK
  <2>3. None \notin offers[role].stacks
    <3>1. offers[role].stacks \subseteq Stacks
      BY DEF TypeOK, Offer
    <3>2. QED
      BY <3>1, CatalogueAssumption DEF Rows
  <2>4. QED
    BY <2>1, <2>2, <2>3 DEF LinksRemovable, Has
<1>2. CASE ~Choose(r)
  <2>1. profile' = profile /\ offers'[role] = offers[role]
    BY <1>2 DEF Commit, Publish, Retire, Relink, Retag, Repair, TypeOK
  <2>2. QED
    BY <2>1 DEF LinksRemovable, Has
<1>3. QED
  BY <1>1, <1>2

-----------------------------------------------------------------------------
(* The invariant *)

(* It holds before anything is published or chosen.                        *)
LEMMA InitInv == Init => IInv
<1>1. SUFFICES ASSUME Init PROVE IInv
  OBVIOUS
<1>2. TypeOK
  BY <1>1 DEF Init, TypeOK, Rows
<1>3. Held
  BY <1>1 DEF Init, Held, PublishInv, RetireInv, RelinkInv, ChooseInv, NoJob
<1>4. QED
  BY <1>2, <1>3 DEF IInv

(* A request that asks or gives up leaves the others with what they found. *)
LEMMA QuietStep ==
  ASSUME IInv, NEW r \in Requests, Asking(r) \/ Fails(r)
  PROVE  IInv'
<1>1. TypeOK
  BY DEF IInv
<1>2. PICK j \in Job \cup {NoJob} :
        /\ UNCHANGED <<published, offers, tags, pair, profile>>
        /\ job' \in [Requests -> Job \cup {NoJob}]
        /\ job'[r] = j /\ \A s \in Requests \ {r} : job'[s] = job[s]
        /\ r \notin overtaken' /\ overtaken' = overtaken \ {r}
        /\ j.op = "publish" => Publishable(j.row)
        /\ j.op = "retire" => Retirable(j.row)
        /\ j.op = "relink" => LinksRemovable(j.row, j.to)
        /\ j.op = "choose" => OnOffer(j.to)
  <2>1. CASE Asking(r)
    <3>1. PICK j \in Job :
            /\ Asks(r, j)
            /\ j.op = "publish" => Publishable(j.row)
            /\ j.op = "retire" => Retirable(j.row)
            /\ j.op = "relink" => LinksRemovable(j.row, j.to)
            /\ j.op = "choose" => OnOffer(j.to)
      BY <1>1, <2>1, AskingDoes
    <3>2. job[r] = NoJob
      BY <3>1 DEF Asks
    <3>3. r \notin overtaken
      BY <1>1, <3>2 DEF TypeOK
    <3>4. QED
      BY <1>1, <3>1, <3>3, AsksDoes
  <2>2. CASE Fails(r)
    BY <1>1, <2>2 DEF Fails, Ends, TypeOK, NoJob
  <2>3. QED
    BY <2>1, <2>2
<1>3. UNCHANGED Settled
  BY <1>2 DEF Settled
<1>4. TypeOK'
  BY <1>1, <1>2 DEF TypeOK
<1>5. /\ \A s \in Requests : job'[s] \in Job \cup {NoJob}
      /\ \A s \in Requests \ overtaken' : s = r \/ (job'[s] = job[s] /\ s \notin overtaken)
  BY <1>2
<1>6. PublishInv'
  BY <1>2, <1>3, <1>5, JobTyped, SameFindings DEF IInv, Held, PublishInv
<1>7. RetireInv'
  BY <1>2, <1>3, <1>5, JobTyped, SameFindings DEF IInv, Held, RetireInv
<1>8. RelinkInv'
  BY <1>2, <1>3, <1>5, JobTyped, SameFindings DEF IInv, Held, RelinkInv
<1>9. ChooseInv'
  BY <1>2, <1>3, <1>5, JobTyped, SameFindings DEF IInv, Held, ChooseInv
<1>10. QED
  BY <1>4, <1>6, <1>7, <1>8, <1>9 DEF IInv, Held

(* A transaction upsets those it overtakes and no others.                  *)
LEMMA CommitStep ==
  ASSUME IInv, NEW r \in Requests, Commit(r)
  PROVE  IInv'
<1>1. TypeOK /\ job[r] \in Job
  BY CommitDoes DEF IInv
<1>2. /\ job'[r] = NoJob
      /\ overtaken' = (overtaken \cup {s \in Requests : Upsets(job[r], job[s])}) \ {r}
      /\ job' \in [Requests -> Job \cup {NoJob}]
      /\ \A s \in Requests \ {r} :
           /\ job'[s].op = job[s].op
           /\ job[s] # NoJob => job'[s].row = job[s].row
           /\ job[s].op \in {"relink", "retag", "repair", "choose"} => job'[s].to = job[s].to
           /\ job[s] # NoJob /\ ~job'[s].late => ~job[s].late /\ job[s].row # job[r].row
  BY <1>1, CommitDoes
<1>3. TypeOK'
  <2>1. overtaken' \subseteq {s \in Requests : job'[s] # NoJob}
    <3>1. ASSUME NEW s \in overtaken' PROVE s \in Requests /\ job'[s] # NoJob
      <4>1. s \in Requests \ {r} /\ (s \in overtaken \/ Upsets(job[r], job[s]))
        BY <1>1, <1>2, <3>1 DEF TypeOK
      <4>2. job[s] # NoJob
        BY <1>1, <4>1 DEF TypeOK, Upsets, Drops, NoJob
      <4>3. job[s] \in Job
        BY <1>1, <4>1, <4>2 DEF TypeOK
      <4>4. job'[s].op # "none"
        BY <1>2, <4>1, <4>2, <4>3, JobTyped
      <4>5. QED
        BY <4>1, <4>4 DEF NoJob
    <3>2. QED
      BY <3>1
  <2>2. CASE Publish(r) \/ Retire(r)
    <3>1. job[r].row \in Rows
      BY <1>1, <2>2, JobTyped DEF Publish, Retire, Commits
    <3>2. QED
      BY <1>1, <1>2, <2>1, <2>2, <3>1 DEF Publish, Retire, TypeOK
  <2>3. CASE Relink(r)
    <3>1. job[r].row \in Roles /\ job[r].to \in Offer
      BY <1>1, <2>3, JobTyped DEF Relink, Commits
    <3>2. QED
      BY <1>1, <1>2, <2>1, <2>3, <3>1 DEF Relink, TypeOK
  <2>4. CASE Retag(r)
    <3>1. job[r].row \in Questions /\ job[r].to \in Tags
      BY <1>1, <2>4, JobTyped DEF Retag, Commits
    <3>2. QED
      BY <1>1, <1>2, <2>1, <2>4, <3>1 DEF Retag, TypeOK
  <2>5. CASE Repair(r)
    <3>1. job[r].row \in Tracks /\ job[r].to \in Pair
      BY <1>1, <2>5, JobTyped DEF Repair, Commits
    <3>2. QED
      BY <1>1, <1>2, <2>1, <2>5, <3>1 DEF Repair, TypeOK
  <2>6. CASE Choose(r)
    <3>1. job[r].row \in Candidates /\ job[r].to \in Target
      BY <1>1, <2>6, JobTyped DEF Choose, Commits
    <3>2. QED
      BY <1>1, <1>2, <2>1, <2>6, <3>1 DEF Choose, TypeOK
  <2>7. QED
    BY <2>2, <2>3, <2>4, <2>5, <2>6 DEF Commit
<1>4. ASSUME NEW s \in Requests \ overtaken', job'[s].op # "none"
      PROVE  /\ s # r /\ s \notin overtaken /\ ~Upsets(job[r], job[s])
             /\ job[s] \in Job /\ job[s].op = job'[s].op /\ job[s].row = job'[s].row
             /\ job[s].op \in {"relink", "choose"} => job[s].to = job'[s].to
             /\ ~job'[s].late => ~job[s].late /\ job[s].row # job[r].row
  <2>1. s # r
    BY <1>2, <1>4 DEF NoJob
  <2>2. s \notin overtaken /\ ~Upsets(job[r], job[s])
    BY <1>2, <1>4, <2>1
  <2>3. job[s].op = job'[s].op /\ job[s] # NoJob
    BY <1>2, <1>4, <2>1 DEF NoJob
  <2>4. job[s] \in Job
    BY <1>1, <1>4, <2>3 DEF TypeOK
  <2>5. QED
    BY <1>2, <1>4, <2>1, <2>2, <2>3, <2>4
<1>5. PublishInv'
  <2>1. SUFFICES ASSUME NEW s \in Requests \ overtaken', job'[s].op = "publish", ~job'[s].late
                 PROVE  Publishable(job[s].row)'
    BY DEF PublishInv
  <2>2. /\ s # r /\ s \notin overtaken /\ ~Upsets(job[r], job[s])
        /\ job[s] \in Job /\ job[s].op = "publish" /\ job[s].row = job'[s].row
        /\ ~job[s].late /\ job[s].row # job[r].row
    BY <1>4, <2>1
  <2>3. Publishable(job[s].row) /\ job[s].row \in Rows
    BY <2>2, JobTyped DEF IInv, Held, PublishInv
  <2>4. ~(job[r].op = "retire" /\ HangsOn(job[s].row, job[r].row))
    BY <2>2 DEF Upsets, Needs
  <2> DEFINE row == job[s].row
  <2>5. row \in Rows /\ Publishable(row) /\ row # job[r].row
        /\ ~(job[r].op = "retire" /\ HangsOn(row, job[r].row))
    BY <2>2, <2>3, <2>4
  <2> HIDE DEF row
  <2>6. \A x \in Rows : /\ Publishable(x) /\ x # job[r].row
                        /\ ~(job[r].op = "retire" /\ HangsOn(x, job[r].row))
                        => Publishable(x)'
    BY <1>1, StaysPublishable
  <2>7. job'[s].row \in Rows /\ job'[s].row = row
    BY <2>2, <2>5 DEF row
  <2>8. QED
    BY <2>5, <2>6, <2>7
<1>6. RetireInv'
  <2>1. SUFFICES ASSUME NEW s \in Requests \ overtaken', job'[s].op = "retire"
                 PROVE  Retirable(job[s].row)'
    BY DEF RetireInv
  <2>2. /\ s \notin overtaken /\ ~Upsets(job[r], job[s])
        /\ job[s] \in Job /\ job[s].op = "retire" /\ job[s].row = job'[s].row
    BY <1>4, <2>1
  <2>3. Retirable(job[s].row) /\ job[s].row \in Rows /\ ~Needs(job[r], job[s].row)
    BY <2>2, JobTyped DEF IInv, Held, RetireInv, Upsets
  <2>4. \A x \in Rows : Retirable(x) /\ ~Needs(job[r], x) => Retirable(x)'
    BY <1>1, StaysRetirable
  <2>5. QED
    BY <2>2, <2>3, <2>4
<1>7. RelinkInv'
  <2>1. SUFFICES ASSUME NEW s \in Requests \ overtaken', job'[s].op = "relink", ~job'[s].late
                 PROVE  LinksRemovable(job[s].row, job[s].to)'
    BY DEF RelinkInv
  <2>2. /\ s \notin overtaken /\ ~Upsets(job[r], job[s])
        /\ job[s] \in Job /\ job[s].op = "relink"
        /\ job[s].row = job'[s].row /\ job[s].to = job'[s].to
        /\ ~job[s].late /\ job[s].row # job[r].row
    BY <1>4, <2>1
  <2>3. LinksRemovable(job[s].row, job[s].to) /\ job[s].row \in Roles /\ job[s].to \in Offer
    BY <2>2, JobTyped DEF IInv, Held, RelinkInv
  <2>4. job[r].op = "choose" /\ job[r].to.role = job[s].row =>
          /\ job[r].to.level \in job[s].to.levels
          /\ job[r].to.stack \in job[s].to.stacks \cup {None}
    BY <2>2 DEF Upsets, Drops
  <2>5. \A role \in Roles, kept \in Offer :
          /\ LinksRemovable(role, kept) /\ role # job[r].row
          /\ job[r].op = "choose" /\ job[r].to.role = role =>
               /\ job[r].to.level \in kept.levels
               /\ job[r].to.stack \in kept.stacks \cup {None}
          => LinksRemovable(role, kept)'
    BY <1>1, StaysRemovable
  <2>6. QED
    BY <2>2, <2>3, <2>4, <2>5
<1>8. ChooseInv'
  <2>1. SUFFICES ASSUME NEW s \in Requests \ overtaken', job'[s].op = "choose"
                 PROVE  OnOffer(job[s].to)'
    BY DEF ChooseInv
  <2>2. /\ s \notin overtaken /\ ~Upsets(job[r], job[s])
        /\ job[s] \in Job /\ job[s].op = "choose" /\ job[s].to = job'[s].to
    BY <1>4, <2>1
  <2>3. OnOffer(job[s].to) /\ job[s].to \in Target
    BY <2>2, JobTyped DEF IInv, Held, ChooseInv
  <2>4. /\ job[r].op = "retire" =>
             job[r].row \notin {job[s].to.role, job[s].to.level, job[s].to.stack}
        /\ job[r].op = "relink" /\ job[s].to.role = job[r].row =>
             /\ job[s].to.level \in job[r].to.levels
             /\ job[s].to.stack \in job[r].to.stacks \cup {None}
    BY <2>2 DEF Upsets, Needs, Drops
  <2>5. \A target \in Target :
          /\ OnOffer(target)
          /\ job[r].op = "retire" => job[r].row \notin {target.role, target.level, target.stack}
          /\ job[r].op = "relink" /\ target.role = job[r].row =>
               /\ target.level \in job[r].to.levels
               /\ target.stack \in job[r].to.stacks \cup {None}
          => OnOffer(target)'
    BY <1>1, StaysOnOffer
  <2>6. QED
    BY <2>2, <2>3, <2>4, <2>5
<1>9. QED
  BY <1>3, <1>5, <1>6, <1>7, <1>8 DEF IInv, Held

(* No step breaks it.                                                      *)
LEMMA StepInv ==
  ASSUME IInv, [Next]_vars
  PROVE  IInv'
<1>1. ASSUME NEW r \in Requests, Asking(r) \/ Commit(r) \/ Fails(r) PROVE IInv'
  BY <1>1, QuietStep, CommitStep
<1>2. CASE UNCHANGED vars
  BY <1>2 DEF IInv, TypeOK, Held, PublishInv, RetireInv, RelinkInv, ChooseInv,
              Publishable, Retirable, LinksRemovable, OnOffer, OnePublished, Has, LevelUnused,
              StackUnused, RoleUnused, vars
<1>3. QED
  BY <1>1, <1>2 DEF Next, Asking, Commit

-----------------------------------------------------------------------------
(* Steps *)

(* A transaction nobody has overtaken writes what its request found.       *)
LEMMA FoundIsSo ==
  ASSUME IInv, NEW r \in Requests, Commit(r), ~MissesSomething
  PROVE  /\ TypeOK /\ job[r] \in Job /\ r \notin overtaken
         /\ Publish(r) => Publishable(job[r].row) /\ job[r].row \in Rows
         /\ Retire(r) => Retirable(job[r].row) /\ job[r].row \in Rows
         /\ Relink(r) => /\ LinksRemovable(job[r].row, job[r].to)
                         /\ job[r].row \in Roles /\ job[r].to \in Offer
         /\ Choose(r) => OnOffer(job[r].to) /\ job[r].to \in Target
<1>1. TypeOK /\ job[r] \in Job /\ job'[r] = NoJob
  BY CommitDoes DEF IInv
<1>2. r \notin overtaken
  BY <1>1 DEF MissesSomething
<1>3. /\ Publish(r) => job[r].op = "publish" /\ ~job[r].late
      /\ Retire(r) => job[r].op = "retire"
      /\ Relink(r) => job[r].op = "relink" /\ ~job[r].late
      /\ Choose(r) => job[r].op = "choose"
  BY DEF Publish, Retire, Relink, Choose, Commits
<1>4. QED
  BY <1>1, <1>2, <1>3, JobTyped DEF IInv, Held, PublishInv, RetireInv, RelinkInv, ChooseInv

(* A step from a state of the invariant keeps every choice on offer.       *)
LEMMA StepKeepsChoices ==
  ASSUME IInv, [Next]_vars, ~MissesSomething, NEW c \in Candidates, Has(c)',
         profile'[c] = profile[c] => OnOffer(profile[c])
  PROVE  OnOffer(profile[c])'
<1>1. TypeOK
  BY DEF IInv
<1>2. profile'[c] = profile[c] => Has(c) /\ profile[c] \in Target
  BY <1>1 DEF Has, TypeOK
<1>3. CASE UNCHANGED <<published, offers, profile>>
  BY <1>3 DEF OnOffer
<1>4. ASSUME NEW r \in Requests, Commit(r) PROVE OnOffer(profile[c])'
  <2>1. CASE Publish(r) \/ Retag(r) \/ Repair(r)
    <3>1. published \subseteq published' /\ UNCHANGED <<offers, profile>>
      BY <2>1 DEF Publish, Retag, Repair
    <3>2. QED
      BY <3>1 DEF OnOffer
  <2>2. CASE Retire(r)
    <3>1. /\ published' = published \ {job[r].row} /\ UNCHANGED <<offers, tags, pair, profile>>
          /\ Retirable(job[r].row) /\ job[r].row \in Rows
      BY <1>4, <2>2, FoundIsSo DEF Retire
    <3>2. QED
      BY <1>1, <1>2, <3>1, RetiredIsNotChosen
  <2>3. CASE Relink(r)
    <3>1. /\ offers' = [offers EXCEPT ![job[r].row] = job[r].to] /\ UNCHANGED <<published, profile>>
          /\ LinksRemovable(job[r].row, job[r].to)
          /\ job[r].row \in Roles /\ job[r].to \in Offer
      BY <1>4, <2>3, FoundIsSo DEF Relink
    <3>2. QED
      BY <1>1, <1>2, <3>1, RelinkedIsNotChosen
  <2>4. CASE Choose(r)
    <3>1. /\ UNCHANGED <<published, offers>> /\ OnOffer(job[r].to)
          /\ profile'[c] = job[r].to \/ profile'[c] = profile[c]
      BY <1>1, <1>4, <2>4, FoundIsSo DEF Choose, TypeOK
    <3>2. \A to : OnOffer(to) /\ profile'[c] = to => OnOffer(profile[c])'
      BY <3>1 DEF OnOffer
    <3>3. QED
      BY <3>1, <3>2
  <2>5. QED
    BY <1>4, <2>1, <2>2, <2>3, <2>4 DEF Commit
<1>5. ASSUME NEW r \in Requests, Asking(r) \/ Fails(r)
      PROVE  UNCHANGED <<published, offers, profile>>
  BY <1>1, <1>5, AskingDoes, AsksDoes DEF Fails
<1>6. QED
  BY <1>3, <1>4, <1>5 DEF Next, Asking, Commit, vars

(* The body of NothingIsStranded.                                          *)
StrandsNothing ==
  /\ \A row \in published \cap published' : Reached(row) => Reached(row)' \/ Edited(row)
  /\ \A row \in (published' \ published) \ Tracks : Reached(row)'

(* A step from a state of the invariant strands nothing.                   *)
LEMMA StepStrandsNothing ==
  ASSUME IInv, [Next]_vars, ~MissesSomething
  PROVE  StrandsNothing
<1>1. TypeOK
  BY DEF IInv
<1>2. CASE UNCHANGED <<published, offers, tags, pair>>
  BY <1>2 DEF StrandsNothing, Reached, OnePublished
<1>3. ASSUME NEW r \in Requests, Commit(r) PROVE StrandsNothing
  <2>1. CASE Publish(r)
    <3>1. /\ job[r].row \in Rows /\ Publishable(job[r].row)
          /\ published' = published \cup {job[r].row}
          /\ UNCHANGED <<offers, tags, pair, profile>>
      BY <1>3, <2>1, FoundIsSo DEF Publish
    <3>2. \A row \in Rows : Reached(row) => Reached(row)'
      BY <3>1, MorePublished
    <3>3. \A row \in Rows : row = job[r].row /\ row \notin Tracks => Reached(row)'
      BY <3>1 DEF Publishable, Reached, OnePublished
    <3>4. QED
      BY <1>1, <3>1, <3>2, <3>3 DEF StrandsNothing, TypeOK
  <2>2. CASE Retire(r)
    <3>1. /\ job[r].row \in Rows /\ Retirable(job[r].row)
          /\ published' = published \ {job[r].row} /\ UNCHANGED <<offers, tags, pair>>
      BY <1>3, <2>2, FoundIsSo DEF Retire
    <3>2. QED
      BY <1>1, <3>1, RetiredStrandsNothing DEF StrandsNothing
  <2>3. CASE Relink(r) \/ Retag(r) \/ Repair(r)
    BY <2>3 DEF StrandsNothing, Edited, Reached, OnePublished, Relink, Retag, Repair
  <2>4. CASE Choose(r)
    BY <1>2, <2>4 DEF Choose
  <2>5. QED
    BY <1>3, <2>1, <2>2, <2>3, <2>4 DEF Commit
<1>4. ASSUME NEW r \in Requests, Asking(r) \/ Fails(r)
      PROVE  UNCHANGED <<published, offers, tags, pair>>
  BY <1>1, <1>4, AskingDoes, AsksDoes DEF Fails
<1>5. QED
  BY <1>2, <1>3, <1>4 DEF Next, Asking, Commit, vars

-----------------------------------------------------------------------------
(* Theorems *)

(* The invariant holds in every state of the catalogue.                    *)
THEOREM Invariance == Spec => []IInv
<1>1. Init => IInv
  BY InitInv
<1>2. IInv /\ [Next]_vars => IInv'
  BY StepInv
<1>3. QED
  BY <1>1, <1>2, PTL DEF Spec

(* Every variable has its type.                                            *)
THEOREM TypeCorrect == Spec => []TypeOK
<1>1. IInv => TypeOK
  BY DEF IInv
<1>2. QED
  BY <1>1, Invariance, PTL

(* Whoever chooses what to prepare for chooses what is on offer and keeps  *)
(* it, whatever else goes on, unless the very row chosen was withdrawn by  *)
(* a request that overlapped the choice.                                   *)
THEOREM ProfilesKept == Spec => ProfilesStayOnOffer
<1>1. IInv /\ [Next]_vars =>
        [\A c \in Candidates :
           Has(c)' /\ (profile'[c] = profile[c] => OnOffer(profile[c]))
           => OnOffer(profile[c])' \/ MissesSomething]_vars
  BY StepKeepsChoices
<1>2. QED
  BY <1>1, Invariance, PTL DEF Spec, ProfilesStayOnOffer

(* Withdrawing a row puts no other published row out of reach, and what    *)
(* comes out is in reach, unless another request overlapped that withdrew  *)
(* or came to need the same row.                                           *)
THEOREM NothingStranded == Spec => NothingIsStranded
<1>1. IInv /\ [Next]_vars =>
        [\/ /\ \A row \in published \cap published' : Reached(row) => Reached(row)' \/ Edited(row)
            /\ \A row \in (published' \ published) \ Tracks : Reached(row)'
         \/ MissesSomething]_vars
  BY StepStrandsNothing DEF StrandsNothing
<1>2. QED
  BY <1>1, Invariance, PTL DEF Spec, NothingIsStranded
=============================================================================
