----------------------------- MODULE Catalogue -----------------------------
(***************************************************************************)
(* The rows content hangs on: a question on its roles, levels, variants    *)
(* (stacks) and rubric, a track on its role and level, a role on its       *)
(* levels and variants, and a candidate's profile on what they chose.      *)
(*                                                                         *)
(* No foreign key asks for a published row.  What keeps candidates from    *)
(* being left with something withdrawn are checks made before a            *)
(* transaction that looks at none of it again.                             *)
(*                                                                         *)
(* Of a row's status only "published" is kept, with what takes it there    *)
(* and away: the other statuses are ContentWorkflow's, and so is the key   *)
(* that lets a row be written only by a request that has seen it as it is. *)
(* Everybody acting has an admin's rights.                                 *)
(***************************************************************************)
EXTENDS Integers

CONSTANTS Roles, Levels, Stacks, Rubrics, Questions, Tracks,
          Candidates, Requests,
          None         \* no variant, no profile

Rows == UNION {Roles, Levels, Stacks, Rubrics, Questions, Tracks}

ASSUME CatalogueAssumption ==
  /\ None \notin Rows
  /\ \A A, B \in {Roles, Levels, Stacks, Rubrics, Questions, Tracks} : A = B \/ A \cap B = {}

VARIABLES
  published,   \* the rows candidates may be shown
  offers,      \* a role's levels and variants
  tags,        \* what a question is tagged with, and its rubric
  pair,        \* a track's role and level
  profile,     \* what a candidate is preparing for
  job,         \* what each request is about to write
  overtaken    \* history: requests that have missed something they asked about

vars == <<published, offers, tags, pair, profile, job, overtaken>>

-----------------------------------------------------------------------------
Offer == [levels : SUBSET Levels, stacks : SUBSET Stacks]

Tags == [roles : SUBSET Roles \ {{}}, levels : SUBSET Levels \ {{}},
         stacks : SUBSET Stacks, rubric : Rubrics]

Pair == [role : Roles, level : Levels]

Target == [role : Roles, level : Levels, stack : Stacks \cup {None}]

(* late: the row was written since it was read.                            *)
Job == [op : {"publish", "retire"}, row : Rows, late : BOOLEAN]
  \cup [op : {"relink"}, row : Roles, to : Offer, late : BOOLEAN]
  \cup [op : {"retag"}, row : Questions, to : Tags, late : BOOLEAN]
  \cup [op : {"repair"}, row : Tracks, to : Pair, late : BOOLEAN]
  \cup [op : {"choose"}, row : Candidates, to : Target, late : BOOLEAN]

NoJob == [op |-> "none"]

(* Content is created with links of any kind and published later.          *)
Init ==
  /\ published = {}
  /\ offers \in [Roles -> Offer]
  /\ tags \in [Questions -> Tags]
  /\ pair \in [Tracks -> Pair]
  /\ profile = [c \in Candidates |-> None]
  /\ job = [r \in Requests |-> NoJob]
  /\ overtaken = {}

-----------------------------------------------------------------------------
(* What is asked before a row is published or withdrawn.                   *)

OnePublished(rows) == rows \cap published # {}

Publishable(row) ==
  /\ row \in Questions =>
       /\ tags[row].rubric \in published
       /\ OnePublished(tags[row].roles)
       /\ OnePublished(tags[row].levels)
       /\ tags[row].stacks # {} => OnePublished(tags[row].stacks)
  /\ row \in Roles => OnePublished(offers[row].levels)

Has(c) == profile[c] # None

(* Mutant: a published track does not keep its level.                      *)
LevelLeft(level) ==
  /\ \A role \in Roles \cap published : level \notin offers[role].levels
  /\ \A q \in Questions \cap published : level \notin tags[q].levels
  /\ \A c \in Candidates : Has(c) => profile[c].level # level

LevelUnused(level) ==
  /\ \A role \in Roles \cap published : level \notin offers[role].levels
  /\ \A t \in Tracks \cap published : pair[t].level # level
  /\ \A q \in Questions \cap published : level \notin tags[q].levels
  /\ \A c \in Candidates : Has(c) => profile[c].level # level

StackUnused(stack) ==
  /\ \A role \in Roles \cap published : stack \notin offers[role].stacks
  /\ \A q \in Questions \cap published : stack \notin tags[q].stacks
  /\ \A c \in Candidates : Has(c) => profile[c].stack # stack

RoleUnused(role) ==
  /\ \A t \in Tracks \cap published : pair[t].role # role
  /\ \A q \in Questions \cap published : role \notin tags[q].roles
  /\ \A c \in Candidates : Has(c) => profile[c].role # role

Retirable(row) ==
  /\ row \in Levels => LevelUnused(row)
  /\ row \in Stacks => StackUnused(row)
  /\ row \in Roles => RoleUnused(row)

(* Mutant: a level or a variant may be taken off a role at any time.       *)
AlwaysRemovable(role, kept) == TRUE

LinksRemovable(role, kept) ==
  \A c \in Candidates : Has(c) /\ profile[c].role = role =>
    /\ profile[c].level \notin offers[role].levels \ kept.levels
    /\ profile[c].stack \notin offers[role].stacks \ kept.stacks

(* resolveTarget: a published role, with a published level and variant it  *)
(* offers.                                                                 *)
OnOffer(target) ==
  /\ target.role \in published
  /\ target.level \in offers[target.role].levels \cap published
  /\ target.stack # None => target.stack \in offers[target.role].stacks \cap published

-----------------------------------------------------------------------------
(* A request reads and checks ...                                          *)

Asks(r, newJob) ==
  /\ job[r] = NoJob
  /\ job' = [job EXCEPT ![r] = newJob]
  /\ UNCHANGED <<published, offers, tags, pair, profile, overtaken>>

AskPublish(r) ==
  \E row \in Rows \ published :
    /\ Publishable(row)
    /\ Asks(r, [op |-> "publish", row |-> row, late |-> FALSE])

AskRetire(r) ==
  \E row \in published :
    /\ Retirable(row)
    /\ Asks(r, [op |-> "retire", row |-> row, late |-> FALSE])

(* The same content again is not written.                                  *)
AskRelink(r) ==
  \E role \in Roles : \E to \in Offer \ {offers[role]} :
    /\ LinksRemovable(role, to)
    /\ Asks(r, [op |-> "relink", row |-> role, to |-> to, late |-> FALSE])

AskRetag(r) ==
  \E q \in Questions : \E to \in Tags \ {tags[q]} :
    Asks(r, [op |-> "retag", row |-> q, to |-> to, late |-> FALSE])

AskRepair(r) ==
  \E t \in Tracks : \E to \in Pair \ {pair[t]} :
    Asks(r, [op |-> "repair", row |-> t, to |-> to, late |-> FALSE])

AskChoose(r) ==
  \E c \in Candidates, to \in Target :
    /\ OnOffer(to)
    /\ Asks(r, [op |-> "choose", row |-> c, to |-> to, late |-> FALSE])

-----------------------------------------------------------------------------
(* ... and writes later.                                                   *)

(* The rows a row hangs on, and those a request makes a candidate or a     *)
(* published row hang on.                                                  *)
Tagged(t) == t.roles \cup t.levels \cup t.stacks \cup {t.rubric}

HangsOn(row, on) ==
  \/ row \in Questions /\ on \in Tagged(tags[row])
  \/ row \in Roles /\ on \in offers[row].levels \cup offers[row].stacks
  \/ row \in Tracks /\ on \in {pair[row].role, pair[row].level}

Needs(j, on) ==
  \/ j.op = "publish" /\ HangsOn(j.row, on)
  \/ j.op = "relink" /\ j.row \in published /\ on \in j.to.levels \cup j.to.stacks
  \/ j.op = "retag" /\ j.row \in published /\ on \in Tagged(j.to)
  \/ j.op = "repair" /\ j.row \in published /\ on \in {j.to.role, j.to.level}
  \/ j.op = "choose" /\ on \in {j.to.role, j.to.level, j.to.stack}

Drops(relink, choice) ==
  /\ relink.op = "relink" /\ choice.op = "choose" /\ choice.to.role = relink.row
  /\ \/ choice.to.level \notin relink.to.levels
     \/ choice.to.stack \notin relink.to.stacks \cup {None}

(* What one request writes is just what the other has asked about: the row *)
(* one withdraws is a row the other needs.                                 *)
Upsets(written, asked) ==
  \/ asked.op = "retire" /\ Needs(written, asked.row)
  \/ written.op = "retire" /\ asked.op \in {"publish", "choose"} /\ Needs(asked, written.row)
  \/ Drops(written, asked) \/ Drops(asked, written)

Ends(r, upset) == overtaken' = (overtaken \cup upset) \ {r}

(* Whoever else had read the row is late now.                              *)
Commits(r, op) ==
  /\ job[r].op = op
  /\ job' = [s \in Requests |->
               IF s = r THEN NoJob
               ELSE IF job[s] # NoJob /\ job[s].row = job[r].row
                    THEN [job[s] EXCEPT !.late = TRUE] ELSE job[s]]
  /\ Ends(r, {s \in Requests : Upsets(job[r], job[s])})

Publish(r) ==
  /\ Commits(r, "publish") /\ ~job[r].late
  /\ published' = published \cup {job[r].row}
  /\ UNCHANGED <<offers, tags, pair, profile>>

Retire(r) ==
  /\ Commits(r, "retire") /\ ~job[r].late
  /\ published' = published \ {job[r].row}
  /\ UNCHANGED <<offers, tags, pair, profile>>

Relink(r) ==
  /\ Commits(r, "relink") /\ ~job[r].late
  /\ offers' = [offers EXCEPT ![job[r].row] = job[r].to]
  /\ UNCHANGED <<published, tags, pair, profile>>

Retag(r) ==
  /\ Commits(r, "retag") /\ ~job[r].late
  /\ tags' = [tags EXCEPT ![job[r].row] = job[r].to]
  /\ UNCHANGED <<published, offers, pair, profile>>

Repair(r) ==
  /\ Commits(r, "repair") /\ ~job[r].late
  /\ pair' = [pair EXCEPT ![job[r].row] = job[r].to]
  /\ UNCHANGED <<published, offers, tags, profile>>

(* A profile has no version: the last upsert stands.                       *)
Choose(r) ==
  /\ Commits(r, "choose")
  /\ profile' = [profile EXCEPT ![job[r].row] = job[r].to]
  /\ UNCHANGED <<published, offers, tags, pair>>

(* A late request is told so, and any may fail.                            *)
Fails(r) ==
  /\ job[r] # NoJob
  /\ job' = [job EXCEPT ![r] = NoJob]
  /\ Ends(r, {})
  /\ UNCHANGED <<published, offers, tags, pair, profile>>

-----------------------------------------------------------------------------
Next ==
  \E r \in Requests :
    \/ AskPublish(r) \/ AskRetire(r) \/ AskRelink(r) \/ AskRetag(r) \/ AskRepair(r)
    \/ AskChoose(r) \/ Publish(r) \/ Retire(r) \/ Relink(r) \/ Retag(r) \/ Repair(r)
    \/ Choose(r) \/ Fails(r)

Spec == Init /\ [][Next]_vars

-----------------------------------------------------------------------------
(* Properties *)

TypeOK ==
  /\ published \subseteq Rows
  /\ offers \in [Roles -> Offer]
  /\ tags \in [Questions -> Tags]
  /\ pair \in [Tracks -> Pair]
  /\ profile \in [Candidates -> Target \cup {None}]
  /\ job \in [Requests -> Job \cup {NoJob}]
  /\ overtaken \subseteq {r \in Requests : job[r] # NoJob}

(* Everything is asked before a transaction that asks nothing again, so    *)
(* there is one way past the checks: another request commits in between    *)
(* and withdraws, or starts to need, the very row the first asked about.   *)
MissesSomething == \E r \in overtaken : job'[r] = NoJob

(* A choice made is never taken away behind a candidate's back (ADR-0015   *)
(* decision 7): whoever chooses is on a published role at a published      *)
(* level and variant it offers, and stays there, so the interview they     *)
(* start by default is neither refused nor stripped of its variant; unless *)
(* the choice, or what takes it away, has missed the other.                *)
ProfilesStayOnOffer ==
  [][\A c \in Candidates :
       Has(c)' /\ (profile'[c] = profile[c] => OnOffer(profile[c]))
       => OnOffer(profile[c])' \/ MissesSomething]_vars

(* A published row somebody can be shown: on each axis it is tagged on,    *)
(* one of its catalogue rows is published.                                 *)
Reached(row) ==
  /\ row \in Questions =>
       /\ OnePublished(tags[row].roles)
       /\ OnePublished(tags[row].levels)
       /\ tags[row].stacks # {} => OnePublished(tags[row].stacks)
  /\ row \in Roles => OnePublished(offers[row].levels)
  /\ row \in Tracks => pair[row].role \in published /\ pair[row].level \in published

Edited(row) ==
  \/ row \in Questions /\ tags'[row] # tags[row]
  \/ row \in Roles /\ offers'[row] # offers[row]
  \/ row \in Tracks /\ pair'[row] # pair[row]

(* Only its own editor can put a published role, question or track out of  *)
(* reach: withdrawing one row never strands another, and a role or a       *)
(* question that comes out is in reach.  A question's rubric is left out:  *)
(* nothing asks before a rubric is retired.  The exception is once more a  *)
(* request that has missed what it asked about.                            *)
NothingIsStranded ==
  [][\/ /\ \A row \in published \cap published' : Reached(row) => Reached(row)' \/ Edited(row)
        /\ \A row \in (published' \ published) \ Tracks : Reached(row)'
     \/ MissesSomething]_vars
=============================================================================
