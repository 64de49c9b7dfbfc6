--------------------------- MODULE InterviewPlan ---------------------------
(***************************************************************************)
(* Which questions an interview asks, session after session.               *)
(*                                                                         *)
(* A request resolves its audience, reads the questions that audience may  *)
(* be asked and what this candidate was asked before, draws a plan one     *)
(* question at a time and pins it.  Meanwhile the session the candidate    *)
(* has running may go on asking.  Starting a new one ends it.              *)
(*                                                                         *)
(* A draw among fresh questions is weighted, toward weak topics and away   *)
(* from those used; no weight is zero, so it may give any of them.         *)
(***************************************************************************)
EXTENDS Integers, FiniteSets, SequencesExt

CONSTANTS
  Questions, Types, TypeOf,
  Stacks, StacksOf,      \* the variants a question is tagged for, if any
  None,                  \* no variant chosen
  Supported,             \* the role's types, in its order
  Budgets,               \* how many questions a session of each length has
  RecentSessions,        \* recentSessionsExcluded, 3 in the code
  HistorySessions,       \* 20 in the code
  Kept                   \* earlier sessions remembered by the model

ASSUME PlanAssumption ==
  /\ IsFiniteSet(Questions)
  /\ TypeOf \in [Questions -> Types] /\ StacksOf \in [Questions -> SUBSET Stacks]
  /\ Supported \in Seq(Types) /\ IsInjective(Supported) /\ Len(Supported) > 0
  /\ Budgets \subseteq Nat \ {0}
  /\ {RecentSessions, HistorySessions, Kept} \subseteq Nat
  /\ RecentSessions <= HistorySessions /\ RecentSessions <= Kept + 1

VARIABLES
  past,     \* what each earlier session asked, oldest first
  live,     \* the latest session: its plan, and how many were asked
  draft     \* the plan being drawn

vars == <<past, live, draft>>

-----------------------------------------------------------------------------
Asked == SubSeq(live.plan, 1, live.asked)

Sessions == Append(past, Asked)

Latest(n, seq) == SubSeq(seq, IF Len(seq) > n THEN Len(seq) - n + 1 ELSE 1, Len(seq))

Plans == {p \in SeqOf(Questions, Cardinality(Questions)) : IsInjective(p)}

Draft == [pool : SUBSET Questions, types : Seq(Types), count : Budgets,
          seen : Seq(Plans), mark : Nat, plan : Plans]

NoDraft == [pool |-> {}]

(* A candidate who has never practised.                                    *)
Init ==
  /\ past = <<>>
  /\ live = [plan |-> <<>>, asked |-> 0]
  /\ draft = NoDraft

-----------------------------------------------------------------------------
(* The running session reaches its next question.                          *)
Ask ==
  /\ live.asked < Len(live.plan)
  /\ live' = [live EXCEPT !.asked = @ + 1]
  /\ UNCHANGED <<past, draft>>

(* The stack rule: an untagged question is for everybody, a tagged one for *)
(* those on one of its variants.                                           *)
OfferedToStack(q, stack) ==
  StacksOf[q] = {} \/ stack \in StacksOf[q]

Eligible(shown, types, stack) ==
  {q \in shown : TypeOf[q] \in Range(types) /\ OfferedToStack(q, stack)}

(* The preset mix of the role, or the types asked for, in the order asked. *)
TypesFor == {Supported} \cup {ts \in SeqOf(Range(Supported), Len(Supported)) :
                                ts # <<>> /\ IsInjective(ts)}

(* `shown' are the published questions with a published rubric, for the    *)
(* audience's role and level.  Of the history only what was asked counts,  *)
(* not what was planned.  (Nothing a session does changes the pool, so the *)
(* two are read at once.)  `mark' is history: how far the running session  *)
(* was.                                                                    *)
Read ==
  /\ draft = NoDraft
  /\ \E shown \in SUBSET Questions, types \in TypesFor, stack \in Stacks \cup {None},
        count \in Budgets :
       draft' = [pool |-> Eligible(shown, types, stack), types |-> types, count |-> count,
                 seen |-> Latest(HistorySessions, Sessions), mark |-> live.asked, plan |-> <<>>]
  /\ UNCHANGED <<past, live>>

Drawing == draft # NoDraft

AskedIn(q, sessions) == \E s \in Range(sessions) : q \in Range(s)

(* Mutant: the session just before is not counted.                         *)
SeenBeforeLast(q) == AskedIn(q, Latest(RecentSessions - 1, draft.seen))

SeenRecently(q) == AskedIn(q, Latest(RecentSessions, draft.seen))

(* p was last asked no later than q was, or never.                         *)
LastSeenNoLater(p, q, sessions) ==
  \A s \in DOMAIN sessions : \A i \in DOMAIN sessions[s] : sessions[s][i] = p =>
    \E t \in DOMAIN sessions : \E j \in DOMAIN sessions[t] :
      sessions[t][j] = q /\ (s < t \/ (s = t /\ i <= j))

Remaining == draft.pool \ Range(draft.plan)

AskedOf(type) == Cardinality({q \in Range(draft.plan) : TypeOf[q] = type})

(* The types that have a question left, by their place in the request.     *)
Open == {i \in DOMAIN draft.types : \E q \in Remaining : TypeOf[q] = draft.types[i]}

(* Mutant: always the first type that has a question left.                 *)
FirstType == draft.types[Min(Open)]

(* The least asked of them; among equals, the first.                       *)
NextType ==
  LET least == {i \in Open : \A j \in Open : AskedOf(draft.types[i]) <= AskedOf(draft.types[j])}
  IN  draft.types[Min(least)]

Fresh == {q \in Remaining : TypeOf[q] = NextType /\ ~SeenRecently(q)}

LeastRecentlySeen ==
  {q \in Remaining : /\ TypeOf[q] = NextType
                     /\ \A p \in Remaining : TypeOf[p] = NextType =>
                          LastSeenNoLater(q, p, draft.seen)}

Unfinished == Len(draft.plan) < draft.count /\ Open # {}

Draw ==
  /\ Drawing /\ Unfinished
  /\ \E q \in IF Fresh # {} THEN Fresh ELSE LeastRecentlySeen :
       draft' = [draft EXCEPT !.plan = Append(@, q)]
  /\ UNCHANGED <<past, live>>

(* The plan is pinned, and the session that was running is abandoned.      *)
Create ==
  /\ Drawing /\ ~Unfinished /\ draft.plan # <<>>
  /\ past' = IF live.plan = <<>> THEN past ELSE Latest(Kept, Sessions)
  /\ live' = [plan |-> draft.plan, asked |-> 0]
  /\ draft' = NoDraft

(* no_questions_available, or a request that breaks off.                   *)
Fails ==
  /\ draft # NoDraft
  /\ draft' = NoDraft
  /\ UNCHANGED <<past, live>>

Next == Ask \/ Read \/ Draw \/ Create \/ Fails

Spec == Init /\ [][Next]_vars

-----------------------------------------------------------------------------
(* Properties *)

TypeOK ==
  /\ past \in Seq(Plans) /\ Len(past) <= Kept
  /\ live.plan \in Plans /\ live.asked \in 0 .. Len(live.plan)
  /\ draft \in Draft \cup {NoDraft}

Type(t) == {q \in draft.pool : TypeOf[q] = t}

Planned == Range(draft.plan)

(* The plan is as mixed as the pool allows at every point of it, so that a *)
(* session cut short is mixed too: a type falls behind another only when   *)
(* every question it has is planned.  And it is as long as it can be: an   *)
(* interview of the planned length whenever that many questions are there, *)
(* and never the same question twice.                                      *)
MixedAndFull ==
  Drawing =>
    /\ \A t, u \in Range(draft.types) :
         AskedOf(t) > AskedOf(u) + 1 => Type(u) \subseteq Planned
    /\ ~Unfinished => Len(draft.plan) = draft.count \/ Planned = draft.pool
    /\ Cardinality(Planned) = Len(draft.plan) /\ Planned \subseteq draft.pool

(* What the last sessions asked, by what the database holds now and not by *)
(* what the request remembers; without what the running session has asked  *)
(* since the request read it.                                              *)
Before ==
  [s \in DOMAIN Sessions |->
     IF s = Len(Sessions) THEN SubSeq(Asked, 1, draft.mark) ELSE Sessions[s]]

Recent == Latest(RecentSessions, Before)

(* A question of the last sessions comes back only when its type has       *)
(* nothing else left, and then the one that was asked longest ago first -  *)
(* whatever the running session asks meanwhile, and however few of the     *)
(* sessions the request has looked at.                                     *)
RepeatsAreSpaced ==
  Drawing =>
    \A i \in DOMAIN draft.plan : AskedIn(draft.plan[i], Recent) =>
      \A q \in Type(TypeOf[draft.plan[i]]) \ Range(SubSeq(draft.plan, 1, i)) :
        AskedIn(q, Recent) /\ LastSeenNoLater(draft.plan[i], q, Recent)
=============================================================================
