--------------------------- MODULE PrivacyProofs ---------------------------
(***************************************************************************)
(* What a candidate may withdraw, and what is then kept of them: theorems  *)
(* about TranscriptReview for any users, any number of requests at once    *)
(* and any number of wordings, and about AccountErasure for any grace, any *)
(* horizon and any number of failures.                                     *)
(***************************************************************************)
EXTENDS TranscriptReview, AccountErasure, TLAPS

-----------------------------------------------------------------------------
(* Decisions and reviews: the inductive invariant *)

(* Nobody has said yes to a wording that is yet to come.                   *)
Dated == \A u \in Users : latest[u].version <= version

(* A decision that has always been alone has read what still counts; while *)
(* one that has not is in flight, it is not clear what its user wants.     *)
Lonely ==
  \A r \in Requests : IsDecision(job[r]) =>
    IF job[r].alone
    THEN /\ \A s \in Requests : IsDecision(job[s]) /\ job[s].user = job[r].user => s = r
         /\ ~job[r].overtaken
         /\ job[r].step = "write" => job[r].previous = latest[job[r].user]
    ELSE settled[job[r].user] = "unclear"

(* Whom a review has found was willing, and allowed, at some time of it.   *)
Seen ==
  \A r \in Requests :
    /\ job[r].step \in {"roles", "find"} => job[r].ids \subseteq seen[r].willing
    /\ job[r].step = "find" => job[r].ids \subseteq seen[r].allowed
    /\ job[r].step \in {"consents", "roles", "find"} =>
         Now.willing \subseteq seen[r].willing /\ Now.allowed \subseteq seen[r].allowed

IInv == TypeOK /\ Dated /\ Lonely /\ DecisionsStand /\ Seen

-----------------------------------------------------------------------------
(* Rows and jobs *)

(* A decision is of a yes or a no to a wording there is.                   *)
LEMMA RowTyped ==
  ASSUME NEW g \in BOOLEAN, NEW v \in Versions
  PROVE  [granted |-> g, version |-> v] \in Row
  BY Zenon DEF Row

(* What kind of job is where.                                              *)
LEMMA JobTyped ==
  ASSUME NEW j \in Decision \cup Review \cup {Idle}
  PROVE  /\ IsDecision(j) => j \in Decision
         /\ j.step \in {"consents", "roles", "find", "record"} => j \in Review
         /\ ~IsDecision(j) => j.step \in {"consents", "roles", "find", "record", "idle"}
  BY DEF Decision, Review, Idle, IsDecision

(* Company makes a decision neither more nor less of one.                  *)
LEMMA CompanyTyped ==
  ASSUME NEW j \in Decision
  PROVE  /\ [j EXCEPT !.alone = FALSE] \in Decision
         /\ [j EXCEPT !.overtaken = TRUE] \in Decision
  BY Zenon DEF Decision

(* What the transaction reads is part of the decision.                     *)
LEMMA ReadTyped ==
  ASSUME NEW j \in Decision, NEW row \in Row
  PROVE  [[j EXCEPT !.step = "write"] EXCEPT !.previous = row] \in Decision
  BY Zenon DEF Decision

(* A review that moves on with those it has found is a review.             *)
LEMMA ReviewTyped ==
  ASSUME NEW j \in Review, NEW ids \in SUBSET Users,
         NEW step \in {"consents", "roles", "find", "record"}
  PROVE  [[j EXCEPT !.step = step] EXCEPT !.ids = ids] \in Review
  BY DEF Review

-----------------------------------------------------------------------------
(* Types *)

(* Every action of a decision leaves every job a job.                      *)
LEMMA DecisionJobs ==
  ASSUME TypeOK, NEW r \in Requests,
         \/ \E u \in Users, g \in BOOLEAN : Decide(r, u, g)
         \/ ReadLatest(r) \/ WriteDecision(r)
  PROVE  job' \in [Requests -> Decision \cup Review \cup {Idle}]
<1>1. \A s \in Requests : job[s] \in Decision \cup Review \cup {Idle}
  BY DEF TypeOK
<1>2. NoRow \in Row
  BY DEF Row
<1>3. CASE \E u \in Users, g \in BOOLEAN : Decide(r, u, g)
  <2>1. PICK u \in Users, g \in BOOLEAN : Decide(r, u, g)
    BY <1>3
  <2>2. (Deciding(u) = {}) \in BOOLEAN
    OBVIOUS
  <2>3. [step |-> "look", user |-> u, granted |-> g, previous |-> NoRow,
         alone |-> Deciding(u) = {}, overtaken |-> FALSE] \in Decision
    BY <1>2, <2>2, Zenon DEF Decision
  <2>4. \A s \in Deciding(u) : [job[s] EXCEPT !.alone = FALSE] \in Decision
    BY <1>1, JobTyped, CompanyTyped DEF Deciding
  <2>5. QED
    BY <1>1, <2>1, <2>3, <2>4 DEF Decide
<1>4. CASE ReadLatest(r)
  <2>1. job[r] \in Decision
    BY <1>1, <1>4, JobTyped DEF ReadLatest, IsDecision
  <2>2. latest[job[r].user] \in Row
    BY <2>1 DEF TypeOK, Decision
  <2>3. job' = [job EXCEPT ![r] = [[job[r] EXCEPT !.step = "write"]
                                     EXCEPT !.previous = latest[job[r].user]]]
    BY <1>4 DEF ReadLatest, TypeOK
  <2>4. QED
    BY <2>1, <2>2, <2>3, ReadTyped DEF TypeOK
<1>5. CASE WriteDecision(r)
  <2>1. \A s \in Deciding(job[r].user) : [job[s] EXCEPT !.overtaken = TRUE] \in Decision
    BY <1>1, JobTyped, CompanyTyped DEF Deciding
  <2>2. QED
    BY <1>1, <1>5, <2>1 DEF WriteDecision
<1>6. QED
  BY <1>3, <1>4, <1>5

(* So does every action of a review.                                       *)
LEMMA ReviewJobs ==
  ASSUME TypeOK, NEW r \in Requests,
         \/ \E k \in Kinds, reviewer \in Users, author \in Users : Ask(r, k, reviewer, author)
         \/ FindConsenting(r) \/ NarrowToStaff(r) \/ Find(r) \/ RecordRead(r) \/ StoreScore(r)
  PROVE  job' \in [Requests -> Decision \cup Review \cup {Idle}]
<1>1. job[r] \in Decision \cup Review \cup {Idle}
  BY DEF TypeOK
<1>2. CASE \E k \in Kinds, reviewer \in Users, author \in Users : Ask(r, k, reviewer, author)
  BY <1>2 DEF Ask, Review, TypeOK
<1>3. CASE FindConsenting(r)
  <2>1. job[r] \in Review
    BY <1>1, <1>3, JobTyped DEF FindConsenting
  <2>2. usersGranting \in SUBSET Users
    BY DEF usersGranting
  <2>3. \A step \in {"roles", "find"} :
          [[job[r] EXCEPT !.step = step] EXCEPT !.ids = usersGranting] \in Review
    BY <2>1, <2>2, ReviewTyped
  <2>4. PICK step \in {"roles", "find"} :
          job' = [job EXCEPT ![r] = [[job[r] EXCEPT !.step = step]
                                       EXCEPT !.ids = usersGranting]]
    BY <1>3 DEF FindConsenting, TypeOK
  <2>5. QED
    BY <2>3, <2>4 DEF TypeOK
<1>4. CASE NarrowToStaff(r)
  <2>1. job[r] \in Review
    BY <1>1, <1>4, JobTyped DEF NarrowToStaff
  <2>2. job[r].ids \cap staff \in SUBSET Users
    BY DEF TypeOK
  <2>3. [[job[r] EXCEPT !.step = "find"] EXCEPT !.ids = job[r].ids \cap staff] \in Review
    BY <2>1, <2>2, ReviewTyped
  <2>4. job' = [job EXCEPT ![r] = [[job[r] EXCEPT !.step = "find"]
                                     EXCEPT !.ids = job[r].ids \cap staff]]
    BY <1>4 DEF NarrowToStaff, TypeOK
  <2>5. QED
    BY <2>3, <2>4 DEF TypeOK
<1>5. CASE Find(r)
  <2>1. job[r] \in Review
    BY <1>1, <1>5, JobTyped DEF Find
  <2>2. [[job[r] EXCEPT !.step = "record"] EXCEPT !.ids = {}] \in Review
    BY <2>1, ReviewTyped
  <2>3. \/ job' = [job EXCEPT ![r] = Idle]
        \/ job' = [job EXCEPT ![r] = [[job[r] EXCEPT !.step = "record"] EXCEPT !.ids = {}]]
    BY <1>5 DEF Find, TypeOK
  <2>4. QED
    BY <2>2, <2>3 DEF TypeOK
<1>6. CASE RecordRead(r) \/ StoreScore(r)
  BY <1>6 DEF RecordRead, StoreScore, TypeOK
<1>7. QED
  BY <1>2, <1>3, <1>4, <1>5, <1>6

(* The steps of a decision, of a review, and those of neither.             *)
Deciders(r) ==
  (\E u \in Users, g \in BOOLEAN : Decide(r, u, g)) \/ ReadLatest(r) \/ WriteDecision(r)

Reviewers(r) ==
  \/ \E k \in Kinds, reviewer \in Users, author \in Users : Ask(r, k, reviewer, author)
  \/ FindConsenting(r) \/ NarrowToStaff(r) \/ Find(r) \/ RecordRead(r) \/ StoreScore(r)

Others ==
  (\E u \in Users : SetRole(u)) \/ (\E v \in Versions, gate \in BOOLEAN : Restart(v, gate))

(* A step is one of a request's, or of neither kind.                       *)
LEMMA StepCases ==
  ASSUME Step
  PROVE  (\E r \in Requests : Deciders(r) \/ Reviewers(r)) \/ Others
  BY DEF Step, Deciders, Reviewers, Others

(* What a decision leaves alone, and what it may make of the rest.         *)
LEMMA DecidersKeep ==
  ASSUME TypeOK, NEW r \in Requests, Deciders(r)
  PROVE  /\ UNCHANGED <<version, open, staff, audited, scores>>
         /\ latest' \in [Users -> Row]
         /\ settled' \in [Users -> {"yes", "no", "unclear"}]
<1>1. CASE \E u \in Users, g \in BOOLEAN : Decide(r, u, g)
  BY <1>1 DEF Decide, TypeOK
<1>2. CASE ReadLatest(r)
  BY <1>2 DEF ReadLatest, TypeOK
<1>3. CASE WriteDecision(r)
  <2>1. job[r] \in Decision
    BY <1>3, JobTyped DEF TypeOK, WriteDecision, IsDecision
  <2>2. job[r].granted \in BOOLEAN /\ version \in Versions
    BY <2>1, Zenon DEF Decision, TypeOK
  <2>3. [granted |-> job[r].granted, version |-> version] \in Row
    BY <2>2, RowTyped
  <2>4. QED
    BY <1>3, <2>3 DEF WriteDecision, TypeOK
<1>4. QED
  BY <1>1, <1>2, <1>3 DEF Deciders

(* What a review leaves alone.                                             *)
LEMMA ReviewersKeep ==
  ASSUME TypeOK, NEW r \in Requests, Reviewers(r)
  PROVE  /\ UNCHANGED <<latest, version, open, staff, settled>>
         /\ audited' \subseteq Users \X Users /\ scores' \subseteq Users \X Users
<1>1. CASE RecordRead(r) \/ StoreScore(r)
  <2>1. job[r] \in Review
    BY <1>1, JobTyped DEF TypeOK, RecordRead, StoreScore
  <2>2. QED
    BY <1>1, <2>1 DEF RecordRead, StoreScore, TypeOK, Review
<1>2. CASE ~(RecordRead(r) \/ StoreScore(r))
  BY <1>2 DEF Reviewers, Ask, FindConsenting, NarrowToStaff, Find, TypeOK
<1>3. QED
  BY <1>1, <1>2

(* The history is of sets of users.                                        *)
LEMMA WatchTyped ==
  ASSUME TypeOK, Watch, staff' \subseteq Users
  PROVE  seen' \in [Requests -> [willing : SUBSET Users, allowed : SUBSET Users]]
<1>1. /\ Now.willing' \in SUBSET Users
      /\ Now.allowed' \in SUBSET Users
      /\ Now' \in [willing : SUBSET Users, allowed : SUBSET Users]
  BY DEF Now
<1>2. \A r \in Requests : seen[r].willing \in SUBSET Users /\ seen[r].allowed \in SUBSET Users
  BY DEF TypeOK
<1>3. QED
  BY <1>1, <1>2 DEF Watch

(* The types hold at first.                                                *)
LEMMA TypeInit ==
  ASSUME Init
  PROVE  TypeOK
<1>1. 1 \in Versions /\ NoRow \in Row
  BY ReviewAssumption DEF ReviewAssumption, Versions, Row
<1>2. Now \in [willing : SUBSET Users, allowed : SUBSET Users]
  BY DEF Now, Init
<1>3. open \in BOOLEAN
  BY Zenon DEF Init
<1>4. QED
  BY <1>1, <1>2, <1>3 DEF Init, TypeOK

(* ... and every step keeps them.                                          *)
LEMMA TypeStep ==
  ASSUME TypeOK, [Next]_vars
  PROVE  TypeOK'
<1>1. CASE Next
  <2>1. Watch /\ Step
    BY <1>1 DEF Next
  <2>2. CASE \E r \in Requests : Deciders(r)
    <3>1. PICK r \in Requests : Deciders(r)
      BY <2>2
    <3>2. job' \in [Requests -> Decision \cup Review \cup {Idle}]
      BY <3>1, DecisionJobs DEF Deciders
    <3>3. QED
      BY <2>1, <3>1, <3>2, DecidersKeep, WatchTyped DEF TypeOK
  <2>3. CASE \E r \in Requests : Reviewers(r)
    <3>1. PICK r \in Requests : Reviewers(r)
      BY <2>3
    <3>2. job' \in [Requests -> Decision \cup Review \cup {Idle}]
      BY <3>1, ReviewJobs DEF Reviewers
    <3>3. QED
      BY <2>1, <3>1, <3>2, ReviewersKeep, WatchTyped DEF TypeOK
  <2>4. CASE \E u \in Users : SetRole(u)
    <3>1. staff' \subseteq Users
      BY <2>4 DEF SetRole, TypeOK
    <3>2. QED
      BY <2>1, <2>4, <3>1, WatchTyped DEF SetRole, TypeOK
  <2>5. CASE \E v \in Versions, gate \in BOOLEAN : Restart(v, gate)
    <3>1. PICK v \in Versions, gate \in BOOLEAN : Restart(v, gate)
      BY <2>5
    <3>2. open' \in BOOLEAN
      BY <3>1, Zenon DEF Restart
    <3>3. job' \in [Requests -> Decision \cup Review \cup {Idle}]
      BY <3>1 DEF Restart
    <3>4. settled' \in [Users -> {"yes", "no", "unclear"}] /\ version' \in Versions
      BY <3>1 DEF Restart, TypeOK
    <3>5. staff' \subseteq Users /\ latest' \in [Users -> Row]
      BY <3>1 DEF Restart, TypeOK
    <3>6. seen' \in [Requests -> [willing : SUBSET Users, allowed : SUBSET Users]]
      BY <2>1, <3>5, WatchTyped
    <3>7. QED
      BY <3>1, <3>2, <3>3, <3>4, <3>5, <3>6 DEF Restart, TypeOK
  <2>6. QED
    BY <2>1, <2>2, <2>3, <2>4, <2>5, StepCases DEF Others
<1>2. CASE UNCHANGED vars
  BY <1>2 DEF vars, TypeOK
<1>3. QED
  BY <1>1, <1>2

-----------------------------------------------------------------------------
(* Decisions *)

(* What each step of a decision does to the jobs, its own and the others'. *)
LEMMA DecideDoes ==
  ASSUME TypeOK, NEW r \in Requests, NEW u \in Users, NEW g \in BOOLEAN, Decide(r, u, g)
  PROVE  /\ ~IsDecision(job[r]) /\ IsDecision(job'[r])
         /\ job'[r].user = u /\ job'[r].step = "look" /\ ~job'[r].overtaken
         /\ job'[r].alone <=> Deciding(u) = {}
         /\ \A s \in Requests \ {r} :
              IF s \in Deciding(u)
              THEN IsDecision(job'[s]) /\ job'[s].user = u /\ ~job'[s].alone
              ELSE job'[s] = job[s]
<1>1. job[r] = Idle
  BY DEF Decide
<1>2. /\ job'[r].user = u /\ job'[r].step = "look" /\ ~job'[r].overtaken
      /\ job'[r].alone <=> Deciding(u) = {}
  BY DEF Decide
<1>3. ASSUME NEW s \in Requests \ {r}, s \in Deciding(u)
      PROVE  IsDecision(job'[s]) /\ job'[s].user = u /\ ~job'[s].alone
  <2>1. job'[s] = [job[s] EXCEPT !.alone = FALSE]
    BY <1>3 DEF Decide
  <2>2. job[s] \in Decision /\ IsDecision(job[s]) /\ job[s].user = u
    BY <1>3, JobTyped DEF Deciding, TypeOK
  <2>3. QED
    BY <2>1, <2>2 DEF Decision, IsDecision
<1>4. \A s \in Requests \ {r} : s \notin Deciding(u) => job'[s] = job[s]
  BY DEF Decide
<1>5. QED
  BY <1>1, <1>2, <1>3, <1>4 DEF IsDecision, Idle

(* Writing ends one's own and, if a row was written, overtakes the others. *)
LEMMA WriteDoes ==
  ASSUME TypeOK, NEW r \in Requests, WriteDecision(r)
  PROVE  /\ job[r] \in Decision /\ IsDecision(job[r]) /\ job[r].step = "write"
         /\ job'[r] = Idle
         /\ \A s \in Requests \ {r} :
              IF s \in Deciding(job[r].user)
              THEN /\ IsDecision(job[s]) /\ job[s].user = job[r].user
                   /\ job'[s].user = job[s].user
                   /\ job'[s].alone <=> job[s].alone
                   /\ IsDecision(job'[s])
              ELSE job'[s] = job[s]
<1>1. job[r] \in Decision /\ IsDecision(job[r]) /\ job[r].step = "write"
  BY JobTyped DEF WriteDecision, IsDecision, TypeOK
<1>2. ASSUME NEW s \in Requests \ {r}, s \in Deciding(job[r].user)
      PROVE  /\ IsDecision(job[s]) /\ job[s].user = job[r].user
             /\ job'[s].user = job[s].user
             /\ job'[s].alone <=> job[s].alone
             /\ IsDecision(job'[s])
  <2>1. job'[s] \in {job[s], [job[s] EXCEPT !.overtaken = TRUE]}
    BY <1>2 DEF WriteDecision
  <2>2. job[s] \in Decision /\ IsDecision(job[s]) /\ job[s].user = job[r].user
    BY <1>2, JobTyped DEF Deciding, TypeOK
  <2>3. QED
    BY <2>1, <2>2 DEF Decision, IsDecision
<1>3. \A s \in Requests \ {r} : s \notin Deciding(job[r].user) => job'[s] = job[s]
  BY DEF WriteDecision
<1>4. job'[r] = Idle
  BY DEF WriteDecision
<1>5. QED
  BY <1>1, <1>2, <1>3, <1>4

(* Where each query of a review takes it, and with whom.                   *)
LEMMA QueriesDo ==
  ASSUME TypeOK, NEW r \in Requests
  PROVE  /\ FindConsenting(r) =>
              /\ job'[r].step \in {"roles", "find"} /\ job'[r].ids = usersGranting
              /\ job'[r].step = "find" => usersGranting = {} \/ open
         /\ NarrowToStaff(r) => job'[r].step = "find" /\ job'[r].ids = job[r].ids \cap staff
         /\ Find(r) => job'[r].step \in {"idle", "record"}
         /\ FindConsenting(r) \/ NarrowToStaff(r) \/ Find(r) =>
              \A s \in Requests \ {r} : job'[s] = job[s]
<1>1. job[r] \in Decision \cup Review \cup {Idle}
  BY DEF TypeOK
<1>2. ASSUME FindConsenting(r)
      PROVE  /\ job'[r].step \in {"roles", "find"} /\ job'[r].ids = usersGranting
             /\ job'[r].step = "find" => usersGranting = {} \/ open
  <2>1. job[r] \in Review
    BY <1>1, <1>2, JobTyped DEF FindConsenting
  <2>2. PICK step \in {"roles", "find"} :
          /\ job'[r] = [[job[r] EXCEPT !.step = step] EXCEPT !.ids = usersGranting]
          /\ step = "find" => usersGranting = {} \/ open
    BY <1>2 DEF FindConsenting, TypeOK
  <2>3. QED
    BY <2>1, <2>2 DEF Review
<1>3. ASSUME NarrowToStaff(r)
      PROVE  job'[r].step = "find" /\ job'[r].ids = job[r].ids \cap staff
  <2>1. job[r] \in Review
    BY <1>1, <1>3, JobTyped DEF NarrowToStaff
  <2>2. job'[r] = [[job[r] EXCEPT !.step = "find"] EXCEPT !.ids = job[r].ids \cap staff]
    BY <1>3 DEF NarrowToStaff, TypeOK
  <2>3. QED
    BY <2>1, <2>2 DEF Review
<1>4. ASSUME Find(r)
      PROVE  job'[r].step \in {"idle", "record"}
  <2>1. job[r] \in Review
    BY <1>1, <1>4, JobTyped DEF Find
  <2>2. job'[r] \in {Idle, [[job[r] EXCEPT !.step = "record"] EXCEPT !.ids = {}]}
    BY <1>4 DEF Find, TypeOK
  <2>3. [[job[r] EXCEPT !.step = "record"] EXCEPT !.ids = {}].step = "record"
    BY <2>1 DEF Review
  <2>4. Idle.step = "idle"
    BY DEF Idle
  <2>5. QED
    BY <2>2, <2>3, <2>4
<1>5. ASSUME FindConsenting(r) \/ NarrowToStaff(r) \/ Find(r), NEW s \in Requests \ {r}
      PROVE  job'[s] = job[s]
  <2>1. CASE FindConsenting(r)
    BY <2>1 DEF FindConsenting, TypeOK
  <2>2. CASE NarrowToStaff(r)
    BY <2>2 DEF NarrowToStaff, TypeOK
  <2>3. CASE Find(r)
    BY <2>3 DEF Find, TypeOK
  <2>4. QED
    BY <1>5, <2>1, <2>2, <2>3
<1>6. QED
  BY <1>2, <1>3, <1>4, <1>5

(* A step of a review makes no decision.                                   *)
LEMMA ReviewersDo ==
  ASSUME TypeOK, NEW r \in Requests, Reviewers(r)
  PROVE  /\ ~IsDecision(job'[r])
         /\ \A s \in Requests \ {r} : job'[s] = job[s]
<1>1. CASE \E k \in Kinds, reviewer \in Users, author \in Users : Ask(r, k, reviewer, author)
  BY <1>1 DEF Ask, TypeOK, IsDecision
<1>2. CASE FindConsenting(r) \/ NarrowToStaff(r) \/ Find(r)
  <2>1. job'[r].step \in {"idle", "record", "roles", "find"}
    BY <1>2, QueriesDo
  <2>2. QED
    BY <1>2, <2>1, QueriesDo DEF IsDecision
<1>3. CASE RecordRead(r) \/ StoreScore(r)
  BY <1>3 DEF RecordRead, StoreScore, TypeOK, IsDecision, Idle
<1>4. QED
  BY <1>1, <1>2, <1>3 DEF Reviewers

(* No row is of a wording yet to come.                                     *)
LEMMA DatedStep ==
  ASSUME TypeOK, Dated, Step
  PROVE  Dated'
<1>1. version \in Nat /\ \A u \in Users : latest[u].version \in Nat
  BY ReviewAssumption DEF TypeOK, Versions, Row, NoRow, ReviewAssumption
<1>2. ASSUME NEW r \in Requests, Deciders(r)
      PROVE  Dated'
  <2>1. CASE WriteDecision(r)
    <3>1. \A u \in Users : latest'[u].version \in {latest[u].version, version}
      BY <2>1 DEF WriteDecision, TypeOK
    <3>2. version' = version
      BY <2>1 DEF WriteDecision
    <3>3. QED
      BY <1>1, <3>1, <3>2 DEF Dated
  <2>2. CASE ~WriteDecision(r)
    BY <1>2, <2>2 DEF Deciders, Decide, ReadLatest, Dated
  <2>3. QED
    BY <2>1, <2>2
<1>3. ASSUME NEW r \in Requests, Reviewers(r)
      PROVE  Dated'
  BY <1>3, ReviewersKeep DEF Dated
<1>4. CASE Others
  <2>1. latest' = latest /\ (version' = version \/ version' = version + 1)
    BY <1>4 DEF Others, SetRole, Restart
  <2>2. QED
    BY <1>1, <2>1 DEF Dated
<1>5. QED
  BY <1>2, <1>3, <1>4, StepCases

(* Being alone, or not, is so of the others too, whatever the step.        *)
LEMMA LonelyStep ==
  ASSUME TypeOK, Lonely, Step
  PROVE  Lonely'
<1>1. ASSUME NEW r \in Requests, NEW u \in Users, NEW g \in BOOLEAN, Decide(r, u, g)
      PROVE  Lonely'
  <2>1. /\ latest' = latest
        /\ IF Deciding(u) = {} THEN settled' = settled
           ELSE settled' = [settled EXCEPT ![u] = "unclear"]
    BY <1>1 DEF Decide
  <2>2. SUFFICES ASSUME NEW s \in Requests, IsDecision(job'[s])
                 PROVE  IF job'[s].alone
                        THEN /\ \A t \in Requests :
                                  IsDecision(job'[t]) /\ job'[t].user = job'[s].user => t = s
                             /\ ~job'[s].overtaken
                             /\ job'[s].step = "write" =>
                                  job'[s].previous = latest'[job'[s].user]
                        ELSE settled'[job'[s].user] = "unclear"
    BY DEF Lonely, IsDecision
  <2>3. CASE s = r
    BY <1>1, <2>1, <2>3, DecideDoes DEF Deciding, TypeOK
  <2>4. CASE s # r /\ s \in Deciding(u)
    BY <1>1, <2>1, <2>4, DecideDoes DEF TypeOK
  <2>5. CASE s # r /\ s \notin Deciding(u)
    <3>1. job'[s] = job[s] /\ IsDecision(job[s]) /\ job[s].user # u
      BY <1>1, <2>2, <2>5, DecideDoes DEF Deciding
    <3>2. \A t \in Requests : IsDecision(job'[t]) /\ job'[t].user = job[s].user =>
            IsDecision(job[t]) /\ job[t].user = job[s].user
      BY <1>1, <3>1, DecideDoes
    <3>3. job[s].user \in Users
      BY <3>1, JobTyped DEF TypeOK, Decision
    <3>4. settled'[job[s].user] = settled[job[s].user]
      BY <2>1, <3>1, <3>3 DEF TypeOK
    <3>5. QED
      BY <2>1, <3>1, <3>2, <3>4 DEF Lonely
  <2>6. QED
    BY <2>3, <2>4, <2>5
<1>2. ASSUME NEW r \in Requests, ReadLatest(r)
      PROVE  Lonely'
  <2>1. job[r] \in Decision /\ IsDecision(job[r])
    BY <1>2, JobTyped DEF ReadLatest, IsDecision, TypeOK
  <2>2. job' = [job EXCEPT ![r] = [[job[r] EXCEPT !.step = "write"]
                                     EXCEPT !.previous = latest[job[r].user]]]
    BY <1>2 DEF ReadLatest, TypeOK
  <2>3. /\ job'[r].user = job[r].user /\ job'[r].previous = latest[job[r].user]
        /\ job'[r].alone <=> job[r].alone
        /\ job'[r].overtaken <=> job[r].overtaken
    BY <2>1, <2>2 DEF TypeOK, Decision
  <2>4. \A s \in Requests \ {r} : job'[s] = job[s]
    BY <2>2 DEF TypeOK
  <2>5. latest' = latest /\ settled' = settled
    BY <1>2 DEF ReadLatest
  <2>6. SUFFICES ASSUME NEW s \in Requests, IsDecision(job'[s])
                 PROVE  IF job'[s].alone
                        THEN /\ \A t \in Requests :
                                  IsDecision(job'[t]) /\ job'[t].user = job'[s].user => t = s
                             /\ ~job'[s].overtaken
                             /\ job'[s].step = "write" =>
                                  job'[s].previous = latest'[job'[s].user]
                        ELSE settled'[job'[s].user] = "unclear"
    BY DEF Lonely, IsDecision
  <2>7. \A t \in Requests :
          IsDecision(job'[t]) => IsDecision(job[t]) /\ job'[t].user = job[t].user
    BY <2>1, <2>3, <2>4
  <2>8. QED
    BY <2>1, <2>3, <2>4, <2>5, <2>6, <2>7 DEF Lonely
<1>3. ASSUME NEW r \in Requests, WriteDecision(r)
      PROVE  Lonely'
  <2>1. /\ \A u \in Users \ {job[r].user} : latest'[u] = latest[u]
        /\ job[r].alone \/ settled' = settled
        /\ \A u \in Users \ {job[r].user} : settled'[u] = settled[u]
    BY <1>3 DEF WriteDecision, TypeOK
  <2>2. SUFFICES ASSUME NEW s \in Requests, IsDecision(job'[s])
                 PROVE  IF job'[s].alone
                        THEN /\ \A t \in Requests :
                                  IsDecision(job'[t]) /\ job'[t].user = job'[s].user => t = s
                             /\ ~job'[s].overtaken
                             /\ job'[s].step = "write" =>
                                  job'[s].previous = latest'[job'[s].user]
                        ELSE settled'[job'[s].user] = "unclear"
    BY DEF Lonely, IsDecision
  <2>3. s # r
    BY <1>3, <2>2, WriteDoes DEF IsDecision, Idle
  <2>4. CASE s \in Deciding(job[r].user)
    <3>1. /\ IsDecision(job[s]) /\ job[s].user = job[r].user
          /\ job'[s].user = job[s].user /\ (job'[s].alone <=> job[s].alone)
          /\ IsDecision(job[r])
      BY <1>3, <2>3, <2>4, WriteDoes
    <3>2. ~job[s].alone /\ ~job[r].alone
      BY <2>3, <3>1 DEF Lonely
    <3>3. QED
      BY <2>1, <3>1, <3>2 DEF Lonely
  <2>5. CASE s \notin Deciding(job[r].user)
    <3>1. job'[s] = job[s] /\ IsDecision(job[s]) /\ job[s].user # job[r].user
      BY <1>3, <2>2, <2>3, <2>5, WriteDoes DEF Deciding
    <3>2. job[s].user \in Users
      BY <3>1, JobTyped DEF TypeOK, Decision
    <3>3. \A t \in Requests : IsDecision(job'[t]) /\ job'[t].user = job[s].user =>
            IsDecision(job[t]) /\ job[t].user = job[s].user
      BY <1>3, WriteDoes DEF IsDecision, Idle
    <3>4. QED
      BY <2>1, <3>1, <3>2, <3>3 DEF Lonely
  <2>6. QED
    BY <2>4, <2>5
<1>4. ASSUME NEW r \in Requests, Reviewers(r)
      PROVE  Lonely'
  <2>1. \A t \in Requests : IsDecision(job'[t]) => job'[t] = job[t]
    BY <1>4, ReviewersDo
  <2>2. latest' = latest /\ settled' = settled
    BY <1>4, ReviewersKeep
  <2>3. QED
    BY <2>1, <2>2 DEF Lonely, IsDecision
<1>5. CASE Others
  <2>1. CASE \E u \in Users : SetRole(u)
    BY <2>1 DEF SetRole, Lonely, IsDecision
  <2>2. CASE \E v \in Versions, gate \in BOOLEAN : Restart(v, gate)
    BY <2>2 DEF Restart, Lonely, IsDecision, Idle
  <2>3. QED
    BY <1>5, <2>1, <2>2 DEF Others
<1>6. QED
  BY <1>1, <1>2, <1>3, <1>4, <1>5, StepCases DEF Deciders

(* What was last made clear is what counts.                                *)
LEMMA StandStep ==
  ASSUME TypeOK, Dated, Lonely, DecisionsStand, Step
  PROVE  DecisionsStand'
<1>1. ASSUME NEW r \in Requests, WriteDecision(r)
      PROVE  DecisionsStand'
  <2>1. job[r] \in Decision /\ IsDecision(job[r]) /\ job[r].step = "write"
    BY <1>1, WriteDoes
  <2>2. /\ job[r].user \in Users /\ job[r].granted \in BOOLEAN
        /\ version' = version /\ latest' \in [Users -> Row] /\ latest \in [Users -> Row]
    BY <1>1, <2>1, DecidersKeep DEF Deciders, Decision, TypeOK
  <2>3. CASE job[r].alone
    <3>1. ~job[r].overtaken /\ job[r].previous = latest[job[r].user]
      BY <2>1, <2>3 DEF Lonely
    <3>2. settled' = [settled EXCEPT ![job[r].user] = IF job[r].granted THEN "yes" ELSE "no"]
      BY <1>1, <2>3 DEF WriteDecision
    <3>3. \/ latest' = latest /\ Unchanged(latest[job[r].user], job[r].granted)
          \/ latest' = [latest EXCEPT ![job[r].user] =
                          [granted |-> job[r].granted, version |-> version]]
      BY <1>1, <3>1 DEF WriteDecision
    <3>4. /\ latest'[job[r].user].granted = job[r].granted
          /\ latest'[job[r].user].version = version'
      <4>1. CASE latest' = latest /\ Unchanged(latest[job[r].user], job[r].granted)
        BY <2>2, <4>1 DEF Unchanged
      <4>2. CASE latest' = [latest EXCEPT ![job[r].user] =
                              [granted |-> job[r].granted, version |-> version]]
        <5>1. latest'[job[r].user] = [granted |-> job[r].granted, version |-> version]
          BY <2>2, <4>2, Zenon
        <5>2. latest'[job[r].user].granted = job[r].granted
          <6>1. [granted |-> job[r].granted, version |-> version].granted = job[r].granted
            OBVIOUS
          <6>2. QED
            BY <5>1, <6>1, Zenon
        <5>3. latest'[job[r].user].version = version
          BY <5>1
        <5>4. QED
          BY <2>2, <5>2, <5>3
      <4>3. QED
        BY <3>3, <4>1, <4>2
    <3>5. \A u \in Users \ {job[r].user} :
            settled'[u] = settled[u] /\ latest'[u] = latest[u]
      BY <2>2, <3>2, <3>3 DEF TypeOK
    <3>6. settled'[job[r].user] = IF job[r].granted THEN "yes" ELSE "no"
      BY <2>2, <3>2 DEF TypeOK
    <3>7. ASSUME NEW u \in Users
          PROVE  settled'[u] # "unclear" =>
                   (isCurrentGrant(latest[u])' <=> settled'[u] = "yes")
      <4>1. CASE u = job[r].user
        <5>1. settled'[u] = "yes" <=> job[r].granted
          BY <3>6, <4>1
        <5>2. QED
          BY <3>4, <4>1, <5>1, Zenon DEF isCurrentGrant
      <4>2. CASE u # job[r].user
        BY <2>2, <3>5, <4>2 DEF DecisionsStand, isCurrentGrant
      <4>3. QED
        BY <4>1, <4>2
    <3>8. QED
      BY <3>7 DEF DecisionsStand
  <2>4. CASE ~job[r].alone
    <3>1. settled[job[r].user] = "unclear"
      BY <2>1, <2>4 DEF Lonely
    <3>2. settled' = settled
      BY <1>1, <2>4 DEF WriteDecision
    <3>3. \A u \in Users \ {job[r].user} : latest'[u] = latest[u]
      BY <1>1, <2>2 DEF WriteDecision
    <3>4. QED
      BY <2>2, <3>1, <3>2, <3>3 DEF DecisionsStand, isCurrentGrant
  <2>5. QED
    BY <2>3, <2>4
<1>2. ASSUME NEW r \in Requests, Deciders(r), ~WriteDecision(r)
      PROVE  DecisionsStand'
  <2>1. /\ latest' = latest /\ version' = version
        /\ \A u \in Users : settled'[u] \in {settled[u], "unclear"}
    BY <1>2 DEF Deciders, Decide, ReadLatest, TypeOK
  <2>2. QED
    BY <2>1 DEF DecisionsStand, isCurrentGrant
<1>3. ASSUME NEW r \in Requests, Reviewers(r)
      PROVE  DecisionsStand'
  BY <1>3, ReviewersKeep DEF DecisionsStand, isCurrentGrant
<1>4. CASE Others
  <2>1. CASE \E u \in Users : SetRole(u)
    BY <2>1 DEF SetRole, DecisionsStand, isCurrentGrant
  <2>2. CASE \E v \in Versions, gate \in BOOLEAN : Restart(v, gate)
    <3>1. PICK v \in Versions, gate \in BOOLEAN : Restart(v, gate)
      BY <2>2
    <3>2. CASE v = version
      BY <3>1, <3>2 DEF Restart, DecisionsStand, isCurrentGrant
    <3>3. CASE v # version
      <4>1. /\ version' = version + 1 /\ latest' = latest
            /\ settled' = [u \in Users |-> "no"]
        BY <3>1, <3>3 DEF Restart
      <4>2. version \in Nat /\ \A u \in Users : latest[u].version \in Nat
        BY ReviewAssumption DEF TypeOK, Versions, Row, NoRow, ReviewAssumption
      <4>3. \A u \in Users : latest[u].version # version'
        BY <4>1, <4>2 DEF Dated
      <4>4. QED
        BY <4>1, <4>3 DEF DecisionsStand, isCurrentGrant
    <3>4. QED
      BY <3>2, <3>3
  <2>3. QED
    BY <1>4, <2>1, <2>2 DEF Others
<1>5. QED
  BY <1>1, <1>2, <1>3, <1>4, StepCases

-----------------------------------------------------------------------------
(* Reviews *)

(* Whoever counts as having said yes has not made it clear that they won't.*)
LEMMA GrantingAreWilling ==
  ASSUME TypeOK, DecisionsStand
  PROVE  usersGranting \subseteq Now.willing
  BY DEF usersGranting, Now, DecisionsStand, TypeOK

(* A review finds nobody who was not willing, or not allowed, as it looked.*)
LEMMA SeenStep ==
  ASSUME TypeOK, DecisionsStand, Seen, Step, Watch
  PROVE  Seen'
<1>1. ASSUME NEW s \in Requests, job'[s].step \in {"consents", "roles", "find"}
      PROVE  /\ seen[s].willing \subseteq seen'[s].willing
             /\ seen[s].allowed \subseteq seen'[s].allowed
             /\ Now.willing' \subseteq seen'[s].willing
             /\ Now.allowed' \subseteq seen'[s].allowed
  <2>1. seen'[s] = [willing |-> seen[s].willing \cup Now.willing',
                    allowed |-> seen[s].allowed \cup Now.allowed']
    BY <1>1 DEF Watch
  <2>2. QED
    BY <2>1
<1>2. SUFFICES ASSUME NEW s \in Requests
               PROVE  /\ job'[s].step \in {"roles", "find"} =>
                           job'[s].ids \subseteq seen'[s].willing
                      /\ job'[s].step = "find" => job'[s].ids \subseteq seen'[s].allowed
  BY <1>1 DEF Seen
<1>3. CASE job'[s] = job[s]
  BY <1>1, <1>3 DEF Seen
<1>4. CASE job'[s].step \notin {"roles", "find"}
  BY <1>4
<1>5. CASE job'[s] # job[s] /\ job'[s].step \in {"roles", "find"}
  <2>1. FindConsenting(s) \/ NarrowToStaff(s)
    <3>1. ASSUME NEW r \in Requests, Deciders(r)
          PROVE  FALSE
      <4>1. CASE \E u \in Users, g \in BOOLEAN : Decide(r, u, g)
        BY <1>5, <4>1, DecideDoes DEF IsDecision
      <4>2. CASE ReadLatest(r)
        <5>1. job[r] \in Decision
          BY <4>2, JobTyped DEF ReadLatest, IsDecision, TypeOK
        <5>2. job' = [job EXCEPT ![r] = [[job[r] EXCEPT !.step = "write"]
                                           EXCEPT !.previous = latest[job[r].user]]]
          BY <4>2 DEF ReadLatest, TypeOK
        <5>3. job'[r].step = "write" /\ \A t \in Requests \ {r} : job'[t] = job[t]
          BY <5>1, <5>2 DEF Decision, TypeOK
        <5>4. QED
          BY <1>5, <5>3
      <4>3. CASE WriteDecision(r)
        <5>1. \A t \in Requests :
                job'[t] = job[t] \/ IsDecision(job'[t]) \/ job'[t] = Idle
          BY <4>3, WriteDoes
        <5>2. QED
          BY <1>5, <5>1 DEF IsDecision, Idle
      <4>4. QED
        BY <3>1, <4>1, <4>2, <4>3 DEF Deciders
    <3>2. ASSUME NEW r \in Requests, Reviewers(r)
          PROVE  FindConsenting(s) \/ NarrowToStaff(s)
      <4>1. r = s
        BY <1>5, <3>2, ReviewersDo
      <4>2. CASE Find(r)
        BY <1>5, <4>1, <4>2, QueriesDo
      <4>3. CASE ~Find(r)
        BY <1>5, <3>2, <4>1, <4>3 DEF Reviewers, Ask, RecordRead, StoreScore, TypeOK, Idle
      <4>4. QED
        BY <4>2, <4>3
    <3>3. CASE Others
      BY <1>5, <3>3 DEF Others, SetRole, Restart, Idle
    <3>4. QED
      BY <3>1, <3>2, <3>3, StepCases
  <2>2. Reviewers(s)
    BY <2>1 DEF Reviewers
  <2>3. Now' = Now
    BY <2>2, ReviewersKeep DEF Now
  <2>4. CASE FindConsenting(s)
    <3>1. job'[s].ids = usersGranting /\ (job'[s].step = "find" => usersGranting = {} \/ open)
      BY <2>4, QueriesDo
    <3>2. open => usersGranting \subseteq Now.allowed
      BY DEF Now, usersGranting
    <3>3. QED
      BY <1>1, <1>5, <2>3, <3>1, <3>2, GrantingAreWilling
  <2>5. CASE NarrowToStaff(s)
    <3>1. job'[s].ids = job[s].ids \cap staff /\ job[s].step = "roles"
      BY <2>5, QueriesDo DEF NarrowToStaff
    <3>2. staff \subseteq Now.allowed
      BY DEF Now, TypeOK
    <3>3. QED
      BY <1>1, <1>5, <2>3, <3>1, <3>2 DEF Seen
  <2>6. QED
    BY <2>1, <2>4, <2>5
<1>6. QED
  BY <1>3, <1>4, <1>5

-----------------------------------------------------------------------------
(* The invariant, and what it gives. *)

(* It holds at first.                                                      *)
LEMMA InvInit ==
  ASSUME Init
  PROVE  IInv
<1>1. TypeOK
  BY TypeInit
<1>2. Dated
  <2>1. SUFFICES ASSUME NEW u \in Users
                 PROVE  latest[u].version <= version
    BY DEF Dated
  <2>2. latest[u].version = 0
    BY DEF Init, NoRow
  <2>3. version = 1
    BY DEF Init
  <2>4. QED
    BY <2>2, <2>3
<1>3. Lonely /\ Seen
  BY DEF Lonely, Seen, Init, Idle, IsDecision
<1>4. DecisionsStand
  BY DEF DecisionsStand, Init, isCurrentGrant, NoRow
<1>5. QED
  BY <1>1, <1>2, <1>3, <1>4 DEF IInv

(* ... and every step keeps it.                                            *)
LEMMA InvStep ==
  ASSUME IInv, [Next]_vars
  PROVE  IInv'
<1>1. TypeOK'
  BY TypeStep DEF IInv
<1>2. CASE Next
  BY <1>1, <1>2, DatedStep, LonelyStep, StandStep, SeenStep DEF IInv, Next
<1>3. CASE UNCHANGED vars
  BY <1>1, <1>3 DEF vars, IInv, Dated, Lonely, DecisionsStand, Seen, Now, IsDecision,
                    isCurrentGrant
<1>4. QED
  BY <1>2, <1>3

(* It holds of every run.                                                  *)
LEMMA Invariance == Spec => []IInv
  BY InvInit, InvStep, PTL DEF Spec

(* Whatever overlaps, the state keeps its shape: a decision is of a yes or *)
(* a no to a wording there is, a review is of a user's answer.             *)
THEOREM TypeCorrect == Spec => []TypeOK
<1>1. IInv => TypeOK
  BY DEF IInv
<1>2. QED
  BY <1>1, Invariance, PTL

(* What a candidate made clear last is what isCurrentGrant goes by, for    *)
(* any number of decisions, wordings, restarts and requests.               *)
THEOREM TheirLastWordCounts == Spec => []DecisionsStand
<1>1. IInv => DecisionsStand
  BY DEF IInv
<1>2. QED
  BY <1>1, Invariance, PTL

(* No review brings up an answer of somebody who was unwilling, or not     *)
(* allowed to be read, for as long as it ran.                              *)
THEOREM NobodyIsReadUnasked == Spec => []NoMeansNo
<1>1. IInv => NoMeansNo
  BY DEF IInv, Seen, NoMeansNo, Found
<1>2. QED
  BY <1>1, Invariance, PTL

-----------------------------------------------------------------------------
(* AccountErasure *)

(* eraseUser judges by the `now' of the sweep that found the account, and  *)
(* the clock has only gone on since: what was due then is due today.       *)
ErasureInv == ErasureTypeOK /\ eraser.now <= today

(* The account rows the code writes are account rows.                      *)
LEMMA KeptType == Kept \in Account
  BY Zenon DEF Kept, Account

LEMMA ErasedType == Erased \in Account
  BY KeptType DEF Erased, Account

LEMMA ScheduledType ==
  ASSUME today \in Days
  PROVE  Scheduled \in Account
<1>1. today + Grace \in Nat
  BY ErasureAssumption DEF ErasureAssumption, Days
<1>2. QED
  BY KeptType, <1>1 DEF Scheduled, Account

(* The first state is typed, and the sweep has not started.                *)
LEMMA ErasureStarts == ErasureInit => ErasureInv
<1> SUFFICES ASSUME ErasureInit PROVE ErasureInv
  OBVIOUS
<1>1. account \in Account
  BY KeptType DEF ErasureInit
<1>2. /\ today \in Days /\ today = 0
      /\ eraser \in Eraser /\ eraser.now = 0
      /\ canceller = NoDay /\ call = "none" /\ calls = {}
      /\ faults \in 0 .. MaxFaults
  BY ErasureAssumption DEF ErasureAssumption, ErasureInit, Days, Eraser
<1>3. files \in BOOLEAN /\ traces \in BOOLEAN /\ during \in BOOLEAN /\ midway \in BOOLEAN
  BY Zenon DEF ErasureInit
<1>4. QED
  BY <1>1, <1>2, <1>3 DEF ErasureInv, ErasureTypeOK

(* Asking for the deletion and taking it back keep the invariant.          *)
LEMMA RequestAndCancelKeep ==
  ASSUME ErasureInv, RequestDeletion \/ UploadCv \/ CancelStarts \/ CancelCommits
  PROVE  ErasureInv'
<1> USE ErasureAssumption DEF ErasureAssumption, ErasureInv, ErasureTypeOK, Days, NoDay, outside, history
<1>1. CASE RequestDeletion
  BY <1>1, ScheduledType DEF RequestDeletion
<1>2. CASE UploadCv
  BY <1>2 DEF UploadCv
<1>3. CASE CancelStarts
  BY <1>3 DEF CancelStarts
<1>4. CASE CancelCommits
  <2>1. account' = Kept \/ account' = account
    BY <1>4, Zenon DEF CancelCommits
  <2>2. account' \in Account
    BY <2>1, KeptType
  <2>3. midway' \in BOOLEAN
    BY <1>4, Zenon DEF CancelCommits
  <2>4. canceller' = NoDay /\ UNCHANGED <<today, outside, eraser, call, faults, during>>
    BY <1>4, Zenon DEF CancelCommits
  <2>5. QED
    BY <2>2, <2>3, <2>4
<1>5. QED
  BY <1>1, <1>2, <1>3, <1>4

(* The sweep's steps keep it: the day it read is never ahead of the clock. *)
LEMMA ErasingKeeps ==
  ASSUME ErasureInv, Erasing \/ EraseFails
  PROVE  ErasureInv'
<1> USE ErasureAssumption DEF ErasureAssumption, ErasureInv, ErasureTypeOK, Days, NoDay, Eraser, outside, history
<1>1. CASE SweepFinds
  BY <1>1 DEF SweepFinds
<1>2. CASE DeleteTraces
  BY <1>2 DEF DeleteTraces, EraserGoes, TracesDeleted
<1>3. CASE DeleteFiles
  BY <1>3 DEF DeleteFiles, EraserGoes
<1>4. CASE EraseRows
  <2>1. account' \in Account
    BY <1>4, ErasedType DEF EraseRows
  <2>2. calls' \subseteq {"user", "tombstone"}
    <3>1. calls' = calls \/ calls' = {Tombstoned(c) : c \in calls}
      BY <1>4, Zenon DEF EraseRows
    <3>2. \A c \in calls : Tombstoned(c) \in {"user", "tombstone"}
      BY DEF Tombstoned
    <3>3. CASE calls' = {Tombstoned(c) : c \in calls}
      <4>1. \A id \in calls' : \E c \in calls : id = Tombstoned(c)
        BY <3>3, Zenon
      <4>2. QED
        BY <3>2, <4>1
    <3>4. QED
      BY <3>1, <3>3
  <2>3. eraser' \in Eraser /\ eraser'.now = eraser.now
    BY <1>4 DEF EraseRows, EraserGoes
  <2>4. QED
    BY <1>4, <2>1, <2>2, <2>3 DEF EraseRows
<1>5. CASE EraseFails
  BY <1>5 DEF EraseFails, Faulty
<1>6. QED
  BY <1>1, <1>2, <1>3, <1>4, <1>5 DEF Erasing

(* The ledger of model calls keeps it: an account takes no part.           *)
LEMMA CallingKeeps ==
  ASSUME ErasureInv, Tick \/ CallStarts \/ WorkerTraces \/ CallRecorded
  PROVE  ErasureInv'
<1> USE ErasureAssumption DEF ErasureAssumption, ErasureInv, ErasureTypeOK, Days, outside, history
<1>1. CASE Tick
  BY <1>1 DEF Tick, Eraser
<1>2. CASE CallStarts
  BY <1>2 DEF CallStarts, CallGoes
<1>3. CASE WorkerTraces
  BY <1>3 DEF WorkerTraces, CallGoes
<1>4. CASE CallRecorded
  BY <1>4 DEF CallRecorded, CallGoes
<1>5. QED
  BY <1>1, <1>2, <1>3, <1>4

(* Every step keeps the invariant.                                         *)
LEMMA NextKeeps == ErasureInv /\ [ErasureNext]_erasureVars => ErasureInv'
<1> SUFFICES ASSUME ErasureInv, [ErasureNext]_erasureVars PROVE ErasureInv'
  OBVIOUS
<1>1. CASE UNCHANGED erasureVars
  BY <1>1 DEF ErasureInv, ErasureTypeOK, erasureVars, outside, history
<1>2. CASE ErasureNext
  BY <1>2, RequestAndCancelKeep, ErasingKeeps, CallingKeeps DEF ErasureNext
<1>3. QED
  BY <1>1, <1>2

(* Every reachable state is well typed, and no erasure is ahead of the     *)
(* clock.                                                                  *)
THEOREM ErasureInvHolds == ErasureSpec => []ErasureInv
  BY ErasureStarts, NextKeeps, PTL DEF ErasureSpec

(* The row, what lies outside the database and the steps under way keep    *)
(* their types, whatever fails.                                            *)
THEOREM ErasureTyped == ErasureSpec => []ErasureTypeOK
<1>1. ErasureInv => ErasureTypeOK
  BY DEF ErasureInv
<1>2. QED
  BY <1>1, ErasureInvHolds, PTL

-----------------------------------------------------------------------------
(* Only the transaction takes the row away.                                *)
LEMMA OnlyEraseRowsRemoves ==
  ASSUME ErasureInv, ErasureNext, account.there, ~account'.there
  PROVE  EraseRows /\ IsDue(eraser.now)
<1>1. Kept.there
  BY DEF Kept
<1>2. account'.there \/ EraseRows
  BY <1>1
  DEF ErasureNext, Erasing, Tick, RequestDeletion, Scheduled, Kept, UploadCv, CancelStarts, CancelCommits,
      SweepFinds, DeleteTraces, DeleteFiles, EraseFails, CallStarts, WorkerTraces, CallRecorded
<1>3. EraseRows => IsDue(eraser.now)
  BY DEF EraseRows
<1>4. QED
  BY <1>2, <1>3

(* An account is erased only once its own grace is over: cancelled while   *)
(* the sweep is at it, or cancelled and asked for again, it stays, since   *)
(* eraseUser looks again inside its transaction.                           *)
THEOREM ErasedOnlyWhenDue == ErasureSpec => ErasedWhenDue
<1>1. ASSUME ErasureInv, [ErasureNext]_erasureVars
      PROVE  [account.there /\ ~account'.there => account.deleted /\ account.due \in 0 .. today]_erasureVars
  <2> SUFFICES ASSUME ErasureNext, account.there, ~account'.there
               PROVE  account.deleted /\ account.due \in 0 .. today
    BY <1>1
  <2>1. IsDue(eraser.now)
    BY <1>1, OnlyEraseRowsRemoves
  <2>2. eraser.now \in Int /\ today \in Int /\ eraser.now <= today
    BY <1>1, ErasureAssumption DEF ErasureAssumption, ErasureInv, ErasureTypeOK, Eraser, Days
  <2>3. QED
    BY <2>1, <2>2 DEF IsDue
<1>2. QED
  BY <1>1, ErasureInvHolds, PTL DEF ErasureSpec, ErasedWhenDue

-----------------------------------------------------------------------------
(* Whoever is being erased is there, and was not let go unless somebody    *)
(* came between.                                                           *)
Doomed == eraser.at # "idle" => account.there /\ (account.deleted \/ midway)

(* What the eraser has behind it has not come back: a trace needs a job    *)
(* that calls the model, a file a candidate who is signed in, whose own    *)
(* next deletion is then due only later.                                   *)
Swept ==
  /\ eraser.at \in {"files", "rows"} /\ ~during => ~traces /\ call = "none"
  /\ eraser.at = "rows" /\ IsDue(eraser.now) => ~files

(* An account erased while no job called the model for it has none left to *)
(* call it either.                                                         *)
Silent == ~account.there /\ ~during => NothingLeft /\ call = "none"

EInv == ErasureInv /\ Doomed /\ Swept /\ Silent

(* Asking for the deletion, a file and a cancellation: the file is of an   *)
(* account nobody deletes, and a new deletion is due after a grace.        *)
LEMMA RequestAndCancelSweep ==
  ASSUME EInv, RequestDeletion \/ UploadCv \/ CancelStarts \/ CancelCommits
  PROVE  Doomed' /\ Swept' /\ Silent'
<1> USE DEF EInv, Doomed, Swept, Silent, NothingLeft, outside, history
<1>1. Kept.there /\ ~Kept.deleted
  BY DEF Kept
<1>2. CASE RequestDeletion
  <2>1. /\ account = Kept /\ account' = Scheduled
        /\ UNCHANGED <<today, outside, eraser, call, history>>
    BY <1>2 DEF RequestDeletion
  <2>2. Scheduled.there /\ Scheduled.deleted /\ Scheduled.due = today + Grace
    BY DEF Scheduled, Kept
  <2>3. eraser.now \in Int /\ today \in Int /\ eraser.now <= today /\ Grace \in Nat \ {0}
    BY ErasureAssumption DEF ErasureAssumption, ErasureInv, ErasureTypeOK, Eraser, Days
  <2>4. ~IsDue(eraser.now)'
    BY <2>1, <2>2, <2>3 DEF IsDue
  <2>5. QED
    BY <1>1, <2>1, <2>2, <2>4
<1>3. CASE UploadCv
  BY <1>1, <1>3 DEF UploadCv, IsDue
<1>4. CASE CancelStarts
  BY <1>4 DEF CancelStarts, IsDue
<1>5. CASE CancelCommits
  <2>1. /\ UNCHANGED <<today, outside, eraser, call, during>>
        /\ \/ UNCHANGED <<account, midway>>
           \/ /\ account' = Kept /\ account.there
              /\ eraser.at # "idle" /\ canceller < account.due => midway'
    BY <1>5 DEF CancelCommits, IsCancellable
  <2>2. CASE UNCHANGED <<account, midway>>
    BY <2>1, <2>2 DEF IsDue
  <2>3. CASE account' = Kept
    <3>1. account' = account \/ eraser.at = "idle" \/ midway'
      <4>1. account' = Kept /\ ~UNCHANGED <<account, midway>> => account.due > canceller
        BY <1>5 DEF CancelCommits, IsCancellable
      <4>2. canceller \in Int /\ account.due \in Int
        BY ErasureAssumption DEF ErasureAssumption, ErasureInv, ErasureTypeOK, Account, Days, NoDay
      <4>3. QED
        BY <2>1, <2>3, <4>1, <4>2
    <3>2. ~IsDue(eraser.now)'
      BY <1>1, <2>3 DEF IsDue
    <3>3. midway => midway'
      BY <1>5, Zenon DEF CancelCommits
    <3>4. QED
      BY <1>1, <2>1, <2>3, <3>1, <3>2, <3>3
  <2>4. QED
    BY <2>1, <2>2, <2>3
<1>6. QED
  BY <1>2, <1>3, <1>4, <1>5

(* The eraser's own steps, each of which clears what it leaves behind.     *)
LEMMA ErasingSweeps ==
  ASSUME EInv, Erasing \/ EraseFails
  PROVE  Doomed' /\ Swept' /\ Silent'
<1> USE DEF EInv, Doomed, Swept, Silent, NothingLeft, outside, history
<1>1. eraser \in Eraser
  BY DEF ErasureInv, ErasureTypeOK
<1>2. CASE SweepFinds
  BY <1>2 DEF SweepFinds
<1>3. CASE DeleteTraces
  BY <1>1, <1>3 DEF DeleteTraces, EraserGoes, TracesDeleted, Eraser
<1>4. CASE DeleteFiles
  BY <1>1, <1>4 DEF DeleteFiles, EraserGoes, Eraser, IsDue
<1>5. CASE EraseRows
  <2>1. /\ eraser.at = "rows" /\ eraser'.at = "idle" /\ account.there
        /\ UNCHANGED <<files, traces, call, history>>
    BY <1>1, <1>5 DEF EraseRows, EraserGoes, Eraser
  <2>2. CASE ~IsDue(eraser.now)
    BY <1>5, <2>1, <2>2 DEF EraseRows
  <2>3. CASE IsDue(eraser.now)
    <3>1. calls' = {Tombstoned(c) : c \in calls}
      BY <1>5, <2>3 DEF EraseRows
    <3>2. "user" \notin calls'
      BY <3>1 DEF Tombstoned
    <3>3. QED
      BY <2>1, <2>3, <3>2
  <2>4. QED
    BY <2>2, <2>3
<1>6. CASE EraseFails
  BY <1>1, <1>6 DEF EraseFails, Eraser
<1>7. QED
  BY <1>2, <1>3, <1>4, <1>5, <1>6 DEF Erasing

(* A job that calls the model begins with the account there, and is known  *)
(* to have come between if the eraser was at it.                           *)
LEMMA CallingSweeps ==
  ASSUME EInv, Tick \/ CallStarts \/ WorkerTraces \/ CallRecorded
  PROVE  Doomed' /\ Swept' /\ Silent'
<1> USE DEF EInv, Doomed, Swept, Silent, NothingLeft, IsDue, outside, history
<1>1. CASE Tick
  BY <1>1 DEF Tick
<1>2. CASE CallStarts
  BY <1>2 DEF CallStarts, CallGoes
<1>3. CASE WorkerTraces
  BY <1>3 DEF WorkerTraces, CallGoes
<1>4. CASE CallRecorded
  BY <1>4 DEF CallRecorded, CallGoes
<1>5. QED
  BY <1>1, <1>2, <1>3, <1>4

(* In every reachable state what the eraser has cleared stays so.          *)
THEOREM ErasureInvariance == ErasureSpec => []EInv
<1>1. ErasureInit => EInv
  BY ErasureStarts DEF EInv, ErasureInit, Doomed, Swept, Silent, Kept
<1>2. EInv /\ [ErasureNext]_erasureVars => EInv'
  <2> SUFFICES ASSUME EInv, [ErasureNext]_erasureVars PROVE EInv'
    OBVIOUS
  <2>1. ErasureInv'
    BY NextKeeps DEF EInv
  <2>2. CASE UNCHANGED erasureVars
    BY <2>1, <2>2 DEF EInv, Doomed, Swept, Silent, NothingLeft, IsDue, erasureVars, outside, history
  <2>3. CASE ErasureNext
    BY <2>1, <2>3, RequestAndCancelSweep, ErasingSweeps, CallingSweeps DEF EInv, ErasureNext
  <2>4. QED
    BY <2>2, <2>3
<1>3. QED
  BY <1>1, <1>2, PTL DEF ErasureSpec

(* Erasure leaves nothing under the user's id, however often it failed     *)
(* before, unless a job called the model for the user while it ran.        *)
THEOREM NothingIsLeft == ErasureSpec => []ErasedLeavesNothing
<1>1. EInv => ErasedLeavesNothing
  BY DEF EInv, Silent, ErasedLeavesNothing
<1>2. QED
  BY <1>1, ErasureInvariance, PTL

(* Files go with an account that is being deleted, unless it was taken     *)
(* back while the sweep was at it.                                         *)
THEOREM FilesAreKept == ErasureSpec => FilesStay
<1>1. ASSUME EInv, [ErasureNext]_erasureVars
      PROVE  [files /\ ~files' /\ ~midway => account.deleted]_erasureVars
  <2> SUFFICES ASSUME ErasureNext, files, ~files', ~midway
               PROVE  account.deleted
    BY <1>1 DEF erasureVars, outside
  <2>1. DeleteFiles
    BY DEF ErasureNext, Erasing, outside, Tick, RequestDeletion, UploadCv, CancelStarts, CancelCommits,
           SweepFinds, DeleteTraces, EraseRows, EraseFails, CallStarts, WorkerTraces, CallRecorded
  <2>2. eraser.at = "files"
    BY <2>1 DEF DeleteFiles, EraserGoes
  <2>3. QED
    BY <1>1, <2>2 DEF EInv, Doomed
<1>2. QED
  BY <1>1, ErasureInvariance, PTL DEF ErasureSpec, FilesStay

=============================================================================
