--------------------------- MODULE CvUploadProofs ---------------------------
(***************************************************************************)
(* Theorems about CvUpload, for any uploads, any requests and any number   *)
(* of attempts and failures.                                               *)
(***************************************************************************)
EXTENDS CvUpload, TLAPS

(* ParsedIsOfTheCv is inductive once the profile is one: every write of    *)
(* the profile either empties `of' or fills it with the upload it is of.   *)
Typed == TypeOK /\ ParsedIsOfTheCv

(* A confirmation under way has an upload to confirm.                      *)
Named == \A r \in Confirms : pc[r] = "new" \/ upload[r] \in Uploads

(* Nothing is corrected before it is read, and whoever still reads the CV  *)
(* there is has not told of it yet: it is in processing.                   *)
Unread ==
  /\ profile.status = "processing" => ~profile.edited
  /\ \A u \in Uploads : job[u].state \in {"reading", "asking"} /\ profile.key = u =>
       profile.status = "processing"

(* A candidate without a CV has nothing corrected.                         *)
Blank == profile.key = NoFile => profile.status = "none" /\ ~profile.edited

(* No request makes the CV it read the CV again: what Redis remembers is   *)
(* not a CV yet, and is forgotten before it becomes one.                   *)
Fresh ==
  /\ profile.key \notin pending
  /\ \A r \in Confirms : pc[r] \notin {"new", "accepted", "over"} => upload[r] \notin pending
  /\ \A r \in Confirms : pc[r] # "new" => seen[r] # upload[r]

IInv == Typed /\ Named /\ Unread /\ Blank /\ Fresh

-----------------------------------------------------------------------------
(* What the code makes of the profile is a profile, and says no more than  *)
(* what is known of the CV that is on it.                                  *)

Sound(p) == p \in Profile /\ p.of \in {p.key, NoFile}

(* Typed is the type of the variables, and a sound profile.                *)
LEMMA TypedIsSound == Typed <=> TypeOK /\ Sound(profile)
  BY DEF Typed, TypeOK, ParsedIsOfTheCv, Sound

(* A profile without a CV is sound.                                        *)
LEMMA EmptyCvSound == Sound(EmptyCv)
<1>1. NoFile \in Keys
  BY DEF Keys
<1>2. EmptyCv \in Profile
  BY <1>1, Zenon DEF EmptyCv, Profile
<1>3. EmptyCv.of = NoFile
  BY DEF EmptyCv
<1>4. QED
  BY <1>2, <1>3 DEF Sound

(* So is one whose CV has just been replaced.                              *)
LEMMA NewCvSound ==
  ASSUME NEW u \in Keys
  PROVE  Sound(NewCv(u))
<1>1. EmptyCv \in Profile /\ EmptyCv.of = NoFile
  BY EmptyCvSound DEF Sound, EmptyCv
<1>2. QED
  BY <1>1 DEF NewCv, Profile, Sound

(* So is a corrected one.                                                  *)
LEMMA CorrectedSound ==
  ASSUME Sound(profile)
  PROVE  Sound([profile EXCEPT !.status = "parsed", !.edited = TRUE])
  BY DEF Sound, Profile

(* So is one the answer of the worker is stored in, or not.                *)
LEMMA StoreSound ==
  ASSUME NEW u \in Uploads, NEW status \in {"parsed", "unreadable"}, NEW of \in {u, NoFile},
         Sound(profile), Store(u, status, of)
  PROVE  Sound(profile')
  BY DEF Sound, Store, StillCv, Profile, Keys

(* So is one whose job has given up.                                       *)
LEMMA GiveUpSound ==
  ASSUME NEW u \in Uploads, Sound(profile), GiveUp(u)
  PROVE  Sound(profile')
  BY DEF Sound, GiveUp, Profile

-----------------------------------------------------------------------------
(* The first state is typed.                                               *)
LEMMA InitTyped == Init => Typed
<1> SUFFICES ASSUME Init PROVE Typed
  OBVIOUS
<1>1. Sound(profile)
  BY EmptyCvSound DEF Init
<1>2. /\ pending \subseteq Uploads
      /\ quarantine \in [Uploads -> {"absent", "good", "bad"}]
      /\ files \subseteq Uploads
      /\ pc \in [Requests -> Places]
      /\ twice \subseteq Uploads
  BY DEF Init, Places
<1>3. upload \in [Requests -> Keys] /\ seen \in [Requests -> Keys]
  BY DEF Init, Keys
<1>4. job \in [Uploads -> Job] /\ faults \in 0 .. MaxFaults
  BY CvAssumption DEF CvAssumption, Init, Job
<1>5. blind \in BOOLEAN
  BY Zenon DEF Init
<1>6. QED
  BY <1>1, <1>2, <1>3, <1>4, <1>5, TypedIsSound DEF TypeOK, Sound

(* Neither the browser nor Redis touches the profile.                      *)
LEMMA UploadsKeep ==
  ASSUME IInv, NEW u \in Uploads, Put(u) \/ PendingExpires(u)
  PROVE  Typed'
<1> USE DEF IInv, Typed, TypeOK, ParsedIsOfTheCv, storage, request, history
<1>1. CASE Put(u)
  BY <1>1 DEF Put
<1>2. CASE PendingExpires(u)
  BY <1>2 DEF PendingExpires
<1>3. QED
  BY <1>1, <1>2

(* Confirming: the upload of a request is one, and the CV it makes is new. *)
LEMMA AcceptKeeps ==
  ASSUME IInv, NEW r \in Confirms, Accept(r)
  PROVE  Typed'
<1> USE DEF IInv, Typed, TypeOK, ParsedIsOfTheCv, storage, request, history
<1>1. r \in Requests
  BY DEF Requests
<1>2. PICK u \in pending : /\ upload' = [upload EXCEPT ![r] = u]
                           /\ twice' = IF \E s \in Confirms : upload[s] = u
                                       THEN twice \cup {u} ELSE twice
  BY DEF Accept
<1>3. upload' \in [Requests -> Keys] /\ twice' \subseteq Uploads
  BY <1>1, <1>2 DEF Keys
<1>4. seen' \in [Requests -> Keys]
  BY <1>1 DEF Accept, Profile
<1>5. pc' \in [Requests -> Places]
  BY <1>1 DEF Accept, Goes, Places
<1>6. QED
  BY <1>3, <1>4, <1>5 DEF Accept

(* The steps of a confirmation keep the types: what they copy is an        *)
(* upload.                                                                 *)
LEMMA ConfirmingKeeps ==
  ASSUME IInv, NEW r \in Confirms, Confirming(r)
  PROVE  Typed'
<1> USE DEF IInv, Typed, TypeOK, ParsedIsOfTheCv, storage, request, history, Goes
<1>1. r \in Requests /\ upload[r] \in Keys
  BY DEF Requests
<1>2. CASE ForgetPending(r)
  BY <1>1, <1>2 DEF ForgetPending, Places
<1>3. CASE CheckFile(r)
  BY <1>1, <1>3 DEF CheckFile, Places
<1>4. CASE CopyFile(r)
  <2>1. upload[r] \in Uploads
    BY <1>4 DEF CopyFile, Named
  <2>2. QED
    BY <1>1, <1>4, <2>1 DEF CopyFile, Places
<1>5. CASE FileIsGone(r)
  BY <1>1, <1>5 DEF FileIsGone, Places
<1>6. CASE ClearQuarantine(r)
  BY <1>1, <1>6 DEF ClearQuarantine, Places
<1>7. CASE ReplaceCv(r)
  BY <1>1, <1>7, NewCvSound DEF ReplaceCv, Places, Sound
<1>8. CASE UndoCopy(r)
  BY <1>1, <1>8 DEF UndoCopy, Places
<1>9. CASE DeleteOld(r)
  BY <1>1, <1>9 DEF DeleteOld, Places
<1>10. CASE Enqueue(r)
  BY <1>1, <1>10 DEF Enqueue, Places, Job
<1>11. QED
  BY <1>2, <1>3, <1>4, <1>5, <1>6, <1>7, <1>8, <1>9, <1>10 DEF Confirming

(* Removing, and whatever may go wrong with a request.                     *)
LEMMA RemovingKeeps ==
  ASSUME IInv, NEW r \in Requests,
         ReadToRemove(r) \/ RemoveCv(r) \/ DeleteOld(r) \/ DeleteOldFails(r) \/ RequestFails(r)
  PROVE  Typed'
<1> USE DEF IInv, Typed, TypeOK, ParsedIsOfTheCv, storage, request, history, Goes
<1>1. CASE ReadToRemove(r)
  BY <1>1 DEF ReadToRemove, Places, Profile
<1>2. CASE RemoveCv(r)
  <2>1. blind' \in BOOLEAN
    BY <1>2, Zenon DEF RemoveCv
  <2>2. profile' = EmptyCv /\ pc' \in [Requests -> Places]
    BY <1>2 DEF RemoveCv, Places
  <2>3. UNCHANGED <<pending, storage, request, job, faults, twice>>
    BY <1>2, Zenon DEF RemoveCv
  <2>4. QED
    BY <2>1, <2>2, <2>3, EmptyCvSound DEF Sound
<1>3. CASE DeleteOld(r)
  BY <1>3 DEF DeleteOld, Places
<1>4. CASE DeleteOldFails(r)
  BY <1>4, CvAssumption DEF CvAssumption, DeleteOldFails, Places, Faulty
<1>5. CASE RequestFails(r)
  BY <1>5, CvAssumption DEF CvAssumption, RequestFails, Places, Faulty
<1>6. QED
  BY <1>1, <1>2, <1>3, <1>4, <1>5

(* A correction keeps the types.                                           *)
LEMMA CorrectingKeeps ==
  ASSUME IInv, UpdateParsed
  PROVE  Typed'
  BY CorrectedSound DEF IInv, Typed, TypeOK, ParsedIsOfTheCv, Sound, UpdateParsed, storage, request, history

(* The parse job of one upload.                                            *)
LEMMA ParsingKeeps ==
  ASSUME IInv, NEW u \in Uploads, Parsing(u)
  PROVE  Typed'
<1> USE DEF IInv, Typed, TypeOK, ParsedIsOfTheCv, storage, request, history, JobGoes
<1>1. job[u] \in Job
  OBVIOUS
<1>2. CASE ReadProfile(u)
  BY <1>1, <1>2 DEF ReadProfile, Job
<1>3. CASE ReadFile(u)
  BY <1>1, <1>3 DEF ReadFile, Job
<1>4. CASE WorkerAnswers(u)
  <2>1. Sound(profile')
    BY <1>4, StoreSound DEF WorkerAnswers, Sound
  <2>2. job' \in [Uploads -> Job]
    BY <1>1, <1>4 DEF WorkerAnswers, Job
  <2>3. QED
    BY <1>4, <2>1, <2>2 DEF WorkerAnswers, Sound
<1>5. CASE AttemptFails(u)
  <2>1. Sound(profile')
    BY <1>5, GiveUpSound DEF AttemptFails, Sound
  <2>2. job' \in [Uploads -> Job]
    BY <1>1, <1>5, CvAssumption DEF CvAssumption, AttemptFails, LastAttempt, Job
  <2>3. QED
    BY <1>5, <2>1, <2>2 DEF AttemptFails, Sound
<1>6. QED
  BY <1>2, <1>3, <1>4, <1>5 DEF Parsing

(* An attempt that breaks or stalls keeps the types.                       *)
LEMMA BreakingKeeps ==
  ASSUME IInv, NEW u \in Uploads, AttemptBreaks(u) \/ JobStalls(u)
  PROVE  Typed'
<1> USE CvAssumption
    DEF CvAssumption, IInv, Typed, TypeOK, ParsedIsOfTheCv, storage, request, history, Faulty
<1>1. job[u] \in Job
  OBVIOUS
<1>2. CASE AttemptBreaks(u)
  BY <1>1, <1>2 DEF AttemptBreaks, LastAttempt, Job
<1>3. CASE JobStalls(u)
  BY <1>1, <1>3 DEF JobStalls, Job
<1>4. QED
  BY <1>2, <1>3

(* Every step keeps the types and the source of what was parsed.           *)
LEMMA NextTyped ==
  ASSUME IInv, [Next]_vars
  PROVE  Typed'
<1>1. CASE UNCHANGED vars
  BY <1>1 DEF IInv, Typed, TypeOK, ParsedIsOfTheCv, vars, storage, request, history
<1>2. CASE Next
  <2>1. Confirms \subseteq Requests /\ Removes \subseteq Requests
    BY DEF Requests
  <2>2. QED
    BY <1>2, <2>1, UploadsKeep, AcceptKeeps, ConfirmingKeeps, RemovingKeeps, CorrectingKeeps,
       ParsingKeeps, BreakingKeeps DEF Next
<1>3. QED
  BY <1>1, <1>2

-----------------------------------------------------------------------------
(* Uploads are named by Accept alone, and no request becomes new again.    *)
LEMMA NextNamed ==
  ASSUME IInv, [Next]_vars
  PROVE  Named'
<1> SUFFICES ASSUME NEW r \in Confirms PROVE (pc[r] = "new" \/ upload[r] \in Uploads)'
  BY DEF Named
<1> USE DEF request, Goes
<1>1. /\ r \in Requests
      /\ pc \in [Requests -> Places] /\ upload \in [Requests -> Keys]
      /\ pc[r] = "new" \/ upload[r] \in Uploads
  BY DEF Requests, IInv, Typed, TypeOK, Named
<1>2. CASE \E s \in Confirms : Accept(s)
  <2>1. PICK s \in Confirms : Accept(s)
    BY <1>2
  <2>2. s \in Requests /\ pending \subseteq Uploads
    BY DEF Requests, IInv, Typed, TypeOK
  <2>3. CASE s = r
    BY <1>1, <2>1, <2>2, <2>3 DEF Accept
  <2>4. CASE s # r
    BY <1>1, <2>1, <2>2, <2>4 DEF Accept
  <2>5. QED
    BY <2>3, <2>4
<1>3. CASE \E s \in Confirms : Confirming(s)
  <2>1. PICK s \in Confirms : Confirming(s)
    BY <1>3
  <2>2. s \in Requests
    BY DEF Requests
  <2>3. upload'[r] = upload[r] /\ (pc[r] = "new" => pc'[r] = "new")
    BY <1>1, <2>1, <2>2
    DEF Confirming, ForgetPending, CheckFile, CopyFile, FileIsGone, ClearQuarantine, ReplaceCv,
        UndoCopy, DeleteOld, Enqueue
  <2>4. QED
    BY <1>1, <2>3
<1>4. CASE \E s \in Removes : ReadToRemove(s) \/ RemoveCv(s) \/ DeleteOld(s)
  <2>1. PICK s \in Removes : ReadToRemove(s) \/ RemoveCv(s) \/ DeleteOld(s)
    BY <1>4
  <2>2. s # r
    BY CvAssumption DEF CvAssumption
  <2>3. upload' = upload /\ pc'[r] = pc[r]
    BY <1>1, <2>1, <2>2 DEF ReadToRemove, RemoveCv, DeleteOld
  <2>4. QED
    BY <1>1, <2>3
<1>5. CASE \E s \in Requests : DeleteOldFails(s) \/ RequestFails(s)
  BY <1>1, <1>5 DEF DeleteOldFails, RequestFails
<1>6. CASE \/ \E u \in Uploads : Put(u) \/ PendingExpires(u)
           \/ \E u \in Uploads : Parsing(u) \/ AttemptBreaks(u) \/ JobStalls(u)
           \/ UpdateParsed \/ UNCHANGED vars
  <2>1. UNCHANGED <<pc, request>>
    BY <1>6 DEF Put, PendingExpires, Parsing, ReadProfile, ReadFile, WorkerAnswers, AttemptFails,
                AttemptBreaks, JobStalls, UpdateParsed, vars
  <2>2. QED
    BY <1>1, <2>1
<1>7. QED
  BY <1>2, <1>3, <1>4, <1>5, <1>6 DEF Next

(* Only a new CV goes into processing, and who tells of it has ended.      *)
LEMMA NextUnread ==
  ASSUME IInv, [Next]_vars
  PROVE  Unread'
<1> USE DEF storage, request, history, Goes, JobGoes
<1>1. job \in [Uploads -> Job] /\ Unread /\ profile \in Profile
  BY DEF IInv, Typed, TypeOK
<1>2. CASE UNCHANGED <<profile, job>>
  BY <1>1, <1>2 DEF Unread
<1>3. CASE \E r \in Confirms : ReplaceCv(r)
  <2>1. job' = job /\ (profile' = profile \/ \E r \in Confirms : profile' = NewCv(upload[r]))
    BY <1>3 DEF ReplaceCv
  <2>2. \A u : NewCv(u).status = "processing" /\ ~NewCv(u).edited
    BY DEF NewCv, EmptyCv
  <2>3. QED
    BY <1>1, <2>1, <2>2 DEF Unread
<1>4. CASE \E r \in Removes : RemoveCv(r)
  <2>1. job' = job /\ profile' = EmptyCv
    BY <1>4, Zenon DEF RemoveCv
  <2>2. EmptyCv.status # "processing" /\ EmptyCv.key \notin Uploads
    BY CvAssumption DEF CvAssumption, EmptyCv
  <2>3. QED
    BY <2>1, <2>2 DEF Unread
<1>5. CASE UpdateParsed
  <2>1. job' = job /\ profile'.status = "parsed" /\ profile'.key = profile.key
    BY <1>1, <1>5 DEF UpdateParsed, Profile
  <2>2. profile.status # "processing"
    BY <1>5 DEF UpdateParsed, IsEditable
  <2>3. QED
    BY <1>1, <2>1, <2>2 DEF Unread
<1>6. CASE \E r \in Confirms : Enqueue(r)
  <2>1. /\ profile' = profile
        /\ \A u \in Uploads : job'[u].state \in {"reading", "asking"} => job[u].state = job'[u].state
    BY <1>1, <1>6 DEF Enqueue, Job
  <2>2. QED
    BY <1>1, <2>1 DEF Unread
<1>7. CASE \E u \in Uploads : Parsing(u) \/ AttemptBreaks(u) \/ JobStalls(u)
  <2>1. PICK u \in Uploads : Parsing(u) \/ AttemptBreaks(u) \/ JobStalls(u)
    BY <1>7
  <2>2. \A v \in Uploads : v # u => job'[v] = job[v]
    BY <1>1, <2>1
    DEF Parsing, ReadProfile, ReadFile, WorkerAnswers, AttemptFails, AttemptBreaks, JobStalls
  <2>3. CASE UNCHANGED profile
    <3>1. job'[u].state \in {"reading", "asking"} /\ profile.key = u => profile.status = "processing"
      BY <1>1, <2>1, <2>3
      DEF Parsing, ReadProfile, ReadFile, WorkerAnswers, AttemptFails, AttemptBreaks, JobStalls,
          Job, Unread
    <3>2. QED
      BY <1>1, <2>2, <2>3, <3>1 DEF Unread
  <2>4. CASE profile' # profile
    <3>1. CASE WorkerAnswers(u)
      <4>1. job'[u].state = "over" /\ profile.key = u
        BY <1>1, <2>4, <3>1 DEF WorkerAnswers, Job, Store, StillCv
      <4>2. profile'.key = u /\ profile'.status \in {"parsed", "unreadable"}
        BY <1>1, <2>4, <3>1 DEF WorkerAnswers, Profile, Store, StillCv
      <4>3. QED
        BY <1>1, <2>2, <4>1, <4>2 DEF Unread
    <3>2. CASE AttemptFails(u)
      <4>1. job'[u].state = "over" /\ profile.key = u
        BY <1>1, <2>4, <3>2 DEF AttemptFails, Job, GiveUp, StillCv
      <4>2. profile'.key = u /\ profile'.status = "failed"
        BY <1>1, <2>4, <3>2 DEF AttemptFails, Profile, GiveUp, StillCv
      <4>3. QED
        BY <1>1, <2>2, <4>1, <4>2 DEF Unread
    <3>3. QED
      BY <2>1, <2>4, <3>1, <3>2
      DEF Parsing, ReadProfile, ReadFile, AttemptBreaks, JobStalls
  <2>5. QED
    BY <2>3, <2>4
<1>8. QED
  BY <1>2, <1>3, <1>4, <1>5, <1>6, <1>7
  DEF Next, Put, PendingExpires, Accept, Confirming, ForgetPending, CheckFile, CopyFile,
      FileIsGone, ClearQuarantine, UndoCopy, DeleteOld, ReadToRemove, DeleteOldFails,
      RequestFails, vars

-----------------------------------------------------------------------------
(* The steps that write the profile, and those that move a confirmation.   *)
LEMMA ProfileWriters ==
  ASSUME [Next]_vars
  PROVE  \/ UNCHANGED profile
         \/ \E r \in Confirms : ReplaceCv(r) /\ profile' = NewCv(upload[r])
         \/ profile' = EmptyCv
         \/ UpdateParsed
         \/ \E u \in Uploads : WorkerAnswers(u) \/ AttemptFails(u)
<1> USE DEF storage, request, history
<1>1. ASSUME NEW r \in Confirms, Accept(r) \/ Confirming(r)
      PROVE  UNCHANGED profile \/ (ReplaceCv(r) /\ profile' = NewCv(upload[r]))
  BY <1>1 DEF Accept, Confirming, ForgetPending, CheckFile, CopyFile, FileIsGone,
              ClearQuarantine, ReplaceCv, UndoCopy, DeleteOld, Enqueue
<1>2. ASSUME NEW r \in Removes, ReadToRemove(r) \/ RemoveCv(r) \/ DeleteOld(r)
      PROVE  UNCHANGED profile \/ profile' = EmptyCv
  BY <1>2, Zenon DEF ReadToRemove, RemoveCv, DeleteOld
<1>3. ASSUME NEW u \in Uploads, Parsing(u) \/ AttemptBreaks(u) \/ JobStalls(u)
      PROVE  UNCHANGED profile \/ WorkerAnswers(u) \/ AttemptFails(u)
  BY <1>3 DEF Parsing, ReadProfile, ReadFile, AttemptBreaks, JobStalls
<1>4. QED
  BY <1>1, <1>2, <1>3 DEF Next, Put, PendingExpires, DeleteOldFails, RequestFails, vars

(* How a confirmation moves in a step, its own or of another.              *)
LEMMA RequestMoves ==
  ASSUME IInv, [Next]_vars, NEW r \in Confirms
  PROVE  \/ UNCHANGED <<upload[r], seen[r], pc[r]>>
         \/ Accept(r) \/ ForgetPending(r) \/ RequestFails(r)
         \/ /\ UNCHANGED <<upload, seen>> /\ pc[r] \notin {"new", "accepted"}
            /\ pc[r] = "over" => pc'[r] = "over"
<1> USE DEF storage, request, history, Goes
<1>1. /\ pc \in [Requests -> Places] /\ upload \in [Requests -> Keys]
      /\ seen \in [Requests -> Keys]
      /\ Confirms \subseteq Requests /\ Removes \subseteq Requests /\ r \notin Removes
  BY CvAssumption DEF CvAssumption, IInv, Typed, TypeOK, Requests
<1>2. ASSUME NEW s \in Confirms, Accept(s) \/ Confirming(s), s # r
      PROVE  UNCHANGED <<upload[r], seen[r], pc[r]>>
  <2>1. CASE Accept(s)
    BY <1>1, <1>2, <2>1 DEF Accept
  <2>2. CASE Confirming(s)
    BY <1>1, <1>2, <2>2
    DEF Confirming, ForgetPending, CheckFile, CopyFile, FileIsGone, ClearQuarantine, ReplaceCv,
        UndoCopy, DeleteOld, Enqueue
  <2>3. QED
    BY <1>2, <2>1, <2>2
<1>3. ASSUME Confirming(r), ~ForgetPending(r)
      PROVE  UNCHANGED <<upload, seen>> /\ pc[r] \notin {"new", "accepted", "over"}
  BY <1>1, <1>3
  DEF Confirming, CheckFile, CopyFile, FileIsGone, ClearQuarantine, ReplaceCv,
      UndoCopy, DeleteOld, Enqueue
<1>4. ASSUME NEW s \in Removes, ReadToRemove(s) \/ RemoveCv(s) \/ DeleteOld(s)
      PROVE  UNCHANGED <<upload[r], seen[r], pc[r]>>
  BY <1>1, <1>4 DEF ReadToRemove, RemoveCv, DeleteOld
<1>5. ASSUME NEW s \in Requests, DeleteOldFails(s) \/ RequestFails(s), s # r
      PROVE  UNCHANGED <<upload[r], seen[r], pc[r]>>
  BY <1>1, <1>5 DEF DeleteOldFails, RequestFails
<1>6. ASSUME DeleteOldFails(r)
      PROVE  UNCHANGED <<upload, seen>> /\ pc[r] \notin {"new", "accepted", "over"}
  BY <1>1, <1>6 DEF DeleteOldFails
<1>7. CASE \/ \E u \in Uploads : Put(u) \/ PendingExpires(u)
           \/ \E u \in Uploads : Parsing(u) \/ AttemptBreaks(u) \/ JobStalls(u)
           \/ UpdateParsed \/ UNCHANGED vars
  BY <1>7 DEF Put, PendingExpires, Parsing, ReadProfile, ReadFile, WorkerAnswers, AttemptFails,
              AttemptBreaks, JobStalls, UpdateParsed, vars
<1>8. QED
  BY <1>2, <1>3, <1>4, <1>5, <1>6, <1>7 DEF Next

(* Only a confirmation gives a candidate a CV.                             *)
LEMMA NextBlank ==
  ASSUME IInv, [Next]_vars
  PROVE  Blank'
<1> USE DEF storage, request, history
<1>1. profile \in Profile /\ Blank
  BY DEF IInv, Typed, TypeOK
<1>2. CASE UNCHANGED profile
  BY <1>1, <1>2 DEF Blank
<1>3. CASE \E r \in Confirms : ReplaceCv(r) /\ profile' = NewCv(upload[r])
  <2>1. PICK r \in Confirms : ReplaceCv(r) /\ profile' = NewCv(upload[r])
    BY <1>3
  <2>2. upload[r] \in Uploads
    BY <2>1 DEF IInv, Named, ReplaceCv, Goes
  <2>3. profile'.key # NoFile
    BY <2>1, <2>2, CvAssumption DEF CvAssumption, NewCv, EmptyCv
  <2>4. QED
    BY <2>3 DEF Blank
<1>4. CASE profile' = EmptyCv
  BY <1>4 DEF Blank, EmptyCv
<1>5. CASE UpdateParsed
  <2>1. profile.key # NoFile /\ profile'.key = profile.key
    BY <1>1, <1>5 DEF UpdateParsed, IsEditable, Blank, Profile
  <2>2. QED
    BY <2>1 DEF Blank
<1>6. CASE \E u \in Uploads : WorkerAnswers(u) \/ AttemptFails(u)
  <2>1. PICK u \in Uploads : WorkerAnswers(u) \/ AttemptFails(u)
    BY <1>6
  <2>2. UNCHANGED profile \/ profile'.key = u
    BY <1>1, <2>1 DEF WorkerAnswers, AttemptFails, Store, GiveUp, StillCv, Profile
  <2>3. QED
    BY <1>2, <2>2, CvAssumption DEF CvAssumption, Blank
<1>7. QED
  BY <1>2, <1>3, <1>4, <1>5, <1>6, ProfileWriters

(* What Redis remembers only shrinks; what a confirmation forgets is never *)
(* remembered again.                                                       *)
LEMMA NextFresh ==
  ASSUME IInv, [Next]_vars
  PROVE  Fresh'
<1> USE DEF storage, request, history, Goes
<1>1. /\ pc \in [Requests -> Places] /\ upload \in [Requests -> Keys]
      /\ seen \in [Requests -> Keys] /\ profile \in Profile
      /\ pending \subseteq Uploads /\ Named /\ Fresh
      /\ Confirms \subseteq Requests /\ Removes \subseteq Requests
  BY DEF IInv, Typed, TypeOK, Requests
<1>2. pending' \subseteq pending
  BY DEF Next, Put, PendingExpires, Accept, Confirming, ForgetPending, CheckFile, CopyFile,
         FileIsGone, ClearQuarantine, ReplaceCv, UndoCopy, DeleteOld, Enqueue, ReadToRemove,
         RemoveCv, DeleteOldFails, RequestFails, Parsing, ReadProfile, ReadFile, WorkerAnswers,
         AttemptFails, AttemptBreaks, JobStalls, UpdateParsed, vars
<1>3. profile'.key \notin pending'
  <2>1. CASE UNCHANGED profile
    BY <1>1, <1>2, <2>1 DEF Fresh
  <2>2. CASE \E r \in Confirms : ReplaceCv(r) /\ profile' = NewCv(upload[r])
    <3>1. PICK r \in Confirms : ReplaceCv(r) /\ profile' = NewCv(upload[r])
      BY <2>2
    <3>2. profile'.key = upload[r] /\ upload[r] \notin pending
      BY <1>1, <3>1 DEF ReplaceCv, NewCv, EmptyCv, Fresh
    <3>3. QED
      BY <1>2, <3>2
  <2>3. CASE profile' = EmptyCv
    BY <1>1, <1>2, <2>3, CvAssumption DEF CvAssumption, EmptyCv
  <2>4. CASE UpdateParsed
    BY <1>1, <1>2, <2>4 DEF UpdateParsed, Profile, Fresh
  <2>5. CASE \E u \in Uploads : WorkerAnswers(u) \/ AttemptFails(u)
    <3>1. profile'.key = profile.key
      BY <1>1, <2>5 DEF WorkerAnswers, AttemptFails, Store, GiveUp, StillCv, Profile
    <3>2. QED
      BY <1>1, <1>2, <3>1 DEF Fresh
  <2>6. QED
    BY <2>1, <2>2, <2>3, <2>4, <2>5, ProfileWriters
<1>4. ASSUME NEW r \in Confirms
      PROVE  /\ pc'[r] \notin {"new", "accepted", "over"} => upload'[r] \notin pending'
             /\ pc'[r] # "new" => seen'[r] # upload'[r]
  <2>1. CASE UNCHANGED <<upload[r], seen[r], pc[r]>>
    BY <1>1, <1>2, <2>1 DEF Fresh
  <2>2. CASE Accept(r)
    <3>1. PICK u \in pending : upload' = [upload EXCEPT ![r] = u]
      BY <2>2 DEF Accept
    <3>2. pc'[r] = "accepted" /\ upload'[r] = u /\ seen'[r] = profile.key
      BY <1>1, <2>2, <3>1 DEF Accept
    <3>3. QED
      BY <1>1, <3>2 DEF Fresh
  <2>3. CASE ForgetPending(r)
    BY <1>1, <2>3 DEF ForgetPending, Fresh
  <2>4. CASE /\ UNCHANGED <<upload, seen>> /\ pc[r] \notin {"new", "accepted"}
             /\ pc[r] = "over" => pc'[r] = "over"
    BY <1>1, <1>2, <2>4 DEF Fresh
  <2>5. CASE RequestFails(r)
    BY <1>1, <2>5 DEF RequestFails, Fresh
  <2>6. QED
    BY <1>4, <2>1, <2>2, <2>3, <2>4, <2>5, RequestMoves
<1>5. QED
  BY <1>3, <1>4 DEF Fresh

-----------------------------------------------------------------------------
(* Every reachable state is typed, its parsed details are of its CV, and   *)
(* nothing corrected is still being read.                                  *)
THEOREM Invariance == Spec => []IInv
<1>1. Init => IInv
  <2>1. Init => Named
    BY DEF Init, Named, Requests
  <2>2. Init => Unread /\ Blank
    BY DEF Init, Unread, Blank, EmptyCv
  <2>3. Init => Fresh
    BY CvAssumption DEF CvAssumption, Init, Fresh, EmptyCv, Requests
  <2>4. QED
    BY <2>1, <2>2, <2>3, InitTyped DEF IInv
<1>2. IInv /\ [Next]_vars => IInv'
  BY NextTyped, NextNamed, NextUnread, NextBlank, NextFresh DEF IInv
<1>3. QED
  BY <1>1, <1>2, PTL DEF Spec

(* The upload, storage, profile and jobs keep their types.                 *)
THEOREM TypeCorrect == Spec => []TypeOK
<1>1. IInv => TypeOK
  BY DEF IInv, Typed
<1>2. QED
  BY <1>1, Invariance, PTL

(* A parse that ends late tells nothing of the CV there is by then.        *)
THEOREM ParsedOfTheCv == Spec => []ParsedIsOfTheCv
<1>1. IInv => ParsedIsOfTheCv
  BY DEF IInv, Typed
<1>2. QED
  BY <1>1, Invariance, PTL

(* Corrections are never lost to an answer of the worker: it comes from an *)
(* attempt that found the CV in processing, and so finds it uncorrected.   *)
THEOREM CorrectionsKept == Spec => CorrectionsStay
<1>1. ASSUME IInv, [Next]_vars
      PROVE  [profile.edited /\ profile'.key = profile.key => profile'.edited]_vars
  <2> SUFFICES ASSUME profile.edited, profile'.key = profile.key
               PROVE  profile'.edited
    OBVIOUS
  <2>1. /\ job \in [Uploads -> Job] /\ profile \in Profile
        /\ Named /\ Unread /\ Blank /\ Fresh
    BY <1>1 DEF IInv, Typed, TypeOK
  <2>2. CASE UNCHANGED profile
    BY <2>2
  <2>3. CASE \E r \in Confirms : ReplaceCv(r) /\ profile' = NewCv(upload[r])
    <3>1. PICK r \in Confirms : ReplaceCv(r) /\ profile' = NewCv(upload[r])
      BY <2>3
    <3>2. profile'.key = upload[r]
      BY <3>1 DEF NewCv, EmptyCv
    <3>3. pc[r] = "replacing" /\ (profile.key = seen[r] \/ profile' = profile)
      BY <3>1 DEF ReplaceCv, CvItSaw, Goes
    <3>4. QED
      BY <2>1, <3>2, <3>3 DEF Fresh
  <2>4. CASE profile' = EmptyCv
    BY <2>1, <2>4 DEF EmptyCv, Blank
  <2>5. CASE UpdateParsed
    BY <2>1, <2>5 DEF UpdateParsed, Profile
  <2>6. CASE \E u \in Uploads : WorkerAnswers(u) \/ AttemptFails(u)
    <3>1. PICK u \in Uploads : WorkerAnswers(u) \/ AttemptFails(u)
      BY <2>6
    <3>2. CASE WorkerAnswers(u)
      <4>1. job[u].state = "asking"
        BY <3>2 DEF WorkerAnswers, JobGoes
      <4>2. profile.key # u
        BY <2>1, <4>1 DEF Unread
      <4>3. QED
        BY <3>2, <4>2 DEF WorkerAnswers, Store, StillCv
    <3>3. CASE AttemptFails(u)
      BY <2>1, <3>3 DEF AttemptFails, GiveUp, StillCv, Profile
    <3>4. QED
      BY <3>1, <3>2, <3>3
  <2>7. QED
    BY <1>1, <2>2, <2>3, <2>4, <2>5, <2>6, ProfileWriters
<1>2. QED
  BY <1>1, Invariance, PTL DEF Spec, CorrectionsStay

-----------------------------------------------------------------------------
(* The row and the files.  A confirmation is unsettled until its upload is *)
(* the CV, or its copy is undone.                                          *)
Unsettled == {"accepted", "checking", "copying", "clearing", "replacing", "undoing"}

(* An upload nobody will make the CV, or take back the copy of, unless two *)
(* requests confirmed it.                                                  *)
Spent(k) ==
  /\ k \notin pending
  /\ \A r \in Confirms : upload[r] = k /\ pc[r] \in Unsettled => k \in twice

(* Two requests have one upload only if that has been noticed.             *)
Shared == \A r, s \in Confirms : r # s /\ upload[r] = upload[s] => upload[r] \in twice \cup {NoFile}

(* What is the CV, or was when a request looked, is spent.                 *)
Past ==
  /\ profile.key \in Uploads => Spent(profile.key)
  /\ \A r \in Requests : seen[r] \in Uploads => Spent(seen[r])

(* The file is there before the row names it,                              *)
Copied ==
  \A r \in Confirms : pc[r] \in {"clearing", "replacing"} => upload[r] \in files \cup twice

(* and is deleted only when the row names another.                         *)
Replaced ==
  \A r \in Requests : pc[r] = "deleting" =>
    seen[r] \in twice \cup {NoFile} \/ seen[r] # profile.key

Filed == profile.key \in files \cup {NoFile} \cup twice

(* A file has a request that will make it the CV or delete it.             *)
Owned(u) ==
  \/ \E r \in Confirms : upload[r] = u /\ pc[r] \in {"clearing", "replacing", "undoing"}
  \/ \E r \in Requests : seen[r] = u /\ pc[r] = "deleting"

Tidy == faults = 0 /\ ~blind => \A u \in files : profile.key = u \/ Owned(u)

RowInv == IInv /\ Shared /\ Past /\ Copied /\ Replaced /\ Filed /\ Tidy

(* The parts of the invariant that are about the row, and those about what *)
(* is yet to become of the files.                                          *)
Agreement == Shared /\ Past /\ Copied /\ Replaced /\ Filed /\ Tidy

(* A step that neither moves a request nor touches file or key.            *)
LEMMA ElsewhereAgrees ==
  ASSUME RowInv, pending' \subseteq pending, UNCHANGED <<pc, request, files, history>>,
         profile'.key = profile.key, faults' = 0 => faults = 0
  PROVE  Agreement'
<1> USE DEF RowInv, request, history
<1>1. \A k : Spent(k) => Spent(k)'
  BY DEF Spent
<1>2. Shared' /\ Past' /\ Copied' /\ Replaced' /\ Filed'
  BY <1>1 DEF Shared, Past, Copied, Replaced, Filed
<1>3. \A u : Owned(u) => Owned(u)'
  BY DEF Owned
<1>4. Tidy'
  BY <1>3 DEF Tidy
<1>5. QED
  BY <1>2, <1>4 DEF Agreement

(* The types the steps below rest on.                                      *)
LEMMA RowTypes ==
  ASSUME RowInv
  PROVE  /\ pc \in [Requests -> Places] /\ upload \in [Requests -> Keys]
         /\ seen \in [Requests -> Keys] /\ profile \in Profile
         /\ pending \subseteq Uploads /\ files \subseteq Uploads /\ faults \in Nat
         /\ twice \subseteq Uploads /\ NoFile \notin Uploads
         /\ Confirms \subseteq Requests /\ Removes \subseteq Requests
         /\ Confirms \cap Removes = {}
  BY CvAssumption DEF CvAssumption, RowInv, IInv, Typed, TypeOK, Requests

(* A request goes on, or fails, with neither its upload nor what it read   *)
(* changed, and is no more unsettled than it was.                          *)
LEMMA MovingOnAgrees ==
  ASSUME RowInv, NEW r \in Requests, NEW to \in Places, pc' = [pc EXCEPT ![r] = to],
         pending' \subseteq pending, UNCHANGED <<request, profile, history>>,
         to \in Unsettled => pc[r] \in Unsettled,
         to \in {"clearing", "replacing"} => r \in Confirms /\ upload[r] \in files' \cup twice,
         to = "deleting" => pc[r] = "deleting",
         \A k \in files : k \notin files' =>
           k \in twice \/ (k # profile.key /\ \A s \in Confirms : upload[s] = k => s = r
                                                               \/ pc[s] \notin Unsettled)
  PROVE  Shared' /\ Past' /\ Copied' /\ Replaced' /\ Filed'
<1> USE RowTypes DEF RowInv, request, history
<1>1. \A k : Spent(k) => Spent(k)'
  BY DEF Spent
<1>2. Shared' /\ Past' /\ Replaced'
  BY <1>1 DEF Shared, Past, Replaced
<1>3. Filed'
  BY DEF Filed
<1>4. Copied'
  <2> SUFFICES ASSUME NEW s \in Confirms, pc'[s] \in {"clearing", "replacing"}
               PROVE  upload[s] \in files' \cup twice
    BY DEF Copied
  <2>1. CASE s = r
    BY <2>1
  <2>2. CASE s # r
    <3>1. pc[s] \in {"clearing", "replacing"} /\ upload[s] \in files \cup twice
      BY <2>2 DEF Copied
    <3>2. QED
      BY <2>2, <3>1 DEF Unsettled
  <2>3. QED
    BY <2>1, <2>2
<1>5. QED
  BY <1>2, <1>3, <1>4

(* No file loses its only request by such a step, unless it fails.         *)
LEMMA MovingOnTidies ==
  ASSUME RowInv, NEW r \in Requests, NEW to \in Places, pc' = [pc EXCEPT ![r] = to],
         UNCHANGED <<request, profile, history>>, faults' = 0 => faults = 0,
         \A u \in files' :
           \/ u \in files
           \/ r \in Confirms /\ upload[r] = u /\ to = "clearing",
         faults' = 0 /\ r \in Confirms /\ pc[r] \in {"clearing", "replacing", "undoing"} =>
           to \in {"clearing", "replacing", "undoing"} \/ upload[r] \notin files',
         faults' = 0 /\ pc[r] = "deleting" => seen[r] \notin files'
  PROVE  Tidy'
<1> USE RowTypes DEF request, history
<1> SUFFICES ASSUME faults' = 0, ~blind, NEW u \in files', profile.key # u
             PROVE  Owned(u)'
  BY DEF Tidy
<1>1. CASE u \notin files
  <2>1. r \in Confirms /\ upload'[r] = u /\ pc'[r] = "clearing"
    BY <1>1
  <2>2. QED
    BY <2>1 DEF Owned
<1>2. CASE \E s \in Confirms : upload[s] = u /\ pc[s] \in {"clearing", "replacing", "undoing"}
  <2>1. PICK s \in Confirms : upload[s] = u /\ pc[s] \in {"clearing", "replacing", "undoing"}
    BY <1>2
  <2>2. pc'[s] \in {"clearing", "replacing", "undoing"}
    BY <2>1
  <2>3. QED
    BY <2>1, <2>2 DEF Owned
<1>3. CASE \E s \in Requests : seen[s] = u /\ pc[s] = "deleting"
  <2>1. PICK s \in Requests : seen[s] = u /\ pc[s] = "deleting"
    BY <1>3
  <2>2. pc'[s] = "deleting"
    BY <2>1
  <2>3. QED
    BY <2>1, <2>2 DEF Owned
<1>4. QED
  BY <1>1, <1>2, <1>3 DEF RowInv, Tidy, Owned

(* Accepting names an upload Redis still remembers, which is no CV and was *)
(* none, and what is the CV.                                               *)
LEMMA AcceptAgrees ==
  ASSUME RowInv, NEW r \in Confirms, Accept(r)
  PROVE  Agreement'
<1> USE RowTypes DEF RowInv, storage, request, history
<1>1. PICK u \in pending : /\ upload' = [upload EXCEPT ![r] = u]
                           /\ twice' = IF \E s \in Confirms : upload[s] = u
                                       THEN twice \cup {u} ELSE twice
  BY DEF Accept
<1>2. /\ pc[r] = "new" /\ pc' = [pc EXCEPT ![r] = "accepted"]
      /\ seen' = [seen EXCEPT ![r] = profile.key]
      /\ UNCHANGED <<pending, files, profile, faults, blind>>
  BY DEF Accept, Goes
<1>3. twice \subseteq twice' /\ \A s \in Confirms : upload[s] = u => u \in twice'
  BY <1>1
<1>4. \A k : Spent(k) => Spent(k)'
  BY <1>1, <1>2, <1>3 DEF Spent
<1>5. Shared'
  <2> SUFFICES ASSUME NEW s \in Confirms, NEW t \in Confirms, s # t, upload'[s] = upload'[t]
               PROVE  upload'[s] \in twice' \cup {NoFile}
    BY DEF Shared
  <2>1. CASE s # r /\ t # r
    BY <1>1, <1>3, <2>1 DEF Shared
  <2>2. CASE s = r \/ t = r
    BY <1>1, <1>3, <2>2
  <2>3. QED
    BY <2>1, <2>2
<1>6. Past'
  BY <1>2, <1>4, Zenon DEF Past
<1>7. Copied'
  BY <1>1, <1>2, <1>3 DEF Copied
<1>8. Replaced'
  BY <1>2, <1>3 DEF Replaced
<1>9. Filed'
  BY <1>2, <1>3 DEF Filed
<1>10. Tidy'
  <2>1. \A v : Owned(v) => Owned(v)'
    BY <1>1, <1>2 DEF Owned
  <2>2. QED
    BY <1>2, <2>1 DEF Tidy
<1>11. QED
  BY <1>5, <1>6, <1>7, <1>8, <1>9, <1>10 DEF Agreement

(* A confirmation becomes the CV: the row names its file, and what it      *)
(* named before is this request's to delete.                               *)
LEMMA ReplaceCvAgrees ==
  ASSUME RowInv, NEW r \in Confirms, ReplaceCv(r), CvItSaw(r)
  PROVE  Agreement'
<1> USE RowTypes DEF RowInv, storage, request, history
<1>1. /\ pc[r] = "replacing" /\ pc' = [pc EXCEPT ![r] = "deleting"]
      /\ profile' = NewCv(upload[r]) /\ profile.key = seen[r]
      /\ UNCHANGED <<pending, files, upload, seen, faults, twice, blind>>
  BY DEF ReplaceCv, CvItSaw, Goes
<1>2. profile'.key = upload[r] /\ upload[r] \in Uploads
  BY <1>1 DEF NewCv, EmptyCv, IInv, Named
<1>3. \A k : Spent(k) => Spent(k)'
  BY <1>1 DEF Spent, Unsettled
<1>4. Spent(upload[r])'
  <2>1. upload[r] \notin pending
    BY <1>1 DEF IInv, Fresh
  <2>2. \A s \in Confirms : upload[s] = upload[r] /\ pc'[s] \in Unsettled => upload[r] \in twice
    BY <1>1, <1>2 DEF Shared, Unsettled
  <2>3. QED
    BY <1>1, <2>1, <2>2 DEF Spent
<1>5. Shared' /\ Past'
  BY <1>1, <1>2, <1>3, <1>4 DEF Shared, Past
<1>6. Copied'
  BY <1>1 DEF Copied
<1>7. Filed'
  BY <1>1, <1>2 DEF Filed, Copied
<1>8. Replaced'
  <2> SUFFICES ASSUME NEW s \in Requests, pc'[s] = "deleting", seen[s] \notin twice \cup {NoFile}
               PROVE  seen[s] # upload[r]
    BY <1>1, <1>2 DEF Replaced
  <2>1. CASE s = r
    BY <1>1, <2>1 DEF IInv, Fresh
  <2>2. CASE s # r
    <3>1. seen[s] \in Uploads => Spent(seen[s])
      BY DEF Past
    <3>2. QED
      BY <1>1, <1>2, <3>1 DEF Spent, Unsettled
  <2>3. QED
    BY <2>1, <2>2
<1>9. Tidy'
  <2> SUFFICES ASSUME faults = 0, ~blind, NEW u \in files, upload[r] # u
               PROVE  Owned(u)'
    BY <1>1, <1>2 DEF Tidy
  <2>1. CASE profile.key = u
    <3>1. seen'[r] = u /\ pc'[r] = "deleting"
      BY <1>1, <2>1
    <3>2. QED
      BY <3>1 DEF Owned
  <2>2. CASE Owned(u)
    BY <1>1, <2>2 DEF Owned
  <2>3. QED
    BY <2>1, <2>2 DEF Tidy
<1>10. QED
  BY <1>5, <1>6, <1>7, <1>8, <1>9 DEF Agreement

(* Deleting the CV it read, a request leaves the file of any other alone.  *)
LEMMA DeleteOldAgrees ==
  ASSUME RowInv, NEW r \in Requests, DeleteOld(r)
  PROVE  Agreement'
<1> USE RowTypes DEF RowInv, storage, request, history
<1> DEFINE to == IF r \in Confirms THEN "queueing" ELSE "over"
<1>1. /\ pc[r] = "deleting" /\ pc' = [pc EXCEPT ![r] = to] /\ files' = files \ {seen[r]}
      /\ UNCHANGED <<pending, profile, upload, seen, faults, twice, blind>>
  BY DEF DeleteOld, Goes
<1>2. to \in Places /\ to \notin Unsettled /\ to # "deleting"
  BY DEF Places, Unsettled
<1>3. seen[r] \in Uploads => Spent(seen[r])
  BY DEF Past
<1>4. seen[r] \in twice \cup {NoFile} \/ seen[r] # profile.key
  BY <1>1 DEF Replaced
<1>5. \A k \in files : k \notin files' =>
        k \in twice \/ (k # profile.key /\ \A s \in Confirms : upload[s] = k => s = r
                                                            \/ pc[s] \notin Unsettled)
  BY <1>1, <1>3, <1>4 DEF Spent
<1> HIDE DEF to
<1>6. Shared' /\ Past' /\ Copied' /\ Replaced' /\ Filed'
  BY <1>1, <1>2, <1>5, MovingOnAgrees DEF Unsettled
<1>7. Tidy'
  BY <1>1, <1>2, MovingOnTidies
<1>8. QED
  BY <1>6, <1>7 DEF Agreement

(* The loser of two confirmations takes back its own copy.                 *)
LEMMA UndoCopyAgrees ==
  ASSUME RowInv, NEW r \in Confirms, UndoCopy(r)
  PROVE  Agreement'
<1> USE RowTypes DEF RowInv, storage, request, history
<1>1. /\ pc[r] = "undoing" /\ pc' = [pc EXCEPT ![r] = "over"] /\ files' = files \ {upload[r]}
      /\ UNCHANGED <<pending, profile, upload, seen, faults, twice, blind>>
  BY DEF UndoCopy, Goes
<1>2. "over" \in Places
  BY DEF Places
<1>3. upload[r] = profile.key => upload[r] \in twice \cup {NoFile}
  BY <1>1 DEF Past, Spent, Unsettled, Keys
<1>4. \A k \in files : k \notin files' =>
        k \in twice \/ (k # profile.key /\ \A s \in Confirms : upload[s] = k => s = r
                                                            \/ pc[s] \notin Unsettled)
  BY <1>1, <1>3 DEF Shared
<1>5. Shared' /\ Past' /\ Copied' /\ Replaced' /\ Filed'
  BY <1>1, <1>2, <1>4, MovingOnAgrees DEF Unsettled
<1>6. Tidy'
  BY <1>1, <1>2, MovingOnTidies
<1>7. QED
  BY <1>5, <1>6 DEF Agreement

(* The other steps of a confirmation.                                      *)
LEMMA ConfirmingAgrees ==
  ASSUME RowInv, NEW r \in Confirms, Confirming(r)
  PROVE  Agreement'
<1> USE RowTypes DEF RowInv, storage, request, history, Goes
<1>1. CASE DeleteOld(r)
  BY <1>1, DeleteOldAgrees
<1>2. CASE UndoCopy(r)
  BY <1>2, UndoCopyAgrees
<1>3. CASE ReplaceCv(r) /\ CvItSaw(r)
  BY <1>3, ReplaceCvAgrees
<1>4. CASE CopyFile(r)
  <2>1. /\ pc[r] = "copying" /\ pc' = [pc EXCEPT ![r] = "clearing"]
        /\ files' = files \cup {upload[r]}
        /\ UNCHANGED <<pending, profile, upload, seen, faults, twice, blind>>
    BY <1>4 DEF CopyFile
  <2>2. "clearing" \in Places /\ pc[r] \in Unsettled
    BY <2>1 DEF Places, Unsettled
  <2>3. Shared' /\ Past' /\ Copied' /\ Replaced' /\ Filed'
    BY <2>1, <2>2, MovingOnAgrees
  <2>4. Tidy'
    BY <2>1, <2>2, MovingOnTidies
  <2>5. QED
    BY <2>3, <2>4 DEF Agreement
<1>5. CASE \/ ForgetPending(r) \/ CheckFile(r) \/ FileIsGone(r) \/ ClearQuarantine(r)
           \/ Enqueue(r) \/ (ReplaceCv(r) /\ ~CvItSaw(r))
  <2>1. PICK to \in Places :
          /\ pc' = [pc EXCEPT ![r] = to]
          /\ to \in Unsettled => pc[r] \in Unsettled
          /\ to \in {"clearing", "replacing"} => pc[r] \in {"clearing", "replacing"}
          /\ pc[r] \in {"clearing", "replacing", "undoing"} =>
               to \in {"clearing", "replacing", "undoing"}
          /\ pc[r] # "deleting" /\ to # "deleting"
    BY <1>5 DEF ForgetPending, CheckFile, FileIsGone, ClearQuarantine, Enqueue, ReplaceCv,
                Unsettled, Places
  <2>2. pending' \subseteq pending /\ UNCHANGED <<profile, files, upload, seen, faults, twice, blind>>
    BY <1>5 DEF ForgetPending, CheckFile, FileIsGone, ClearQuarantine, Enqueue, ReplaceCv
  <2>3. Shared' /\ Past' /\ Copied' /\ Replaced' /\ Filed'
    <3>1. to \in {"clearing", "replacing"} => r \in Confirms /\ upload[r] \in files' \cup twice
      BY <2>1, <2>2 DEF Copied
    <3>2. QED
      BY <2>1, <2>2, <3>1, MovingOnAgrees
  <2>4. Tidy'
    BY <2>1, <2>2, MovingOnTidies
  <2>5. QED
    BY <2>3, <2>4 DEF Agreement
<1>6. QED
  BY <1>1, <1>2, <1>3, <1>4, <1>5 DEF Confirming

(* Removing: what the row named was read, unless another had come between. *)
LEMMA RemovingAgrees ==
  ASSUME RowInv, NEW r \in Removes, ReadToRemove(r) \/ RemoveCv(r)
  PROVE  Agreement'
<1> USE RowTypes DEF RowInv, storage, request, history, Goes
<1>1. r \in Requests /\ r \notin Confirms
  OBVIOUS
<1>2. CASE ReadToRemove(r)
  <2>1. /\ pc[r] = "new" /\ pc' = [pc EXCEPT ![r] = IF profile.key = NoFile THEN "over" ELSE "read"]
        /\ seen' = [seen EXCEPT ![r] = profile.key]
        /\ UNCHANGED <<pending, files, profile, upload, faults, twice, blind>>
    BY <1>2 DEF ReadToRemove
  <2>2. \A k : Spent(k) => Spent(k)'
    BY <1>1, <2>1 DEF Spent
  <2>3. Shared' /\ Past'
    BY <1>1, <2>1, <2>2, Zenon DEF Shared, Past
  <2>4. Copied' /\ Replaced' /\ Filed'
    BY <1>1, <2>1 DEF Copied, Replaced, Filed
  <2>5. \A u : Owned(u) => Owned(u)'
    BY <1>1, <2>1 DEF Owned
  <2>6. Tidy'
    BY <2>1, <2>5 DEF Tidy
  <2>7. QED
    BY <2>3, <2>4, <2>6 DEF Agreement
<1>3. CASE RemoveCv(r)
  <2>1. /\ pc[r] = "read" /\ pc' = [pc EXCEPT ![r] = "deleting"] /\ profile' = EmptyCv
        /\ blind' = (blind \/ profile.key \notin {seen[r], NoFile})
        /\ UNCHANGED <<pending, files, upload, seen, faults, twice>>
    BY <1>3, Zenon DEF RemoveCv
  <2>2. profile'.key = NoFile
    BY <2>1 DEF EmptyCv
  <2>3. \A k : Spent(k) => Spent(k)'
    BY <1>1, <2>1 DEF Spent
  <2>4. Shared' /\ Past'
    BY <2>1, <2>2, <2>3 DEF Shared, Past
  <2>5. Copied' /\ Replaced' /\ Filed'
    BY <1>1, <2>1, <2>2 DEF Copied, Replaced, Filed
  <2>6. \A u \in files : Owned(u) \/ (profile.key = u /\ ~blind') => Owned(u)'
    BY <1>1, <2>1 DEF Owned
  <2>7. Tidy'
    BY <2>1, <2>2, <2>6 DEF Tidy
  <2>8. QED
    BY <2>4, <2>5, <2>7 DEF Agreement
<1>4. QED
  BY <1>2, <1>3

(* A request that fails leaves nothing to claim of unreferenced files.     *)
LEMMA FailingAgrees ==
  ASSUME RowInv, NEW r \in Requests, DeleteOldFails(r) \/ RequestFails(r)
  PROVE  Agreement'
<1> USE RowTypes DEF RowInv, storage, request, history, Goes
<1>1. PICK to \in Places : /\ pc' = [pc EXCEPT ![r] = to]
                           /\ to \notin Unsettled /\ to # "deleting"
  BY DEF DeleteOldFails, RequestFails, Places, Unsettled
<1>2. faults' > 0 /\ UNCHANGED <<pending, profile, files, upload, seen, twice, blind>>
  BY DEF DeleteOldFails, RequestFails, Faulty
<1>3. Shared' /\ Past' /\ Copied' /\ Replaced' /\ Filed'
  BY <1>1, <1>2, MovingOnAgrees DEF Unsettled
<1>4. Tidy'
  BY <1>2 DEF Tidy
<1>5. QED
  BY <1>3, <1>4 DEF Agreement

(* In every reachable state each file is where the row and the requests    *)
(* under way believe it to be.                                             *)
THEOREM RowInvariance == Spec => []RowInv
<1>1. Init => RowInv
  <2>1. Init => IInv
    BY InitTyped, CvAssumption
    DEF CvAssumption, Init, IInv, Named, Unread, Blank, Fresh, EmptyCv, Requests
  <2>2. Init => Shared /\ Past /\ Copied /\ Replaced /\ Filed /\ Tidy
    BY CvAssumption
    DEF CvAssumption, Init, Shared, Past, Copied, Replaced, Filed, Tidy, EmptyCv, Requests
  <2>3. QED
    BY <2>1, <2>2 DEF RowInv
<1>2. RowInv /\ [Next]_vars => RowInv'
  <2> SUFFICES ASSUME RowInv, [Next]_vars PROVE RowInv'
    OBVIOUS
  <2>1. IInv'
    BY NextTyped, NextNamed, NextUnread, NextBlank, NextFresh DEF RowInv, IInv
  <2> SUFFICES Agreement'
    BY <2>1 DEF RowInv, Agreement
  <2>2. CASE \E r \in Confirms : Accept(r) \/ Confirming(r)
    BY <2>2, AcceptAgrees, ConfirmingAgrees
  <2>3. CASE \E r \in Removes : ReadToRemove(r) \/ RemoveCv(r) \/ DeleteOld(r)
    BY <2>3, RemovingAgrees, DeleteOldAgrees DEF Requests
  <2>4. CASE \E r \in Requests : DeleteOldFails(r) \/ RequestFails(r)
    BY <2>4, FailingAgrees
  <2>5. CASE \/ \E u \in Uploads : Put(u) \/ PendingExpires(u)
             \/ \E u \in Uploads : Parsing(u) \/ AttemptBreaks(u) \/ JobStalls(u)
             \/ UpdateParsed \/ UNCHANGED vars
    <3> USE RowTypes DEF storage, request, history
    <3>1. pending' \subseteq pending /\ UNCHANGED <<pc, request, files, history>>
      BY <2>5 DEF Put, PendingExpires, Parsing, ReadProfile, ReadFile, WorkerAnswers,
                  AttemptFails, AttemptBreaks, JobStalls, UpdateParsed, vars
    <3>2. faults' = 0 => faults = 0
      BY <2>5 DEF Put, PendingExpires, Parsing, ReadProfile, ReadFile, WorkerAnswers,
                  AttemptFails, AttemptBreaks, JobStalls, UpdateParsed, Faulty, vars
    <3>3. profile'.key = profile.key
      BY <2>5 DEF Put, PendingExpires, Parsing, ReadProfile, ReadFile, WorkerAnswers, Store,
                  AttemptFails, GiveUp, AttemptBreaks, JobStalls, UpdateParsed, Profile, vars
    <3>4. QED
      BY <3>1, <3>2, <3>3, ElsewhereAgrees
  <2>6. QED
    BY <2>2, <2>3, <2>4, <2>5 DEF Next
<1>3. QED
  BY <1>1, <1>2, PTL DEF Spec

(* The CV on the profile has its file, and without failures and blind      *)
(* removals no file outlives both the row and the requests that name it.   *)
THEOREM RowAndFiles == Spec => []RowAndFilesAgree
<1>1. RowInv => RowAndFilesAgree
  <2> SUFFICES ASSUME RowInv PROVE RowAndFilesAgree
    OBVIOUS
  <2>1. \A u : Owned(u) => InHand(u)
    BY RowTypes DEF Owned, InHand
  <2>2. QED
    BY <2>1 DEF RowInv, Filed, Tidy, RowAndFilesAgree
<1>2. QED
  BY <1>1, RowInvariance, PTL
-----------------------------------------------------------------------------
(* A CV in processing is on its way to being read. *)

(* A job is there for it, or a confirmation that has still to queue one.   *)
Due(u) ==
  \/ job[u].state \in {"waiting", "reading", "asking"}
  \/ \E r \in Confirms : upload[r] = u /\ pc[r] \in {"deleting", "queueing"}

(* So it is as long as nothing failed and no upload was confirmed twice.   *)
CvIsBeingRead ==
  faults = 0 /\ twice = {} /\ profile.status = "processing" => Due(profile.key)

(* A job is queued by the last thing a confirmation does: who has still to *)
(* queue one finds none there, which is what Enqueue would leave alone.    *)
Queued ==
  faults = 0 /\ twice = {} =>
    \A u \in Uploads : job[u].state # "none" =>
      u \notin pending /\ \A r \in Confirms : upload[r] = u => pc[r] = "over"

DueInv == CvIsBeingRead /\ Queued

(* A step after which nothing is amiss is one before which nothing was.    *)
LEMMA AmissStays ==
  ASSUME RowInv, [Next]_vars, faults' = 0, twice' = {}
  PROVE  faults = 0 /\ twice = {} /\ UNCHANGED faults
<1> USE RowTypes
<1>1. UNCHANGED faults \/ faults' = faults + 1
  BY DEF Next, Put, PendingExpires, Parsing, ReadProfile, ReadFile, WorkerAnswers, AttemptFails,
     AttemptBreaks, JobStalls, Accept, Confirming, ForgetPending, CheckFile, CopyFile,
     FileIsGone, ClearQuarantine, ReplaceCv, UndoCopy, DeleteOld, Enqueue, ReadToRemove,
     RemoveCv, DeleteOldFails, RequestFails, UpdateParsed, Faulty, vars
<1>2. twice \subseteq twice'
  BY DEF Next, Put, PendingExpires, Parsing, ReadProfile, ReadFile, WorkerAnswers, AttemptFails,
     AttemptBreaks, JobStalls, Accept, Confirming, ForgetPending, CheckFile, CopyFile,
     FileIsGone, ClearQuarantine, ReplaceCv, UndoCopy, DeleteOld, Enqueue, ReadToRemove,
     RemoveCv, DeleteOldFails, RequestFails, UpdateParsed, history, vars
<1>3. QED
  BY <1>1, <1>2

(* Jobs are queued by confirmations alone, and parsing goes on to its end. *)
LEMMA QueuedStep ==
  ASSUME RowInv, Queued, [Next]_vars
  PROVE  Queued'
<1> USE RowTypes
<1> SUFFICES ASSUME faults' = 0, twice' = {}, NEW u \in Uploads, job'[u].state # "none"
             PROVE  u \notin pending' /\ \A r \in Confirms : upload'[r] = u => pc'[r] = "over"
  BY DEF Queued
<1>1. /\ faults = 0 /\ twice = {} /\ UNCHANGED faults /\ job \in [Uploads -> Job]
      /\ job[u].state # "none" =>
           u \notin pending /\ \A r \in Confirms : upload[r] = u => pc[r] = "over"
  BY AmissStays DEF Queued, RowInv, IInv, Typed, TypeOK
<1>2. ASSUME NEW r \in Confirms, Accept(r) PROVE job[u].state # "none" /\ upload'[r] # u
  BY <1>1, <1>2 DEF Accept
<1>3. ASSUME NEW r \in Confirms, Enqueue(r), upload[r] = u
      PROVE  u \notin pending' /\ \A s \in Confirms : upload'[s] = u => pc'[s] = "over"
  <2>1. pc[r] = "queueing" /\ pc' = [pc EXCEPT ![r] = "over"] /\ UNCHANGED <<pending, upload>>
    BY <1>3 DEF Enqueue, Goes, request
  <2>2. u \notin pending
    BY <1>3, <2>1 DEF RowInv, IInv, Fresh
  <2>3. \A s \in Confirms : upload[s] = u => s = r
    BY <1>1, <1>3 DEF RowInv, Shared
  <2>4. QED
    BY <2>1, <2>2, <2>3
<1>4. CASE job[u].state # "none" /\ pending' \subseteq pending /\ UNCHANGED upload
           /\ \A r \in Confirms : pc[r] = "over" => pc'[r] = "over"
  BY <1>1, <1>4
<1>5. CASE \E r \in Confirms : Accept(r)
  <2>1. PICK r \in Confirms : Accept(r)
    BY <1>5
  <2>2. job[u].state # "none" /\ upload'[r] # u
    BY <1>2, <2>1
  <2>3. /\ UNCHANGED pending /\ pc' = [pc EXCEPT ![r] = "accepted"]
        /\ \A s \in Confirms \ {r} : upload'[s] = upload[s] /\ pc'[s] = pc[s]
    BY <2>1 DEF Accept, Goes
  <2>4. QED
    BY <1>1, <2>2, <2>3
<1>6. CASE \E r \in Confirms : Enqueue(r)
  <2>1. PICK r \in Confirms : Enqueue(r)
    BY <1>6
  <2>2. CASE upload[r] = u
    BY <1>3, <2>1, <2>2
  <2>3. CASE upload[r] # u
    <3>1. job'[u] = job[u]
      BY <1>1, <2>1, <2>3 DEF Enqueue
    <3>2. QED
      BY <1>4, <2>1, <3>1 DEF Enqueue, Goes, request
  <2>4. QED
    BY <2>2, <2>3
<1>7. CASE \E v \in Uploads : Parsing(v) \/ AttemptBreaks(v) \/ JobStalls(v)
  <2>1. PICK v \in Uploads : Parsing(v) \/ AttemptBreaks(v) \/ JobStalls(v)
    BY <1>7
  <2>2. UNCHANGED <<pending, pc, upload>>
    BY <2>1 DEF Parsing, ReadProfile, ReadFile, WorkerAnswers, AttemptFails, AttemptBreaks,
       JobStalls, request
  <2>3. job[v].state # "none" /\ (u # v => job'[u] = job[u])
    BY <1>1, <2>1 DEF Parsing, ReadProfile, ReadFile, WorkerAnswers, AttemptFails, AttemptBreaks,
       JobStalls, JobGoes
  <2>4. QED
    BY <1>4, <2>2, <2>3
<1>8. CASE UNCHANGED job
  <2>1. CASE \E r \in Confirms : Accept(r)
    BY <1>5, <2>1
  <2>2. CASE ~(\E r \in Confirms : Accept(r))
    <3>1. pending' \subseteq pending /\ UNCHANGED upload
      BY <1>6, <1>7, <2>2 DEF Next, Put, PendingExpires, Parsing, ReadProfile, ReadFile,
         WorkerAnswers, AttemptFails, AttemptBreaks, JobStalls, Confirming, ForgetPending,
         CheckFile, CopyFile, FileIsGone, ClearQuarantine, ReplaceCv, UndoCopy, DeleteOld,
         Enqueue, ReadToRemove, RemoveCv, DeleteOldFails, RequestFails, UpdateParsed, request,
         vars
    <3>2. \A r \in Confirms : pc[r] = "over" => pc'[r] = "over"
      BY <2>2 DEF Next, Put, PendingExpires, Parsing, ReadProfile, ReadFile,
         WorkerAnswers, AttemptFails, AttemptBreaks, JobStalls, Confirming, ForgetPending,
         CheckFile, CopyFile, FileIsGone, ClearQuarantine, ReplaceCv, UndoCopy, DeleteOld,
         Enqueue, ReadToRemove, RemoveCv, DeleteOldFails, RequestFails, UpdateParsed, Goes, vars
    <3>3. QED
      BY <1>4, <1>8, <3>1, <3>2
  <2>3. QED
    BY <2>1, <2>2
<1>9. QED
  BY <1>5, <1>6, <1>7, <1>8 DEF Next, Put, PendingExpires, Confirming, ForgetPending,
     CheckFile, CopyFile, FileIsGone, ClearQuarantine, ReplaceCv, UndoCopy, DeleteOld,
     ReadToRemove, RemoveCv, DeleteOldFails, RequestFails, UpdateParsed, vars

(* A CV that is being read stays so until there is an answer.              *)
LEMMA DueStep ==
  ASSUME RowInv, DueInv, [Next]_vars
  PROVE  CvIsBeingRead'
<1> USE RowTypes
<1> SUFFICES ASSUME faults' = 0, twice' = {}, profile'.status = "processing"
             PROVE  Due(profile.key)'
  BY DEF CvIsBeingRead
<1> DEFINE k == profile.key
<1>1. /\ faults = 0 /\ twice = {} /\ UNCHANGED faults /\ job \in [Uploads -> Job]
      /\ profile.status = "processing" => k \in Uploads /\ Due(k)
  BY AmissStays DEF DueInv, CvIsBeingRead, RowInv, IInv, Typed, TypeOK, Profile, Keys, Blank
<1>2. ~(\E u \in Uploads : AttemptBreaks(u) \/ JobStalls(u))
      /\ ~(\E r \in Requests : DeleteOldFails(r) \/ RequestFails(r))
  BY <1>1 DEF AttemptBreaks, JobStalls, DeleteOldFails, RequestFails, Faulty
<1>3. ASSUME NEW r \in Confirms, ReplaceCv(r), CvItSaw(r) PROVE Due(profile.key)'
  <2>1. profile' = NewCv(upload[r]) /\ pc'[r] = "deleting" /\ upload' = upload
    BY <1>3 DEF ReplaceCv, Goes, request
  <2>2. profile'.key = upload[r]
    BY <2>1 DEF NewCv, EmptyCv
  <2>3. QED
    BY <2>1, <2>2 DEF Due
<1>4. ASSUME NEW r \in Confirms, Enqueue(r) PROVE Due(profile.key)'
  <2>1. /\ profile' = profile /\ upload' = upload /\ pc' = [pc EXCEPT ![r] = "over"]
        /\ pc[r] = "queueing" /\ upload[r] \in Uploads
    BY <1>4 DEF Enqueue, Goes, request, RowInv, IInv, Named
  <2>2. job[upload[r]].state = "none"
    BY <1>1, <2>1 DEF DueInv, Queued
  <2>3. job' = [job EXCEPT ![upload[r]].state = "waiting"]
    BY <1>4, <2>2 DEF Enqueue
  <2>4. job'[upload[r]].state = "waiting" /\ \A u \in Uploads \ {upload[r]} : job'[u] = job[u]
    BY <1>1, <2>1, <2>3 DEF Job
  <2>5. QED
    BY <1>1, <2>1, <2>4 DEF Due
<1>5. ASSUME NEW u \in Uploads, Parsing(u) PROVE Due(profile.key)'
  <2>1. UNCHANGED <<pc, upload>>
    BY <1>5 DEF Parsing, ReadProfile, ReadFile, WorkerAnswers, AttemptFails, request
  <2>2. profile'.key = k /\ \A v \in Uploads \ {u} : job'[v] = job[v]
    BY <1>1, <1>5 DEF Parsing, ReadProfile, ReadFile, WorkerAnswers, AttemptFails, JobGoes,
       Store, GiveUp, Profile
  <2>3. CASE k # u
    <3>1. profile' = profile
      BY <1>5, <2>3 DEF Parsing, ReadProfile, ReadFile, WorkerAnswers, AttemptFails, Store,
         StillCv, GiveUp
    <3>2. QED
      BY <1>1, <2>1, <2>2, <2>3, <3>1 DEF Due
  <2>4. CASE k = u
    <3>1. CASE ReadProfile(u) \/ ReadFile(u)
      <4>1. profile' = profile
        BY <3>1 DEF ReadProfile, ReadFile
      <4>2. job'[u].state \in {"reading", "asking"}
        BY <1>1, <2>4, <3>1, <4>1 DEF ReadProfile, ReadFile, JobGoes, Job
      <4>3. QED
        BY <2>2, <2>4, <4>2 DEF Due
    <3>2. CASE WorkerAnswers(u)
      BY <2>4, <3>2 DEF WorkerAnswers, Store, StillCv, Profile
    <3>3. CASE AttemptFails(u)
      <4>1. ~LastAttempt(u)
        BY <2>4, <3>3 DEF AttemptFails, GiveUp, StillCv, Profile
      <4>2. job'[u].state = "waiting"
        BY <1>1, <3>3, <4>1 DEF AttemptFails
      <4>3. QED
        BY <2>2, <2>4, <4>2 DEF Due
    <3>4. QED
      BY <1>5, <3>1, <3>2, <3>3 DEF Parsing
  <2>5. QED
    BY <2>3, <2>4
<1>6. ASSUME NEW r \in Requests, DeleteOld(r) PROVE Due(profile.key)'
  <2>1. /\ UNCHANGED <<profile, job, upload>> /\ pc[r] = "deleting"
        /\ pc' = [pc EXCEPT ![r] = IF r \in Confirms THEN "queueing" ELSE "over"]
    BY <1>6 DEF DeleteOld, Goes, request
  <2>2. \A s \in Confirms : pc[s] \in {"deleting", "queueing"} => pc'[s] \in {"deleting", "queueing"}
    BY <2>1
  <2>3. QED
    BY <1>1, <2>1, <2>2 DEF Due
<1>7. ASSUME NEW r \in Confirms, Accept(r) PROVE Due(profile.key)'
  <2>1. UNCHANGED <<profile, job>> /\ pc[r] = "new"
        /\ \A s \in Confirms \ {r} : upload'[s] = upload[s] /\ pc'[s] = pc[s]
    BY <1>7 DEF Accept, Goes
  <2>2. QED
    BY <1>1, <2>1 DEF Due
<1>8. CASE /\ profile'.status = "processing" => profile' = profile
           /\ UNCHANGED <<job, upload>>
           /\ \A s \in Confirms : pc[s] \in {"deleting", "queueing"} => pc'[s] = pc[s]
  BY <1>1, <1>8 DEF Due
<1>9. ASSUME NEW u \in Uploads, Put(u) \/ PendingExpires(u) PROVE Due(profile.key)'
  BY <1>8, <1>9 DEF Put, PendingExpires, request
<1>10. ASSUME NEW r \in Confirms,
              \/ ForgetPending(r) \/ CheckFile(r) \/ CopyFile(r) \/ FileIsGone(r)
              \/ ClearQuarantine(r) \/ UndoCopy(r) \/ (ReplaceCv(r) /\ ~CvItSaw(r))
       PROVE  Due(profile.key)'
  <2>1. UNCHANGED <<profile, job, upload>>
    BY <1>10 DEF ForgetPending, CheckFile, CopyFile, FileIsGone, ClearQuarantine, UndoCopy,
       ReplaceCv, request
  <2>2. pc[r] \notin {"deleting", "queueing"} /\ \A s \in Confirms \ {r} : pc'[s] = pc[s]
    BY <1>10 DEF ForgetPending, CheckFile, CopyFile, FileIsGone, ClearQuarantine, UndoCopy,
       ReplaceCv, Goes
  <2>3. QED
    BY <1>8, <2>1, <2>2
<1>11. ASSUME NEW r \in Removes, ReadToRemove(r) \/ RemoveCv(r) PROVE Due(profile.key)'
  <2>1. UNCHANGED <<job, upload>> /\ (profile' = profile \/ profile' = EmptyCv)
    BY <1>11 DEF ReadToRemove, RemoveCv, request
  <2>2. \A s \in Confirms : pc'[s] = pc[s]
    BY <1>11 DEF ReadToRemove, RemoveCv, Goes
  <2>3. EmptyCv.status # "processing"
    BY DEF EmptyCv
  <2>4. QED
    BY <1>8, <2>1, <2>2, <2>3
<1>12. CASE UpdateParsed
  BY <1>12 DEF UpdateParsed, Profile
<1>13. CASE UNCHANGED vars
  BY <1>8, <1>13 DEF vars, request
<1>14. QED
  BY <1>2, <1>3, <1>4, <1>5, <1>6, <1>7, <1>9, <1>10, <1>11, <1>12, <1>13
     DEF Next, Confirming, Requests

(* The safety half of ReadInTheEnd: however confirmations, removals,       *)
(* corrections and attempts cross, a CV in processing has a job under way, *)
(* or a confirmation about to queue one, unless something failed or an     *)
(* upload was confirmed twice.                                             *)
THEOREM CvIsNotForgotten == Spec => []CvIsBeingRead
<1>1. Init => DueInv
  BY CvAssumption
  DEF Init, DueInv, CvIsBeingRead, Queued, EmptyCv, CvAssumption
<1>2. RowInv /\ DueInv /\ [Next]_vars => DueInv'
  BY QueuedStep, DueStep DEF DueInv
<1>3. DueInv => CvIsBeingRead
  BY DEF DueInv
<1>4. QED
  BY <1>1, <1>2, <1>3, RowInvariance, PTL DEF Spec
=============================================================================
