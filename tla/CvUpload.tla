------------------------------ MODULE CvUpload ------------------------------
(***************************************************************************)
(* One candidate's CV: uploads through quarantine, the requests that       *)
(* confirm one and make it the CV, the request that removes it, the        *)
(* corrections, and the job that has the worker read the file.             *)
(*                                                                         *)
(* An object in storage is named by its upload: cv-uploads/<upload> in     *)
(* `quarantine', cvs/<user>/<upload> in `files'.  A rate limiter that      *)
(* refuses is a confirmation that ends at once.                            *)
(***************************************************************************)
EXTENDS Integers

CONSTANTS
  Uploads,    \* upload ids handed out
  Confirms,   \* POST /profile/cv/uploads/:id/confirm
  Removes,    \* DELETE /profile/cv
  NoFile,     \* cv_file_key is null
  Attempts,   \* job attempts (3 in cv-parse.queue.ts)
  MaxFaults   \* bound: things that go wrong in a behaviour

ASSUME CvAssumption ==
  /\ NoFile \notin Uploads
  /\ Confirms \cap Removes = {}
  /\ Attempts \in Nat \ {0}
  /\ MaxFaults \in Nat

VARIABLES
  pending,     \* uploads Redis remembers
  quarantine,  \* upload -> what the browser has put there
  files,       \* uploads whose checked file is stored
  profile,     \* the CV columns of the profile
  pc,          \* where each request is
  upload,      \* the upload each request confirms
  seen,        \* the cv_file_key each request read
  job,         \* upload -> its parse job (the job id is the upload's)
  faults,      \* how many things have gone wrong
  twice,       \* history: uploads two requests confirmed
  blind        \* history: has a CV been removed that was not the one read?

storage == <<quarantine, files>>
request == <<upload, seen>>
history == <<twice, blind>>
vars    == <<pending, storage, profile, pc, request, job, faults, history>>

Requests == Confirms \cup Removes

Keys == Uploads \cup {NoFile}

(* of: the upload the parsed details were read from; edited: by the        *)
(* candidate since.                                                        *)
Profile == [status : {"none", "processing", "parsed", "unreadable", "failed"},
            key : Keys, of : Keys, edited : BOOLEAN]

EmptyCv == [status |-> "none", key |-> NoFile, of |-> NoFile, edited |-> FALSE]

NewCv(u) == [EmptyCv EXCEPT !.status = "processing", !.key = u]

Job == [state : {"none", "waiting", "reading", "asking", "over"}, made : 0 .. Attempts]

Places == {"new", "accepted", "checking", "copying", "clearing", "replacing", "undoing",
           "deleting", "queueing", "read", "over"}

Init ==
  /\ pending = Uploads
  /\ quarantine = [u \in Uploads |-> "absent"]
  /\ files = {}
  /\ profile = EmptyCv
  /\ pc = [r \in Requests |-> "new"]
  /\ upload = [r \in Requests |-> NoFile]
  /\ seen = [r \in Requests |-> NoFile]
  /\ job = [u \in Uploads |-> [state |-> "none", made |-> 0]]
  /\ faults = 0
  /\ twice = {} /\ blind = FALSE

Faulty == faults < MaxFaults /\ faults' = faults + 1

Goes(r, from, to) == pc[r] = from /\ pc' = [pc EXCEPT ![r] = to]

-----------------------------------------------------------------------------
(* The browser puts a file, which is what was declared or is not, and      *)
(* Redis forgets an upload in time.                                        *)

Put(u) ==
  /\ quarantine[u] = "absent" /\ u \in pending
  /\ \E kind \in {"good", "bad"} : quarantine' = [quarantine EXCEPT ![u] = kind]
  /\ UNCHANGED <<pending, files, profile, pc, request, job, faults, history>>

PendingExpires(u) ==
  /\ u \in pending
  /\ pending' = pending \ {u}
  /\ UNCHANGED <<storage, profile, pc, request, job, faults, history>>

-----------------------------------------------------------------------------
(* confirmUpload.  Any step of it may fail and end the request there.      *)

Accept(r) ==
  /\ Goes(r, "new", "accepted")
  /\ \E u \in pending :
       /\ quarantine[u] # "absent"
       /\ upload' = [upload EXCEPT ![r] = u]
       /\ twice' = IF \E s \in Confirms : upload[s] = u THEN twice \cup {u} ELSE twice
  /\ seen' = [seen EXCEPT ![r] = profile.key]
  /\ UNCHANGED <<pending, storage, profile, job, faults, blind>>

ForgetPending(r) ==
  /\ Goes(r, "accepted", "checking")
  /\ pending' = pending \ {upload[r]}
  /\ UNCHANGED <<storage, profile, request, job, faults, history>>

CheckFile(r) ==
  /\ pc[r] = "checking" /\ quarantine[upload[r]] # "absent"
  /\ IF quarantine[upload[r]] = "good"
     THEN Goes(r, "checking", "copying") /\ UNCHANGED quarantine
     ELSE /\ Goes(r, "checking", "over")
          /\ quarantine' = [quarantine EXCEPT ![upload[r]] = "absent"]
  /\ UNCHANGED <<pending, files, profile, request, job, faults, history>>

CopyFile(r) ==
  /\ Goes(r, "copying", "clearing")
  /\ quarantine[upload[r]] # "absent"
  /\ files' = files \cup {upload[r]}
  /\ UNCHANGED <<pending, quarantine, profile, request, job, faults, history>>

(* Another confirmation of the same upload has moved the file away.        *)
FileIsGone(r) ==
  /\ pc[r] \in {"checking", "copying"} /\ quarantine[upload[r]] = "absent"
  /\ pc' = [pc EXCEPT ![r] = "over"]
  /\ UNCHANGED <<pending, storage, profile, request, job, faults, history>>

ClearQuarantine(r) ==
  /\ Goes(r, "clearing", "replacing")
  /\ quarantine' = [quarantine EXCEPT ![upload[r]] = "absent"]
  /\ UNCHANGED <<pending, files, profile, request, job, faults, history>>

(* Mutant: the CV is replaced whichever it is by now.                      *)
AnyCv(r) == TRUE

CvItSaw(r) == profile.key = seen[r]

ReplaceCv(r) ==
  /\ IF CvItSaw(r)
     THEN Goes(r, "replacing", "deleting") /\ profile' = NewCv(upload[r])
     ELSE Goes(r, "replacing", "undoing") /\ UNCHANGED profile
  /\ UNCHANGED <<pending, storage, request, job, faults, history>>

UndoCopy(r) ==
  /\ Goes(r, "undoing", "over")
  /\ files' = files \ {upload[r]}
  /\ UNCHANGED <<pending, quarantine, profile, request, job, faults, history>>

(* deleteQuietly: of the CV replaced, or removed.                          *)
DeleteOld(r) ==
  /\ Goes(r, "deleting", IF r \in Confirms THEN "queueing" ELSE "over")
  /\ files' = files \ {seen[r]}
  /\ UNCHANGED <<pending, quarantine, profile, request, job, faults, history>>

DeleteOldFails(r) ==
  /\ Goes(r, "deleting", IF r \in Confirms THEN "queueing" ELSE "over")
  /\ seen[r] # NoFile
  /\ Faulty
  /\ UNCHANGED <<pending, storage, profile, request, job, history>>

Enqueue(r) ==
  /\ Goes(r, "queueing", "over")
  /\ job' = IF job[upload[r]].state = "none"
            THEN [job EXCEPT ![upload[r]].state = "waiting"] ELSE job
  /\ UNCHANGED <<pending, storage, profile, request, faults, history>>

(* The process dies, or storage, Redis or the database refuses.            *)
RequestFails(r) ==
  /\ pc[r] \notin {"new", "over"}
  /\ pc' = [pc EXCEPT ![r] = "over"]
  /\ Faulty
  /\ UNCHANGED <<pending, storage, profile, request, job, history>>

-----------------------------------------------------------------------------
(* remove() and updateParsed().                                            *)

ReadToRemove(r) ==
  /\ Goes(r, "new", IF profile.key = NoFile THEN "over" ELSE "read")
  /\ seen' = [seen EXCEPT ![r] = profile.key]
  /\ UNCHANGED <<pending, storage, profile, upload, job, faults, history>>

RemoveCv(r) ==
  /\ Goes(r, "read", "deleting")
  /\ profile' = EmptyCv
  /\ blind' = (blind \/ profile.key \notin {seen[r], NoFile})
  /\ UNCHANGED <<pending, storage, request, job, faults, twice>>

(* Mutant: a CV that is being read can be corrected too.                   *)
HasCv == profile.status # "none"

IsEditable == profile.status \in {"parsed", "unreadable", "failed"}

UpdateParsed ==
  /\ IsEditable
  /\ profile' = [profile EXCEPT !.status = "parsed", !.edited = TRUE]
  /\ UNCHANGED <<pending, storage, pc, request, job, faults, history>>

-----------------------------------------------------------------------------
(* CvParseProcessor.process.                                               *)

JobGoes(u, from, to) == job[u].state = from /\ job' = [job EXCEPT ![u].state = to]

ReadProfile(u) ==
  /\ JobGoes(u, "waiting",
             IF profile.key = u /\ profile.status = "processing" THEN "reading" ELSE "over")
  /\ UNCHANGED <<pending, storage, profile, pc, request, faults, history>>

ReadFile(u) ==
  /\ u \in files
  /\ JobGoes(u, "reading", "asking")
  /\ UNCHANGED <<pending, storage, profile, pc, request, faults, history>>

(* Mutant: the result is stored whatever CV there is by now.               *)
WhateverCv(u) == TRUE

StillCv(u) == profile.key = u

Store(u, status, of) ==
  profile' = IF StillCv(u)
             THEN [profile EXCEPT !.status = status, !.of = of, !.edited = FALSE]
             ELSE profile

(* An unreadable CV has nothing parsed.                                    *)
WorkerAnswers(u) ==
  /\ JobGoes(u, "asking", "over")
  /\ Store(u, "parsed", u) \/ Store(u, "unreadable", NoFile)
  /\ UNCHANGED <<pending, storage, pc, request, faults, history>>

(* Mutant: the last attempt leaves the CV as it is.                        *)
LeaveIt(u) == UNCHANGED profile

GiveUp(u) ==
  profile' = IF StillCv(u) THEN [profile EXCEPT !.status = "failed"] ELSE profile

LastAttempt(u) == job[u].made + 1 >= Attempts

(* The file cannot be read, or the worker not reached.                     *)
AttemptFails(u) ==
  /\ job[u].state \in IF u \in files THEN {"asking"} ELSE {"asking", "reading"}
  /\ IF LastAttempt(u)
     THEN GiveUp(u) /\ job' = [job EXCEPT ![u].state = "over"]
     ELSE UNCHANGED profile /\ job' = [job EXCEPT ![u] = [state |-> "waiting", made |-> @.made + 1]]
  /\ UNCHANGED <<pending, storage, pc, request, faults, history>>

(* The database refuses, also the write that would have given up.          *)
AttemptBreaks(u) ==
  /\ job[u].state \in {"waiting", "reading", "asking"}
  /\ job' = [job EXCEPT ![u] = IF LastAttempt(u) THEN [@ EXCEPT !.state = "over"]
                               ELSE [state |-> "waiting", made |-> @.made + 1]]
  /\ Faulty
  /\ UNCHANGED <<pending, storage, profile, pc, request, history>>

(* The process dies inside an attempt, and BullMQ hands the job out again. *)
JobStalls(u) ==
  /\ job[u].state \in {"reading", "asking"}
  /\ job' = [job EXCEPT ![u].state = "waiting"]
  /\ Faulty
  /\ UNCHANGED <<pending, storage, profile, pc, request, history>>

Confirming(r) ==
  \/ ForgetPending(r) \/ CheckFile(r) \/ CopyFile(r) \/ FileIsGone(r)
  \/ ClearQuarantine(r) \/ ReplaceCv(r) \/ UndoCopy(r) \/ DeleteOld(r) \/ Enqueue(r)

Parsing(u) == ReadProfile(u) \/ ReadFile(u) \/ WorkerAnswers(u) \/ AttemptFails(u)

Next ==
  \/ \E u \in Uploads : Put(u) \/ PendingExpires(u)
  \/ \E u \in Uploads : Parsing(u) \/ AttemptBreaks(u) \/ JobStalls(u)
  \/ \E r \in Confirms : Accept(r) \/ Confirming(r)
  \/ \E r \in Removes : ReadToRemove(r) \/ RemoveCv(r) \/ DeleteOld(r)
  \/ \E r \in Requests : DeleteOldFails(r) \/ RequestFails(r)
  \/ UpdateParsed

(* A request that is being served goes on; BullMQ hands out what waits.    *)
Fairness ==
  /\ \A r \in Confirms : WF_vars(Confirming(r))
  /\ \A u \in Uploads : WF_vars(Parsing(u))

Spec == Init /\ [][Next]_vars /\ Fairness

-----------------------------------------------------------------------------
(* Properties.                                                             *)

TypeOK ==
  /\ pending \subseteq Uploads
  /\ quarantine \in [Uploads -> {"absent", "good", "bad"}]
  /\ files \subseteq Uploads
  /\ profile \in Profile
  /\ pc \in [Requests -> Places]
  /\ upload \in [Requests -> Keys] /\ seen \in [Requests -> Keys]
  /\ job \in [Uploads -> Job]
  /\ faults \in 0 .. MaxFaults
  /\ twice \subseteq Uploads /\ blind \in BOOLEAN

InHand(u) ==
  \E r \in Requests : pc[r] # "over" /\ u \in {upload[r], seen[r]}

(* The row and the storage, which no transaction spans, agree: the CV on   *)
(* the profile has its file, unless one upload was confirmed by two        *)
(* requests at once (the loser then deletes the winner's file), and no     *)
(* unreferenced file is left behind (confirmUpload), as long as nothing    *)
(* fails and no CV is removed that was not the one read.                   *)
RowAndFilesAgree ==
  /\ profile.key \in files \cup {NoFile} \cup twice
  /\ faults = 0 /\ ~blind => \A u \in files : profile.key = u \/ InHand(u)

(* What was parsed is of the CV there is: a job that ends late, after its  *)
(* file was replaced or removed, is a no-op (ADR-0010).                    *)
ParsedIsOfTheCv == profile.of \in {profile.key, NoFile}

(* The candidate's corrections are not lost to the worker's answer: they   *)
(* go only when the CV does.                                               *)
CorrectionsStay == [][profile.edited /\ profile'.key = profile.key => profile'.edited]_vars

(* A CV is not left being read for ever, unless something failed, or an    *)
(* upload confirmed twice was queued once.                                 *)
ReadInTheEnd ==
  profile.status = "processing" ~> profile.status # "processing" \/ faults > 0 \/ twice # {}
=============================================================================
