--------------------------- MODULE InterviewScreen ---------------------------
(***************************************************************************)
(* The interview as a candidate sees it: browser tabs that render what is  *)
(* stored, send one action at a time and draw the turns that come back as  *)
(* frames of a stream, while connections break, pages are left and opened  *)
(* again, a second tab may be open on the same interview, and the session  *)
(* is abandoned under them or grows too old to be resumed.                 *)
(*                                                                         *)
(* An exchange is one step of InterviewSession, under a lock: what several *)
(* requests, timeouts and crashes do to the lock is SessionExchange's      *)
(* subject.  Here it goes on whether or not anybody still listens.  (One   *)
(* module of proofs is about both, which is why the names of the           *)
(* specification's parts begin with Screen here.)                          *)
(***************************************************************************)
EXTENDS Integers, Sequences

CONSTANTS Tabs,
          NoTab,       \* no tab
          MaxTurns     \* bound: no exchange of a session with this many turns

ASSUME ScreenAssumption == NoTab \notin Tabs /\ MaxTurns \in Nat \ {0}

VARIABLES
  session,    \* what is stored: the stage and how many turns there are
  cold,       \* has resumeGraceMinutes passed since ends_at?
  exchange,   \* the exchange holding the lock, if there is one
  tab,        \* each tab
  behind      \* history: the tabs that missed something since they caught up

screenVars == <<session, cold, exchange, tab, behind>>

Interview == INSTANCE InterviewSession WITH point <- session

-----------------------------------------------------------------------------
(* "thinking", "question", "error" and "done" change nothing kept here.    *)
Frame == [type : {"turn"}, seq : 0 .. MaxTurns + 1]
    \cup [type : {"state"}, stage : Interview!Stages]

(* by is whoever reads its stream; found, the stage live() found.          *)
Exchange == [on : BOOLEAN, by : Tabs \cup {NoTab}, action : Interview!Actions,
             found : Interview!Stages]

NoExchange == [on |-> FALSE, by |-> NoTab, action |-> "start", found |-> "intro"]

(* call: none, a POST on its way, or its stream; finished: has it said that*)
(* the session is over; wait: what follows interview_busy ("failed": the   *)
(* look that followed threw); read: what the session was found to be then. *)
(* The composer is busy for as long as there is a call.                    *)
Tab == [page : {"away", "screen", "complete"}, shown : SUBSET (0 .. MaxTurns + 1),
        live : Interview!Stages, call : {"none", "posted", "stream"},
        action : Interview!Actions, stream : Seq(Frame), closed : BOOLEAN,
        finished : BOOLEAN, thinking : BOOLEAN,
        wait : {"none", "due", "read", "failed"}, read : Interview!Point]

Away == [page |-> "away", shown |-> {}, live |-> "intro", call |-> "none",
         action |-> "start", stream |-> <<>>, closed |-> FALSE, finished |-> FALSE,
         thinking |-> FALSE, wait |-> "none", read |-> Interview!Beginning]

ScreenInit ==
  /\ Interview!Init
  /\ cold = FALSE
  /\ exchange = NoExchange
  /\ tab = [t \in Tabs |-> Away]
  /\ behind = {}

OnScreen(t) == tab[t].page = "screen"
Turns(point) == 0 .. point.next - 1

(* Nobody reads on.                                                        *)
Unheard(t) == IF exchange.by = t THEN [exchange EXCEPT !.by = NoTab] ELSE exchange

(* abort.current is what keeps a tab to one exchange; its stream is new.   *)
Posted(s, action) ==
  [s EXCEPT !.call = "posted", !.action = action, !.stream = <<>>, !.closed = FALSE,
            !.finished = FALSE, !.thinking = TRUE]

(* The call is over, whatever became of it.                                *)
Settled(s) ==
  [s EXCEPT !.call = "none", !.action = "start", !.stream = <<>>, !.closed = FALSE,
            !.finished = FALSE, !.thinking = FALSE,
            !.wait = IF s.wait = "failed" THEN "none" ELSE s.wait]

Completed == [Away EXCEPT !.page = "complete"]

(* The end of run(): on to the summary, if the stream said it was over.    *)
AfterCall(s) == IF s.finished THEN Completed ELSE Settled(s)

-----------------------------------------------------------------------------
(* A session nobody has started is started by being looked at.             *)
FirstAct(page) == IF session.next = 0 THEN Posted(page, "start") ELSE page

(* The page: rendered from what is stored, unless the session is over.     *)
Open(t) ==
  /\ ~OnScreen(t)
  /\ LET page == [Away EXCEPT !.page = "screen", !.shown = Turns(session),
                              !.live = session.stage]
     IN  tab' = [tab EXCEPT ![t] =
                   IF session.stage = "ended" THEN Completed ELSE FirstAct(page)]
  /\ behind' = behind \ {t}
  /\ UNCHANGED <<session, cold, exchange>>

(* Leaving, or reloading, aborts the call.                                 *)
Leave(t) ==
  /\ OnScreen(t)
  /\ tab' = [tab EXCEPT ![t] = Away]
  /\ exchange' = Unheard(t)
  /\ behind' = behind \ {t}
  /\ UNCHANGED <<session, cold>>

(* The composer is there while the session is believed open, and enabled   *)
(* while no call is out.                                                   *)
CanSend(t) == OnScreen(t) /\ tab[t].live = "open" /\ tab[t].call = "none"

Send(t, action) ==
  /\ CanSend(t)
  /\ action \in {"answer", "skip", "end"}
  /\ tab' = [tab EXCEPT ![t] = Posted(@, action)]
  /\ UNCHANGED <<session, cold, exchange, behind>>

-----------------------------------------------------------------------------
(* The API.                                                                *)

(* live(): interview_ended, or interview_expired.                          *)
TooLate == session.stage = "ended" \/ cold

(* Of two looks at once only one is followed.                              *)
WillLook(s) ==
  [s EXCEPT !.wait = IF s.wait = "none" THEN "due" ELSE s.wait, !.thinking = TRUE]

(* Refusals come before the stream: a session that cannot go on moves the  *)
(* page to the summary, which reads it again; one that is being advanced   *)
(* makes the tab look again in a while.                                    *)
Arrive(t) ==
  /\ tab[t].call = "posted"
  /\ \/ /\ TooLate
        /\ tab' = [tab EXCEPT ![t] = Completed]
        /\ behind' = behind \ {t}
        /\ UNCHANGED exchange
     \/ /\ ~TooLate /\ exchange.on
        /\ tab' = [tab EXCEPT ![t] = WillLook(Settled(@))]
        /\ UNCHANGED <<exchange, behind>>
     \/ /\ ~TooLate /\ ~exchange.on
        /\ exchange' = [on |-> TRUE, by |-> t, action |-> tab[t].action,
                        found |-> session.stage]
        /\ tab' = [tab EXCEPT ![t].call = "stream", ![t].action = "start"]
        /\ UNCHANGED behind
  /\ UNCHANGED <<session, cold>>

TurnFrame(seq) == [type |-> "turn", seq |-> seq]

(* Mutant: the candidate's own words are not sent back.                    *)
RepliesOnly(from, to) ==
  <<TurnFrame(to.next - 1), [type |-> "state", stage |-> to.stage]>>

(* framesFor: every turn of the exchange, then where the session stands.   *)
FramesFor(from, to) ==
  [i \in 1 .. to.next - from.next |-> TurnFrame(from.next + i - 1)]
    \o <<[type |-> "state", stage |-> to.stage]>>

(* Mutant: a failed exchange leaves its stream open.                       *)
AnswersOnlySuccess(frames) ==
  [t \in Tabs |-> IF t = exchange.by
                  THEN [tab[t] EXCEPT !.stream = frames, !.closed = frames # <<>>]
                  ELSE tab[t]]

(* The stream has all its frames and is closed, for whoever reads it.      *)
Answers(frames) ==
  [t \in Tabs |-> IF t = exchange.by
                  THEN [tab[t] EXCEPT !.stream = frames, !.closed = TRUE]
                  ELSE tab[t]]

(* The transaction commits, the lock goes, the stream ends.  What it writes*)
(* is of the row as it was found: an abandonment since is written over.    *)
Store ==
  /\ exchange.on
  /\ session.next < MaxTurns
  /\ Interview!Takes(exchange.found, exchange.action)
  /\ session' \in Interview!Outcomes(session, exchange.action)
  /\ tab' = Answers(FramesFor(session, session'))
  /\ exchange' = NoExchange
  /\ behind' = behind \cup {t \in Tabs : tab[t].page # "away" /\ t # exchange.by}
  /\ UNCHANGED cold

(* The worker was not to be had, refused, or the write failed: the stream  *)
(* ends, with an error frame or without.                                   *)
Fail ==
  /\ exchange.on
  /\ tab' = Answers(<<>>)
  /\ exchange' = NoExchange
  /\ UNCHANGED <<session, cold, behind>>

(* create() of another interview, or the stale sweep: the row is ended with*)
(* no exchange, and no page is told.                                       *)
Abandon ==
  /\ session.stage # "ended"
  /\ session' = [session EXCEPT !.stage = "ended"]
  /\ behind' = behind \cup {t \in Tabs : OnScreen(t)}
  /\ UNCHANGED <<cold, exchange, tab>>

(* The resume grace passes (of a session that is over it tells nobody).    *)
GrowCold ==
  /\ ~TooLate
  /\ cold' = TRUE
  /\ UNCHANGED <<session, exchange, tab, behind>>

-----------------------------------------------------------------------------
(* The stream, as the tab reads it.                                        *)

Drawn(s, frame) ==
  CASE frame.type = "turn" ->
         [s EXCEPT !.shown = @ \cup {frame.seq}, !.thinking = FALSE]
    [] frame.type = "state" ->
         [s EXCEPT !.live = frame.stage, !.finished = frame.stage = "ended"]

ReadFrame(t) ==
  /\ tab[t].call = "stream" /\ tab[t].stream # <<>>
  /\ LET s == tab[t]
     IN  tab' = [tab EXCEPT ![t] = [Drawn(s, Head(s.stream)) EXCEPT !.stream = Tail(s.stream)]]
  /\ UNCHANGED <<session, cold, exchange, behind>>

StreamEnds(t) ==
  /\ tab[t].call = "stream" /\ tab[t].stream = <<>> /\ tab[t].closed
  /\ tab' = [tab EXCEPT ![t] = AfterCall(@)]
  /\ behind' = IF tab[t].finished THEN behind \ {t} ELSE behind
  /\ UNCHANGED <<session, cold, exchange>>

(* The connection is lost, before the request arrived or after, or the API *)
(* fails before it opens the stream.                                       *)
Break(t) ==
  /\ tab[t].call # "none"
  /\ tab' = [tab EXCEPT ![t] = AfterCall(@)]
  /\ exchange' = Unheard(t)
  /\ behind' = IF tab[t].finished THEN behind \ {t}
               ELSE IF tab[t].stream = <<>> THEN behind ELSE behind \cup {t}
  /\ UNCHANGED <<session, cold>>

(* resync, once, BUSY_RESYNC_MS after interview_busy.                      *)
Found(t) ==
  /\ tab[t].wait = "due"
  /\ tab' = [tab EXCEPT ![t].wait = "read", ![t].read = session]
  /\ UNCHANGED <<session, cold, exchange, behind>>

NoMoreWait(s) ==
  [s EXCEPT !.wait = "none", !.read = Interview!Beginning, !.thinking = FALSE]

Adopted(s) == [s EXCEPT !.shown = Turns(s.read), !.live = s.read.stage]

Adopt(t) ==
  /\ tab[t].wait = "read"
  /\ tab' = [tab EXCEPT ![t] = IF @.read.stage = "ended" THEN Completed
                               ELSE NoMoreWait(Adopted(@))]
  /\ exchange' = IF tab[t].read.stage = "ended" THEN Unheard(t) ELSE exchange
  /\ behind' = IF tab[t].read = session THEN behind \ {t} ELSE behind \cup {t}
  /\ UNCHANGED <<session, cold>>

(* An answer with no data in it ends the wait; a fetch that throws leaves  *)
(* run() before setThinking(false), and the flag as it is.                 *)
FetchFails(t) ==
  /\ tab[t].wait = "due"
  /\ \/ tab' = [tab EXCEPT ![t] = NoMoreWait(@)]
     \/ tab' = [tab EXCEPT ![t].wait = IF tab[t].thinking THEN "failed" ELSE "none"]
  /\ UNCHANGED <<session, cold, exchange, behind>>

Reads(t) == ReadFrame(t) \/ StreamEnds(t)
GoesOn(t) == Arrive(t) \/ Reads(t)
LooksAgain(t) == Found(t) \/ Adopt(t) \/ FetchFails(t)

ScreenNext ==
  \/ \E t \in Tabs :
       \/ Open(t) \/ Leave(t) \/ GoesOn(t) \/ Break(t) \/ LooksAgain(t)
       \/ \E action \in Interview!Actions : Send(t, action)
  \/ Store \/ Fail \/ Abandon \/ GrowCold

(* A request arrives or its connection breaks, an exchange ends by the     *)
(* worker's timeout at the latest, and a page that stays open reads what   *)
(* has come, runs its timers and sees its fetches answered or fail.        *)
(* Nobody is bound to say anything.                                        *)
ScreenFairness ==
  /\ WF_screenVars(Store \/ Fail)
  /\ \A t \in Tabs : WF_screenVars(GoesOn(t)) /\ WF_screenVars(LooksAgain(t))

ScreenSpec == ScreenInit /\ [][ScreenNext]_screenVars /\ ScreenFairness

-----------------------------------------------------------------------------
ScreenTypeOK ==
  /\ session \in Interview!Point /\ session.next \in 0 .. MaxTurns + 1
  /\ cold \in BOOLEAN
  /\ exchange \in Exchange
  /\ tab \in [Tabs -> Tab]
  /\ behind \subseteq Tabs

(* What is on screen has been stored.  Let a tab miss something when a     *)
(* frame of its own is lost, or another's exchange or an abandonment passes*)
(* it by, and catch up when it reads the session: then one that has missed *)
(* nothing, and has no call out, shows all that has been said and where the*)
(* session stands, and is on the summary only of a session that is over or *)
(* too old to resume.                                                      *)
ScreenKeepsUp ==
  \A t \in Tabs :
    /\ tab[t].shown \subseteq Turns(session)
    /\ t \notin behind =>
         /\ OnScreen(t) /\ tab[t].call = "none" =>
              tab[t].shown = Turns(session) /\ tab[t].live = session.stage
         /\ tab[t].page = "complete" => TooLate

(* No tab says "Sending" or "thinking" for ever (run's "the flags come down*)
(* whatever happened"): every call comes to an end and gives the composer  *)
(* back, whatever breaks and whoever else is at the interview, and the     *)
(* interviewer stops thinking, unless the look after interview_busy threw. *)
NobodyIsKeptWaiting ==
  \A t \in Tabs :
    /\ []<>(tab[t].call = "none")
    /\ []<>(~tab[t].thinking \/ tab[t].wait = "failed")

(* interview-stream.ts: "every failure here means `the same action may     *)
(* simply be sent again'".  An answer or a skip goes to a turn that was on *)
(* the screen it was sent from.                                            *)
AnswersAreToWhatWasSeen ==
  [][\A t \in Tabs : Arrive(t) /\ exchange'.by = t /\ exchange'.action \in {"answer", "skip"} =>
       session.next - 1 \in tab[t].shown]_screenVars
=============================================================================
