----------------------------- MODULE LoginFlow -----------------------------
(***************************************************************************)
(* One login from POST /api/login to its outcome:                          *)
(*   - the background task of backend/orchestrator.py (execute_login),     *)
(*   - the session it drives in backend/session_manager.py, with the       *)
(*     hand-over of the MFA code and the TTL that prunes it,               *)
(*   - the SSE streams of backend/main.py (status_stream) that follow it,  *)
(*   - what backend/result_store.py keeps of it across a restart.          *)
(*                                                                         *)
(* Everything between two awaits of one coroutine is one step.  Documents  *)
(* are counted; times are reduced to the two ages at which the TTL bites.  *)
(* The portal, the browser and the disk may fail at every await that       *)
(* touches them.  Slots are in Portal.tla, repairs in Repair.tla: here     *)
(* capture_and_kick only answers.                                          *)
(***************************************************************************)
EXTENDS Naturals, Sequences, FiniteSets

CONSTANTS Sids,      \* session ids
          Clients,   \* SSE connections, one at a time each
          Codes,     \* MFA codes a user may type
          NoCode,
          MaxDocs,   \* bound: documents a portal returns
          MaxEmits,  \* bound: progress reports per session
          MaxCrashes \* bound: restarts of the process

ASSUME LoginConstants ==
  /\ Sids # {} /\ NoCode \notin Codes
  /\ MaxDocs \in Nat \ {0} /\ MaxEmits \in Nat /\ MaxCrashes \in Nat

VARIABLES sessions,  \* sid -> session                        (_sessions)
          task,      \* sid -> its execute_login coroutine
          result,    \* sid -> what is on disk of its result
          old,       \* sessions created more than a TTL ago
          streams,   \* client -> its SSE connection
          accepted,  \* sid -> codes answered with 202 (history)
          crashes

vars == <<sessions, task, result, old, streams, accepted, crashes>>

States == {"IDLE", "LOGGING_IN", "MFA_REQUIRED", "AUTHENTICATING",
           "FETCHING_DOCS", "DONE", "ERROR"}
Final == {"DONE", "ERROR"}

Session == [state : States, docs : 0..MaxDocs, mfaEvent : BOOLEAN,
            code : Codes \cup {NoCode}, kicked : BOOLEAN]

Event == [kind : {"none", "state_change", "docs_ready", "error"},
          state : States, docs : 0..MaxDocs]

NoEvent == [kind |-> "none", state |-> "IDLE", docs |-> 0]

PCs == {"none", "start", "quickCtx", "quickPage", "direct", "directSave",
        "check", "quickFetch", "quickSave", "quickExit", "fullCtx", "login",
        "mfa", "submit", "auth", "fetch", "save", "teardown", "unwind",
        "kick", "end", "cancelled"}

\* usaa: direct fetch, login_context and progress reports
Task == [pc : PCs, usaa : BOOLEAN, timedOut : BOOLEAN, got : Codes \cup {NoCode},
         emits : 0..MaxEmits]

Stream == [at : {"off", "open", "sent", "ended", "refused"},
           sid : Sids, queue : Seq(Event), seen : Event]

Result == [at : {"none", "fresh", "old", "pruned"}, docs : 0..MaxDocs]

Present(s) == s \in DOMAIN sessions
Connected(r) == streams[r].at \in {"open", "sent"}
----------------------------------------------------------------------------
(* session_manager: a change of session s and the event it publishes       *)

SetSession(s, x) == sessions' = [sessions EXCEPT ![s] = x]

Snapshot(x, kind) == [kind |-> kind, state |-> x.state, docs |-> x.docs]

Publish(s, x, kind) ==
  streams' = [r \in Clients |->
    IF Connected(r) /\ streams[r].sid = s
    THEN [streams[r] EXCEPT !.queue = Append(@, Snapshot(x, kind))]
    ELSE streams[r]]

Change(s, x, kind) == SetSession(s, x) /\ Publish(s, x, kind)

\* mutant: a transition nobody is told about
SilentTransition(s, st) ==
  SetSession(s, [sessions[s] EXCEPT !.state = st]) /\ UNCHANGED streams

Transition(s, st) ==
  Change(s, [sessions[s] EXCEPT !.state = st], "state_change")

Quiet == UNCHANGED <<sessions, streams>>

GoTo(s, pc) == task' = [task EXCEPT ![s].pc = pc]

\* the coroutine of s continues from its await at pc
At(s, pc) ==
  /\ task[s].pc = pc
  /\ UNCHANGED <<old, accepted, crashes>>

\* mutant: set_error forgets to publish
SilentError(s) ==
  /\ SetSession(s, [sessions[s] EXCEPT !.state = "ERROR"])
  /\ GoTo(s, "kick")
  /\ UNCHANGED <<streams, result>>

\* manager.set_error, then the await of capture_and_kick
SetError(s) ==
  /\ Change(s, [sessions[s] EXCEPT !.state = "ERROR"], "error")
  /\ GoTo(s, "kick")
  /\ UNCHANGED result

\* an exception leaves the browser contexts first: their exits are awaited
Raise(s) == GoTo(s, "unwind") /\ Quiet /\ UNCHANGED result
----------------------------------------------------------------------------
(* orchestrator: the task, await by await                                  *)

\* _run_full_login up to its first await
EnterFullLogin(s) ==
  /\ UNCHANGED result
  /\ IF task[s].usaa
     THEN Transition(s, "LOGGING_IN") /\ GoTo(s, "login")
     ELSE Quiet /\ GoTo(s, "fullCtx")

Start(s) ==
  /\ At(s, "start")
  /\ \/ GoTo(s, "quickCtx") /\ Quiet /\ UNCHANGED result
     \/ EnterFullLogin(s)
     \/ SetError(s)

QuickCtx(s) ==
  /\ At(s, "quickCtx")
  /\ \/ /\ Transition(s, "FETCHING_DOCS")
        /\ GoTo(s, "quickPage")
        /\ UNCHANGED result
     \/ SetError(s)

QuickPage(s) ==
  /\ At(s, "quickPage")
  /\ \/ /\ GoTo(s, IF task[s].usaa THEN "direct" ELSE "check")
        /\ Quiet /\ UNCHANGED result
     \/ Raise(s)

\* where a fetch that returned documents goes, and where a failed one goes
AfterFetch == [direct |-> "directSave", quickFetch |-> "quickSave", fetch |-> "save"]
FetchFailed == [direct |-> "check", quickFetch |-> "quickExit", fetch |-> "unwind"]
SaveFailed == [directSave |-> "check", quickSave |-> "quickExit", save |-> "unwind"]

\* publish_docs_progress compares the numbers of documents, not the documents:
\* a second attempt that finds as many others replaces the list
Dropped(s, n) == sessions[s].state \in Final \/ n < sessions[s].docs

Progress(s) ==
  /\ task[s].pc \in {"direct", "quickFetch", "fetch"}
  /\ At(s, task[s].pc)
  /\ task[s].usaa
  /\ task[s].emits < MaxEmits
  /\ task' = [task EXCEPT ![s].emits = @ + 1]
  /\ \E n \in 1..MaxDocs :
       IF Dropped(s, n)
       THEN Quiet
       ELSE Change(s, [sessions[s] EXCEPT !.docs = n], "docs_ready")
  /\ UNCHANGED result

\* mutant: an empty answer is a success
FetchedAnything(n) == n >= 0

\* _require_documents: an empty answer of the portal is a failure
Fetched(n) == n > 0

\* the portal answers with n documents, none included, or the fetch raises
Fetch(s) ==
  /\ task[s].pc \in DOMAIN AfterFetch
  /\ At(s, task[s].pc)
  /\ \/ \E n \in 0..MaxDocs :
           Fetched(n) /\ task' = [task EXCEPT ![s].pc = AfterFetch[@]]
     \/ task' = [task EXCEPT ![s].pc = FetchFailed[@]]
  /\ Quiet /\ UNCHANGED result

\* mutant: the metadata lists what progress had shown, not the final list
SavedProgress(s, n) ==
  [result EXCEPT ![s] = [at |-> "fresh", docs |-> sessions[s].docs]]

\* result_store.save_done
SavedDone(s, n) == [result EXCEPT ![s] = [at |-> "fresh", docs |-> n]]

\* storage.save and set_docs, which persists between the new state and the
\* event: a save that raises, before or after the metadata is written,
\* leaves DONE behind, unannounced
Save(s) ==
  /\ task[s].pc \in DOMAIN SaveFailed
  /\ At(s, task[s].pc)
  /\ \/ \E n \in 0..MaxDocs :
          LET x == [sessions[s] EXCEPT !.state = "DONE", !.docs = n]
          IN  /\ Fetched(n)
              /\ \/ /\ Change(s, x, "docs_ready")
                    /\ result' = SavedDone(s, n)
                    /\ GoTo(s, "teardown")
                 \/ /\ SetSession(s, x)
                    /\ result' \in {result, SavedDone(s, n)}
                    /\ task' = [task EXCEPT ![s].pc = SaveFailed[@]]
                    /\ UNCHANGED streams
     \/ /\ task' = [task EXCEPT ![s].pc = SaveFailed[@]]
        /\ Quiet /\ UNCHANGED result

Check(s) ==
  /\ At(s, "check")
  /\ \/ GoTo(s, "quickFetch")
     \/ GoTo(s, "quickExit")
  /\ Quiet /\ UNCHANGED result

\* the quick path returned False; closing its page or context may raise
QuickExit(s) ==
  /\ At(s, "quickExit")
  /\ EnterFullLogin(s) \/ SetError(s)

FullCtx(s) ==
  /\ At(s, "fullCtx")
  /\ \/ Transition(s, "LOGGING_IN") /\ GoTo(s, "login") /\ UNCHANGED result
     \/ SetError(s)

\* login and mfa_required returned: request_mfa, or straight to the fetch
Login(s) ==
  /\ At(s, "login")
  /\ \/ Transition(s, "MFA_REQUIRED") /\ GoTo(s, "mfa") /\ UNCHANGED result
     \/ GoTo(s, "auth") /\ Quiet /\ UNCHANGED result
     \/ Raise(s)

\* mutant: request_mfa waits without a timeout
NoMfaTimer(s) == At(s, "mfa") /\ FALSE

\* wait_for's timer may fire until the waiter has resumed, even after set()
MfaTimer(s) ==
  /\ At(s, "mfa")
  /\ ~task[s].timedOut
  /\ task' = [task EXCEPT ![s].timedOut = TRUE]
  /\ Quiet /\ UNCHANGED result

MfaResume(s) ==
  /\ At(s, "mfa")
  /\ \/ task[s].timedOut /\ Raise(s)
     \/ /\ ~task[s].timedOut
        /\ sessions[s].mfaEvent
        /\ task' = [task EXCEPT ![s].pc = "submit", ![s].got = sessions[s].code]
        /\ SetSession(s, [sessions[s] EXCEPT !.mfaEvent = FALSE, !.code = NoCode])
        /\ UNCHANGED <<streams, result>>

SubmitToPortal(s) ==
  /\ At(s, "submit")
  /\ \/ GoTo(s, "auth") /\ Quiet /\ UNCHANGED result
     \/ Raise(s)

\* _save_auth_state swallows its errors
SaveAuth(s) ==
  /\ At(s, "auth")
  /\ Transition(s, "FETCHING_DOCS") /\ GoTo(s, "fetch") /\ UNCHANGED result

\* the documents are out; page and context are still to be closed
Teardown(s) ==
  /\ At(s, "teardown")
  /\ \/ GoTo(s, "end") /\ Quiet /\ UNCHANGED result
     \/ SetError(s)

Unwind(s) == At(s, "unwind") /\ SetError(s)

\* capture_and_kick answered
Kick(s) ==
  /\ At(s, "kick")
  /\ GoTo(s, "end")
  /\ \E k \in BOOLEAN : SetSession(s, [sessions[s] EXCEPT !.kicked = k])
  /\ UNCHANGED <<streams, result>>

TaskStep(s) ==
  \/ Start(s) \/ QuickCtx(s) \/ QuickPage(s) \/ Progress(s) \/ Fetch(s)
  \/ Save(s) \/ Check(s) \/ QuickExit(s) \/ FullCtx(s) \/ Login(s)
  \/ MfaResume(s) \/ SubmitToPortal(s) \/ SaveAuth(s) \/ Teardown(s)
  \/ Unwind(s) \/ Kick(s)
----------------------------------------------------------------------------
(* main: the handlers                                                      *)

NewSession == [state |-> "IDLE", docs |-> 0, mfaEvent |-> FALSE,
               code |-> NoCode, kicked |-> FALSE]

PrunedResults ==
  [s \in Sids |-> IF result[s].at = "old" THEN [result[s] EXCEPT !.at = "pruned"]
                 ELSE result[s]]

\* _prune_stale cancels the task of a session it drops
PrunedTask(x) ==
  IF Present(x) /\ x \in old /\ task[x].pc # "end"
  THEN [task[x] EXCEPT !.pc = "cancelled"]
  ELSE task[x]

\* POST /api/login: manager.create prunes, then the task is started
Create(s) ==
  /\ task[s].pc = "none"
  /\ sessions' = [x \in (DOMAIN sessions \ old) \cup {s} |->
                    IF x = s THEN NewSession ELSE sessions[x]]
  /\ \E usaa \in BOOLEAN :
       task' = [x \in Sids |->
                  IF x = s THEN [task[s] EXCEPT !.pc = "start", !.usaa = usaa]
                  ELSE PrunedTask(x)]
  /\ result' = PrunedResults
  /\ UNCHANGED <<old, streams, accepted, crashes>>

\* mutant: the state is left at MFA_REQUIRED
SubmitMfaAgain(s, c) ==
  /\ Present(s)
  /\ sessions[s].state = "MFA_REQUIRED"
  /\ Change(s, [sessions[s] EXCEPT !.code = c, !.mfaEvent = TRUE], "state_change")
  /\ accepted' = [accepted EXCEPT ![s] = Append(@, c)]
  /\ UNCHANGED <<task, result, old, crashes>>

\* mutant: the state is not checked before the code is taken
SubmitMfaAnyTime(s, c) ==
  /\ Present(s)
  /\ task[s].pc # "cancelled"
  /\ Change(s, [sessions[s] EXCEPT !.code = c, !.state = "AUTHENTICATING",
                                   !.mfaEvent = TRUE], "state_change")
  /\ accepted' = [accepted EXCEPT ![s] = Append(@, c)]
  /\ UNCHANGED <<task, result, old, crashes>>

\* POST /api/mfa
SubmitMfa(s, c) ==
  /\ Present(s)
  /\ sessions[s].state = "MFA_REQUIRED"
  /\ Change(s, [sessions[s] EXCEPT !.code = c, !.state = "AUTHENTICATING",
                                   !.mfaEvent = TRUE], "state_change")
  /\ accepted' = [accepted EXCEPT ![s] = Append(@, c)]
  /\ UNCHANGED <<task, result, old, crashes>>

\* GET /api/status: subscribe, else the persisted result, else 404
Open(r, s) ==
  /\ ~Connected(r)
  /\ \/ /\ Present(s)
        /\ streams' = [streams EXCEPT ![r] =
             [at |-> "open", sid |-> s, seen |-> NoEvent,
              queue |-> <<Snapshot(sessions[s], "state_change")>>]]
        /\ UNCHANGED result
     \/ /\ ~Present(s) /\ task[s].pc # "none"
        /\ result' = PrunedResults
        /\ LET found == result[s].at = "fresh"
           IN  streams' = [streams EXCEPT ![r] =
                 [at |-> IF found THEN "ended" ELSE "refused", sid |-> s,
                  seen |-> IF found THEN [kind |-> "docs_ready", state |-> "DONE",
                                          docs |-> result[s].docs] ELSE NoEvent,
                  queue |-> <<>>]]
  /\ UNCHANGED <<sessions, task, old, accepted, crashes>>

Deliver(r) ==
  /\ streams[r].at = "open" /\ streams[r].queue # <<>>
  /\ streams' = [streams EXCEPT ![r].at = "sent",
                                ![r].seen = Head(streams[r].queue),
                                ![r].queue = Tail(@)]
  /\ UNCHANGED <<sessions, task, result, old, accepted, crashes>>

\* _should_close_stream, with the flag read after the event went out
CloseOrHold(r) ==
  /\ streams[r].at = "sent"
  /\ LET s == streams[r].sid
         held == Present(s) /\ sessions[s].kicked
         over == streams[r].seen.state \in Final /\ ~held
     IN  streams' = [streams EXCEPT ![r].at = IF over THEN "ended" ELSE "open",
                                    ![r].queue = IF over THEN <<>> ELSE @]
  /\ UNCHANGED <<sessions, task, result, old, accepted, crashes>>

\* the browser goes away
Leave(r) ==
  /\ Connected(r)
  /\ streams' = [streams EXCEPT ![r].at = "off", ![r].queue = <<>>,
                                ![r].seen = NoEvent]
  /\ UNCHANGED <<sessions, task, result, old, accepted, crashes>>

\* a session, then its result, outlives session_ttl_seconds
Age(s) ==
  /\ \/ Present(s) /\ s \notin old /\ old' = old \cup {s} /\ UNCHANGED result
     \/ /\ s \in old /\ result[s].at = "fresh"
        /\ result' = [result EXCEPT ![s].at = "old"]
        /\ UNCHANGED old
  /\ UNCHANGED <<sessions, task, streams, accepted, crashes>>

\* the process dies: sessions, tasks and connections are gone, files stay
Crash ==
  /\ crashes < MaxCrashes
  /\ crashes' = crashes + 1
  /\ sessions' = [x \in {} |-> NewSession]
  /\ task' = [s \in Sids |->
                IF task[s].pc \in {"none", "end"} THEN task[s]
                ELSE [task[s] EXCEPT !.pc = "cancelled"]]
  /\ streams' = [r \in Clients |->
                   IF Connected(r)
                   THEN [streams[r] EXCEPT !.at = "off", !.queue = <<>>]
                   ELSE streams[r]]
  /\ UNCHANGED <<result, old, accepted>>
----------------------------------------------------------------------------
Init ==
  /\ sessions = [x \in {} |-> NewSession]
  /\ task = [s \in Sids |-> [pc |-> "none", usaa |-> FALSE,
                             timedOut |-> FALSE, got |-> NoCode, emits |-> 0]]
  /\ result = [s \in Sids |-> [at |-> "none", docs |-> 0]]
  /\ old = {}
  /\ LET any == CHOOSE s \in Sids : TRUE
     IN  streams = [r \in Clients |-> [at |-> "off", sid |-> any, queue |-> <<>>,
                                       seen |-> NoEvent]]
  /\ accepted = [s \in Sids |-> <<>>]
  /\ crashes = 0

Next ==
  \/ \E s \in Sids : Create(s) \/ TaskStep(s) \/ MfaTimer(s) \/ Age(s)
  \/ \E s \in Sids, c \in Codes : SubmitMfa(s, c)
  \/ \E r \in Clients, s \in Sids : Open(r, s)
  \/ \E r \in Clients : Deliver(r) \/ CloseOrHold(r) \/ Leave(r)
  \/ Crash

(* The event loop runs every ready coroutine, every await in the browser   *)
(* has a Playwright timeout, and wait_for arms its timer; nothing is owed  *)
(* by the users, the TTL or the operator who restarts the process.         *)
Fairness ==
  /\ \A s \in Sids : WF_vars(TaskStep(s)) /\ WF_vars(MfaTimer(s))
  /\ \A r \in Clients : WF_vars(Deliver(r)) /\ WF_vars(CloseOrHold(r))

Spec == Init /\ [][Next]_vars
FairSpec == Spec /\ Fairness
----------------------------------------------------------------------------
(* Sessions, tasks, results and streams stay in their annotated shape.     *)
TypeOK ==
  /\ DOMAIN sessions \subseteq Sids
  /\ \A s \in DOMAIN sessions : sessions[s] \in Session
  /\ task \in [Sids -> Task]
  /\ result \in [Sids -> Result]
  /\ old \subseteq Sids
  /\ streams \in [Clients -> Stream]

(* DONE is never reported with an empty list (orchestrator.py:18-24), not  *)
(* by the session and not by any event on its way to a browser, whichever  *)
(* of the three fetches produced it.                                       *)
DoneHasDocs ==
  /\ \A s \in DOMAIN sessions : sessions[s].state = "DONE" => sessions[s].docs > 0
  /\ \A r \in Clients : streams[r].seen.state = "DONE" => streams[r].seen.docs > 0

(* A run checks the two together: the login is well-formed, and nothing    *)
(* says DONE of an empty list (orchestrator.py:18-24).                     *)
WellFormed == TypeOK /\ DoneHasDocs

(* Of several codes posted at once only the first is accepted, and it is   *)
(* the one the portal gets (session_manager.py:262-264).                   *)
FirstCodeWins ==
  \A s \in Sids :
     /\ Len(accepted[s]) <= 1
     /\ task[s].got # NoCode => accepted[s] = <<task[s].got>>

(* A browser that is connected is told everything: the last event sent or  *)
(* queued for it is the session as it is now.  The one exception is a      *)
(* result that could not be persisted (session_manager.py:145-156).        *)
StreamsFollow ==
  \A r \in Clients :
     LET s == streams[r].sid
         q == streams[r].queue
         last == IF q = <<>> THEN streams[r].seen ELSE q[Len(q)]
     IN  Connected(r) /\ Present(s) =>
           \/ last.state = sessions[s].state /\ last.docs = sessions[s].docs
           \/ sessions[s].state = "DONE" /\ task[s].pc \in {"check", "quickExit",
                "quickFetch", "quickSave", "fullCtx", "unwind"}

(* docs_ready for a DONE session is announced only once those documents    *)
(* are on disk, so that a restart right after it does not lose what the    *)
(* browser was shown, and a browser that comes back after the restart is   *)
(* shown the same list (session_manager.py:146-156).                       *)
AnnouncedIsDurable ==
  \A r \in Clients :
     LET evs == {streams[r].seen} \cup
                  {streams[r].queue[i] : i \in DOMAIN streams[r].queue}
     IN  \A e \in evs :
           e.kind = "docs_ready" /\ e.state = "DONE" =>
              /\ result[streams[r].sid].at # "none"
              /\ result[streams[r].sid].docs = e.docs

(* However a login ends, its session says so and stays so: a code that is  *)
(* accepted while the MFA timer's exception unwinds (session_manager.py:   *)
(* 249-274), a late progress report or a save that failed does not leave   *)
(* an ended session waiting, and one that ended DONE shows as many         *)
(* documents as its result on disk, so that the answer after a restart or  *)
(* a pruning of the session is the one the browser had.                    *)
Ended == {"teardown", "kick", "end"}

EndsAsStored ==
  \A s \in DOMAIN sessions :
     task[s].pc \in Ended =>
       /\ sessions[s].state \in Final
       /\ sessions[s].state = "DONE" =>
            result[s].at # "none" /\ result[s].docs = sessions[s].docs

(* Every login ends, also when nobody ever types the MFA code.             *)
LoginEnds ==
  \A s \in Sids : task[s].pc = "start" ~> task[s].pc \in {"end", "cancelled"}

(* A browser that stays connected learns that its session is over, unless  *)
(* the session was pruned under it.                                        *)
OutcomeIsSeen ==
  \A r \in Clients, s \in Sids :
     (streams[r].at = "open" /\ streams[r].sid = s
        /\ Present(s) /\ sessions[s].state \in Final)
     ~> (streams[r].seen.state \in Final \/ ~Connected(r) \/ ~Present(s))
----------------------------------------------------------------------------
(* main.py:138-140: the stream stays open past the terminal state when a   *)
(* repair is in flight for the session.                                    *)
StreamHeldForRepair ==
  \A r \in Clients :
     streams[r].at = "ended" /\ Present(streams[r].sid)
        => ~sessions[streams[r].sid].kicked

(* main.py:138-139: DONE is a terminal state.                              *)
DoneIsTerminal ==
  [][\A s \in DOMAIN sessions \cap DOMAIN sessions' :
        sessions[s].state = "DONE" => sessions'[s].state = "DONE"]_vars
=============================================================================
