----------------------------- MODULE ClickRace -----------------------------
(***************************************************************************)
(* backend/carriers/usaa.py, _click_for_first_document: a click on a       *)
(* document button may answer by a response, a download, a pop-up or in    *)
(* the page's viewer, and nobody knows by which.  Four tasks wait for one  *)
(* each; the first that gets hold of a document wins and the others are    *)
(* cancelled.  generic_portal.py (_click_for_document) races the same four *)
(* with other deadlines.                                                   *)
(*                                                                         *)
(* What a click causes may come late, when the call is over or the next    *)
(* one has begun; a viewer may stay open though it was told to close; and  *)
(* the page may move its rows under the loop that clicks them.  late       *)
(* counts these.                                                           *)
(*                                                                         *)
(* Not here: the window of a pop-up.  from_popup closes it before it       *)
(* returns or raises; one that is cancelled closes it in a task nobody     *)
(* awaits, after the call; one that was only due leaves it to the browser. *)
(* Nothing else in the code looks at it.                                   *)
(*                                                                         *)
(* This module is the call; UsaaFetch.tla makes the calls.                 *)
(***************************************************************************)
EXTENDS Naturals, Sequences, FiniteSets

CONSTANTS Targets,   \* the buttons
          Reactions, \* what a click can cause: sets of [kind, good] records
          MaxLate,   \* bound: effects that come late, and viewers that stay
          None

Kinds == {"response", "download", "popup", "viewer"}
Racers == {"response", "download", "popup", "page"}

ASSUME RaceConstants ==
  /\ None \notin Targets /\ MaxLate \in Nat
  /\ Reactions \subseteq SUBSET [kind : Kinds, good : BOOLEAN]

\* good: it is, or shows, a document
Effect == [kind : Kinds, good : BOOLEAN, of : Targets]

VARIABLES clicked,  \* the button the running call has clicked, or None
          racer,    \* racer -> what it is doing
          queue,    \* the responses its listener has put into response_queue
          inflight, \* effects that have not come yet
          viewer,   \* what the page's document viewer shows, or None
          found,    \* the button whose document the last call returned, or None
          late      \* what outlived its call, or moved, so far

raceVars == <<clicked, racer, queue, inflight, viewer, found, late>>

\* a racer waits for its event, is due to resume with one, works on it, or has
\* raised
Racer == [pc : {"waits", "due", "works", "failed"}, on : Effect \cup {None}]
Waiting == [pc |-> "waits", on |-> None]
Failed == [pc |-> "failed", on |-> None]
Working(e) == [pc |-> "works", on |-> e]

RaceInit ==
  /\ clicked = None /\ racer = [r \in Racers |-> Failed] /\ queue = <<>>
  /\ inflight = {} /\ viewer = None /\ found = None
  /\ late = 0

\* a new queue, new waiters, new racers
Begin(t) ==
  /\ clicked' = t /\ racer' = [r \in Racers |-> Waiting] /\ queue' = <<>>
  /\ \E effects \in Reactions :
       inflight' = inflight \cup
         {[kind |-> e.kind, good |-> e.good, of |-> t] : e \in effects}

\* wait_for_event has the first event of its kind, if it still waits
Heard(r) == clicked # None /\ racer[r].pc = "waits"

Caught(r, e) ==
  IF Heard(r) THEN racer' = [racer EXCEPT ![r] = [pc |-> "due", on |-> e]]
  ELSE UNCHANGED racer

Response(e) ==
  /\ e.kind = "response"
  /\ queue' = IF clicked = None THEN queue ELSE Append(queue, e)
  /\ UNCHANGED <<racer, viewer>>

Download(e) ==
  /\ e.kind = "download" /\ Caught("download", e)
  /\ UNCHANGED <<queue, viewer>>

\* a pop-up nobody waits for any more is left to the browser
Popup(e) ==
  /\ e.kind = "popup" /\ Caught("popup", e)
  /\ UNCHANGED <<queue, viewer>>

Viewer(e) ==
  /\ e.kind = "viewer" /\ viewer' = e
  /\ UNCHANGED <<racer, queue>>

Arrive(e) ==
  /\ inflight' = inflight \ {e}
  /\ Response(e) \/ Download(e) \/ Popup(e) \/ Viewer(e)
  /\ UNCHANGED <<clicked, found, late>>

\* from_response takes the next response, from_current_page looks at the page
Take ==
  /\ clicked # None
  /\ \/ /\ racer["response"].pc = "waits" /\ queue # <<>>
        /\ racer' = [racer EXCEPT !["response"] = Working(Head(queue))]
        /\ queue' = Tail(queue)
     \/ /\ racer["page"].pc = "waits" /\ UNCHANGED queue
        /\ racer' = [racer EXCEPT !["page"] =
                       IF viewer = None THEN Failed ELSE Working(viewer)]
  /\ UNCHANGED <<clicked, inflight, viewer, found, late>>

\* the coroutine goes on with its event, unless it is cancelled first
Resume(r) ==
  /\ clicked # None /\ racer[r].pc = "due"
  /\ racer' = [racer EXCEPT ![r] = Working(@.on)]
  /\ UNCHANGED <<clicked, queue, inflight, viewer, found, late>>

\* no document in it, or it could not be read, or the pop-up not be closed; only
\* from_response goes on to the next, and only in the first case
Fails(r) ==
  /\ clicked # None /\ racer[r].pc = "works"
  /\ \/ racer' = [racer EXCEPT ![r] = Failed]
     \/ /\ r = "response" /\ ~racer[r].on.good
        /\ racer' = [racer EXCEPT ![r] = Waiting]
  /\ UNCHANGED <<clicked, queue, inflight, viewer, found, late>>

\* 7.0 s: for a download and a pop-up from before the click, for a response from
\* after it, which is up to 5 s later
Deadlines == {{"download", "popup"}, {"response"}}

Deadline ==
  /\ clicked # None
  /\ \E waiters \in Deadlines :
       /\ \E r \in waiters : racer[r].pc = "waits"
       /\ "response" \in waiters => queue = <<>>
       /\ racer' = [r \in Racers |-> IF r \in waiters /\ racer[r].pc = "waits"
                                    THEN Failed ELSE racer[r]]
  /\ UNCHANGED <<clicked, queue, inflight, viewer, found, late>>

\* _close_document_viewer, which may fail
Closed(stuck) ==
  \/ stuck = 0 /\ viewer' = None
  \/ stuck = 1 /\ viewer # None /\ UNCHANGED viewer

\* the listener is removed, the waiters and the losers are cancelled; what has
\* not come by now comes late or never
Over(result, stuck) ==
  /\ clicked' = None /\ found' = result /\ queue' = <<>>
  /\ racer' = [r \in Racers |-> Failed]
  /\ inflight' \in SUBSET inflight
  /\ late' = late + stuck + Cardinality({e \in inflight' : e.of = clicked})
  /\ late' <= MaxLate

\* as_completed yields the first racer that succeeds; then the viewer is closed
Wins(r) ==
  /\ clicked # None /\ racer[r].pc = "works" /\ racer[r].on.good
  /\ \E stuck \in 0..1 : Over(racer[r].on.of, stuck) /\ Closed(stuck)

\* every racer has failed, or 7.5 s have passed and some still work
NoneWins ==
  /\ clicked # None /\ \A r \in Racers : racer[r].pc \in {"works", "failed"}
  /\ Over(None, 0) /\ UNCHANGED viewer
=============================================================================
