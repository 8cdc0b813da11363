------------------------------- MODULE Portal -------------------------------
(***************************************************************************)
(* The portal as several browsers use it: the handlers of backend/main.py  *)
(* (login, status_stream, feedback) over the slot manager, the sessions    *)
(* and the background logins, and the progress callback that all logins of *)
(* one carrier share, because get_flow returns one flow object per carrier.*)
(*                                                                         *)
(* A handler without an await is one step: /api/login claims the slot with *)
(* the "" placeholder, mints the session and claims again, atomically.     *)
(* What happens inside a login is in LoginFlow.tla; here it only enters    *)
(* and leaves the document fetch, and ends.                                *)
(***************************************************************************)
EXTENDS SlotManager

CONSTANTS Tabs,             \* SSE connections, one at a time each
          ProgressCarriers, \* carriers with set_documents_progress_callback
          ProxyCarriers,    \* carriers served by the worker
          SessionTTL        \* session_ttl_seconds, in time units

ASSUME PortalConstants ==
  /\ ProgressCarriers \subseteq Carriers
  /\ ProxyCarriers \subseteq Carriers
  /\ SessionTTL \in Nat

VARIABLES sess,     \* session id -> session
          proxied,  \* session id -> uid, for sessions of the worker
          tasks,    \* session id -> the login driving the carrier for it
          wired,    \* carrier -> session its progress callback reports to
          shown,    \* session id -> sessions whose documents it lists
          used,     \* session ids handed out so far
          tabs,     \* connection -> what it is connected to
          polite    \* whether this behaviour's users are, as UsesOneTab says

logins == <<sess, tasks, wired, shown, used>>
vars == <<slots, carrierOwners, sess, proxied, tasks, wired, shown, used, tabs,
          polite>>

Off == [at |-> "off"]

PortalTypes ==
  /\ TypeOK
  /\ \A s \in DOMAIN sess : sess[s] \in
        [uid : Uids, carrier : Carriers, state : {"open", "half", "done", "error"},
         age : 0..(SessionTTL + 1)]
  /\ \A s \in DOMAIN tasks : tasks[s] \in
        [carrier : Carriers, fetching : BOOLEAN, cancelled : BOOLEAN]
  /\ DOMAIN sess \cup DOMAIN tasks \cup DOMAIN proxied \subseteq used
  /\ wired \in [Carriers -> used \cup {NoSession}]
  /\ shown \in [SessionIds -> SUBSET SessionIds]
  /\ tabs \in [Tabs -> {Off} \cup
                 [at : {"sse", "proxy"}, uid : Uids, sid : SessionIds]]
  /\ polite \in BOOLEAN

Running(s) == s \in DOMAIN sess /\ sess[s].state = "open"

\* its login is not over: also not, if the session is DONE ("half") because set_docs
\* changed it, but nobody was told, because the save behind it raised
Going(s) == s \in DOMAIN sess /\ sess[s].state \in {"open", "half"}

\* what a polite behaviour assumes of the users and of the portal:
\* a login is over before anything of it times out, its tab stays open and
\* connects in time (not while the session is "half": that snapshot ends the
\* stream), and nobody logs in again before it is over, nor looks at an older
\* session meanwhile
InFlight(u) == \E s \in DOMAIN sess : sess[s].uid = u /\ Going(s)

UsesOneTab(u) ==
  polite => /\ ~InFlight(u)
            /\ {r \in Tabs : tabs[r] # Off /\ tabs[r].uid = u} = {}
----------------------------------------------------------------------------
(* POST /api/login                                                         *)

Resumable(u, c) ==
  /\ u \in DOMAIN slots
  /\ slots[u].carrier = c
  /\ Running(slots[u].session)

\* the uid's session on this carrier is still going: hand it out again
Resume(u, c) ==
  /\ c \notin ProxyCarriers
  /\ Resumable(u, c)
  /\ SetSM(Ticked(SM, u))
  /\ UNCHANGED <<logins, proxied, tabs, polite>>

\* 423 carrier-busy
Refuse(u, c) ==
  /\ c \notin ProxyCarriers
  /\ ~Resumable(u, c)
  /\ ~ClaimOK(SM, u, c)
  /\ SetSM(Claimed(SM, u, c, NoSession))
  /\ UNCHANGED <<logins, proxied, tabs, polite>>

\* mutant: prune forgets the session but not its task
PrunedNone(ts, S) == ts

\* _prune_stale: the tasks of the pruned sessions are cancelled
Pruned(ts, S) ==
  [t \in DOMAIN ts |-> [ts[t] EXCEPT !.cancelled = @ \/ t \in S]]

Expired == {s \in DOMAIN sess : sess[s].age > SessionTTL}

\* mutant: the slot keeps the placeholder of the first claim
ClaimedOnce(u, c, s) == Claimed(SM, u, c, NoSession)

\* claim with "", then claim again with the id of the new session
ClaimedTwice(u, c, s) == Claimed(Claimed(SM, u, c, NoSession), u, c, s)

Begin(u, c, s) ==
  /\ c \notin ProxyCarriers
  /\ ~Resumable(u, c)
  /\ ClaimOK(SM, u, c)
  /\ s \notin used
  /\ UsesOneTab(u)
  /\ SetSM(ClaimedTwice(u, c, s))
  /\ sess' = With(Without(sess, Expired), s,
                  [uid |-> u, carrier |-> c, state |-> "open", age |-> 0])
  /\ tasks' = With(Pruned(tasks, Expired), s,
                   [carrier |-> c, fetching |-> FALSE, cancelled |-> FALSE])
  /\ used' = used \cup {s}
  /\ UNCHANGED <<proxied, wired, shown, tabs, polite>>

\* the worker accepted the login; the answer of claim is not looked at
ProxyLogin(u, c, s) ==
  /\ c \in ProxyCarriers
  /\ s \notin used
  /\ UsesOneTab(u)
  /\ SetSM(Claimed(SM, u, c, s))
  /\ proxied' = With(proxied, s, u)
  /\ used' = used \cup {s}
  /\ UNCHANGED <<sess, tasks, wired, shown, tabs, polite>>
----------------------------------------------------------------------------
(* GET /api/status                                                         *)

Open(r, s) ==
  /\ tabs[r].at = "off"
  /\ \/ /\ s \in DOMAIN sess
        /\ polite => Running(s) \/ ~InFlight(sess[s].uid)
        /\ tabs' = [tabs EXCEPT ![r] = [at |-> "sse", uid |-> sess[s].uid,
                                        sid |-> s]]
     \/ /\ s \in DOMAIN proxied
        /\ tabs' = [tabs EXCEPT ![r] = [at |-> "proxy", uid |-> proxied[s],
                                        sid |-> s]]
  /\ UNCHANGED <<slotVars, logins, proxied, polite>>

\* an event or a heartbeat went out
Beat(r) ==
  /\ tabs[r].at = "sse"
  /\ SetSM(Ticked(SM, tabs[r].uid))
  /\ UNCHANGED <<logins, proxied, tabs, polite>>

\* the stream ends, for whatever reason: "always release"
Close(r) ==
  /\ tabs[r].at = "sse"
  /\ polite => ~Going(tabs[r].sid)
  /\ tabs' = [tabs EXCEPT ![r] = Off]
  /\ SetSM(Released(SM, {tabs[r].uid}))
  /\ UNCHANGED <<logins, proxied, polite>>

\* worker_proxy.status_stream never touches the slots
CloseProxy(r) ==
  /\ tabs[r].at = "proxy"
  /\ tabs' = [tabs EXCEPT ![r] = Off]
  /\ UNCHANGED <<slotVars, logins, proxied, polite>>

\* POST /api/feedback with ok: true, offered once documents are shown, also those of
\* a login that still runs or failed
FeedbackOk(s) ==
  /\ s \in DOMAIN sess
  /\ shown[s] # {}
  /\ polite => ~Going(s)
  /\ \E u \in Holders(SM, s) : SetSM(Released(SM, {u}))
  /\ UNCHANGED <<logins, proxied, tabs, polite>>
----------------------------------------------------------------------------
(* The background logins                                                   *)

Alive(s) == s \in DOMAIN tasks /\ ~tasks[s].cancelled
Carrier(s) == tasks[s].carrier

\* setter(publish_progress); a flow without the setter reports to nobody
EnterFetch(s) ==
  /\ Alive(s)
  /\ ~tasks[s].fetching
  /\ tasks' = [tasks EXCEPT ![s].fetching = TRUE]
  /\ wired' = IF Carrier(s) \in ProgressCarriers
              THEN [wired EXCEPT ![Carrier(s)] = s] ELSE wired
  /\ UNCHANGED <<slotVars, proxied, sess, shown, used, tabs, polite>>

\* the flow reports what it found so far to whoever is wired
Report(s) ==
  /\ Alive(s)
  /\ tasks[s].fetching
  /\ Running(wired[Carrier(s)])
  /\ shown' = [shown EXCEPT ![wired[Carrier(s)]] = @ \cup {s}]
  /\ UNCHANGED <<slotVars, proxied, sess, tasks, wired, used, tabs, polite>>

\* setter(None)
Unwired(s) ==
  IF Carrier(s) \in ProgressCarriers /\ tasks[s].fetching
  THEN [wired EXCEPT ![Carrier(s)] = NoSession] ELSE wired

\* set_docs
Succeed(s) ==
  /\ Alive(s)
  /\ tasks[s].fetching
  /\ sess' = [sess EXCEPT ![s].state = "done"]
  /\ shown' = [shown EXCEPT ![s] = {s}]
  /\ tasks' = Without(tasks, {s})
  /\ wired' = Unwired(s)
  /\ UNCHANGED <<slotVars, proxied, used, tabs, polite>>

\* set_docs on the way: the session has the documents and is DONE, but its save
\* raised, and the login goes on, to the login form or to the error handler
SaveFails(s) ==
  /\ Alive(s)
  /\ tasks[s].fetching
  /\ sess' = [sess EXCEPT ![s].state = "half"]
  /\ shown' = [shown EXCEPT ![s] = {s}]
  /\ tasks' = [tasks EXCEPT ![s].fetching = FALSE]
  /\ wired' = Unwired(s)
  /\ UNCHANGED <<slotVars, proxied, used, tabs, polite>>

\* the next transition of that login
GoesOn(s) ==
  /\ Alive(s)
  /\ sess[s].state = "half"
  /\ sess' = [sess EXCEPT ![s].state = "open"]
  /\ UNCHANGED <<slotVars, proxied, tasks, wired, shown, used, tabs, polite>>

\* the fetch raised on the quick path: back to the login form
FallBack(s) ==
  /\ Alive(s)
  /\ tasks[s].fetching
  /\ tasks' = [tasks EXCEPT ![s].fetching = FALSE]
  /\ wired' = Unwired(s)
  /\ UNCHANGED <<slotVars, proxied, sess, shown, used, tabs, polite>>

\* set_error
Fail(s) ==
  /\ Alive(s)
  /\ sess' = [sess EXCEPT ![s].state = "error"]
  /\ tasks' = Without(tasks, {s})
  /\ wired' = Unwired(s)
  /\ UNCHANGED <<slotVars, proxied, shown, used, tabs, polite>>

\* the CancelledError of a pruned session reaches its task
Cancelled(s) ==
  /\ s \in DOMAIN tasks
  /\ tasks[s].cancelled
  /\ tasks' = Without(tasks, {s})
  /\ wired' = Unwired(s)
  /\ UNCHANGED <<slotVars, proxied, sess, shown, used, tabs, polite>>

Tock ==
  /\ polite => \A s \in DOMAIN sess : Going(s) =>
        /\ sess[s].age < SessionTTL
        /\ \A u \in DOMAIN slots : u = sess[s].uid => slots[u].idle < IdleTTL
  /\ SetSM(Aged(SM))
  /\ sess' = [s \in DOMAIN sess |->
                [sess[s] EXCEPT !.age = IF @ > SessionTTL THEN @ ELSE @ + 1]]
  /\ UNCHANGED <<proxied, tasks, wired, shown, used, tabs, polite>>
----------------------------------------------------------------------------
PortalInit ==
  /\ Init
  /\ sess = Empty /\ proxied = Empty /\ tasks = Empty
  /\ wired = [c \in Carriers |-> NoSession]
  /\ shown = [s \in SessionIds |-> {}]
  /\ used = {}
  /\ tabs = [r \in Tabs |-> Off]
  /\ polite \in BOOLEAN

PortalNext ==
  \/ \E u \in Uids, c \in Carriers :
        \/ Resume(u, c) \/ Refuse(u, c)
        \/ \E s \in SessionIds : Begin(u, c, s) \/ ProxyLogin(u, c, s)
  \/ \E r \in Tabs :
        \/ Beat(r) \/ Close(r) \/ CloseProxy(r)
        \/ \E s \in SessionIds : Open(r, s)
  \/ \E s \in SessionIds :
        \/ FeedbackOk(s) \/ EnterFetch(s) \/ Report(s) \/ Succeed(s)
        \/ SaveFails(s) \/ GoesOn(s) \/ FallBack(s) \/ Fail(s) \/ Cancelled(s)
  \/ Tock

PortalSpec == PortalInit /\ [][PortalNext]_vars
----------------------------------------------------------------------------
(* Between two handlers every slot points at a session that its own uid    *)
(* started on its own carrier (the session may have been pruned since):    *)
(* the "" placeholder of the first claim never stays, and a slot never     *)
(* carries over to the session of another uid or carrier.                  *)
SlotPointsHome ==
  \A u \in DOMAIN slots :
     LET s == slots[u].session
     IN  /\ s \in used
         /\ s \in DOMAIN sess => sess[s].uid = u /\ sess[s].carrier = slots[u].carrier
         /\ s \in DOMAIN proxied => proxied[s] = u

(* A run checks the two together: the portal is well-formed, and every     *)
(* slot leads its owner home (main.py:82-108).                             *)
PortalInv == PortalTypes /\ SlotPointsHome

(* No login keeps driving a portal for a session nobody can reach: pruning *)
(* cancels what it forgets (session_manager.py:324-327), also a login that *)
(* outlived the TTL of its session.                                        *)
NoTaskWithoutSession ==
  \A s \in DOMAIN tasks : Alive(s) => s \in DOMAIN sess

(* However browsers come and go, of the logins that drive one carrier at   *)
(* most one is attached to a slot: the others are left-overs whose uid has *)
(* lost or given up the carrier.                                           *)
OneAttached ==
  \A u, v \in DOMAIN slots :
     LET s == slots[u].session
         t == slots[v].session
     IN  s \in DOMAIN tasks /\ t \in DOMAIN tasks /\ Carrier(s) = Carrier(t) => s = t

(* carrier-busy is answered only while another uid was heard from within   *)
(* the TTL: a closed tab locks nobody out (slot_manager.py:3-4).           *)
RefusedByLiveOwner ==
  [][\A u \in Uids, c \in Carriers :
       Refuse(u, c) => \E v \in DOMAIN slots :
          v # u /\ slots[v].carrier = c /\ slots[v].idle <= IdleTTL]_vars

\* the sessions on whose behalf a login drives a carrier
Drivers == {s \in DOMAIN tasks : s \in DOMAIN sess}

(* A carrier is driven for one uid at a time, as long as users wait for    *)
(* their logins with the tab open (slot_manager.py:6-8): the end of a      *)
(* stream releases a slot (main.py:246), and a sweep frees it, only when   *)
(* the login that drives the carrier for it is over.                       *)
PoliteDrivers ==
  polite => \A s, t \in Drivers :
     Carrier(s) = Carrier(t) => sess[s].uid = sess[t].uid

(* A session lists documents of its own login only, although all logins    *)
(* of a carrier report their progress through one shared callback          *)
(* (orchestrator.py:387-391): the slots of polite users keep it so.        *)
OwnDocsOnly == polite => \A s \in SessionIds : shown[s] \subseteq {s}
----------------------------------------------------------------------------
(* slot_manager.py:6-8: a carrier is driven for one uid at a time; a second *)
(* one is served from the cache instead.                                   *)
OneDriverPerCarrier ==
  \A s, t \in Drivers : Carrier(s) = Carrier(t) => sess[s].uid = sess[t].uid

(* ARCHITECTURE.md:155: one active session per uid; reloading the page     *)
(* resumes the in-flight session.                                          *)
ReloadResumes ==
  \A s, t \in DOMAIN sess :
     /\ Going(s) /\ Going(t)
     /\ sess[s].uid = sess[t].uid /\ sess[s].carrier = sess[t].carrier
     => s = t

(* main.py:58-59: the slot of a session on the worker is tracked so that   *)
(* its stream can release it on disconnect.                                *)
ProxySlotReleased ==
  [][\A r \in Tabs :
       tabs[r].at = "proxy" /\ tabs'[r].at = "off" =>
          \A u \in DOMAIN slots' : slots'[u].session # tabs[r].sid]_vars
=============================================================================
