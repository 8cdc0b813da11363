------------------------------ MODULE Browsers ------------------------------
(***************************************************************************)
(* Who starts chromium, who holds it, and who ends it:                     *)
(*   - backend/playwright_runner.py: the default browser all logins share, *)
(*     and the Chrome one login starts for itself and drives over CDP,     *)
(*   - backend/repair_browser.py: the chromium a carrier's repair attaches *)
(*     to, from spawn to cleanup,                                          *)
(*   - backend/auto_repair.py (capture_and_kick, _kick, the ends of a      *)
(*     repair, shutdown) and the lifespan of backend/main.py, their        *)
(*     callers.                                                            *)
(*                                                                         *)
(* A task is one login: it enters browser contexts, one after another, and *)
(* if it fails it spawns a repair browser and kicks a repair; pruning its  *)
(* session cancels it wherever it is.  A verifier replays a repair's fix   *)
(* in a context of its own.  A process is named by what it is and the      *)
(* coroutine that started it.  Between two awaits is one step; a lock      *)
(* nobody holds is no await.                                               *)
(***************************************************************************)
EXTENDS Naturals, FiniteSets

CONSTANTS Tasks, Verifiers, Carriers, None,
          MaxDeaths \* bound: chromium processes that crash

Coroutines == Tasks \cup Verifiers

ASSUME BrowserConstants ==
  /\ None \notin Coroutines /\ Tasks \cap Verifiers = {} /\ "default" \notin Carriers
  /\ MaxDeaths \in Nat

VARIABLES pc,          \* coroutine -> the await it is at
          carrier,     \* task -> what it logs in to
          verifies,    \* verifier -> the task whose repair it verifies, or None
          chrome,      \* the processes that are alive
          default,     \* the one whose launch is in runner._browser, or None
          registry,    \* carrier -> the spawner of its browser (_repair_browsers)
          active,      \* carrier -> the task whose repair it has (_active)
          checkers,    \* task -> coroutines that may still end its repair,
                       \* those that are verifying it not counted
          dying,       \* tasks whose browser a cleanup is harvesting
          stop,        \* the lifespan's teardown
          overlapped,  \* kinds and carriers two launches overlapped for (history)
          cut,         \* processes whose login was cancelled too late (history)
          quiet,       \* nothing was under way when teardown began (history)
          deaths

vars == <<pc, carrier, verifies, chrome, default, registry, active, checkers, dying,
          stop, overlapped, cut, quiet, deaths>>
checkVars == <<checkers, verifies>>
repairVars == <<registry, active, checkVars, dying>>
noteVars == <<overlapped, cut, quiet, deaths>>

Default(x) == [kind |-> "default", by |-> x]
Cdp(x) == [kind |-> "cdp", by |-> x]
Repair(t) == [kind |-> "repair", by |-> t]
Process == [kind : {"default", "cdp"}, by : Coroutines] \cup [kind : {"repair"}, by : Tasks]

\* "cutting": closing its context because it was cancelled
PCs == {"idle", "launching", "opening", "cdpWait", "inside", "closing", "cutting",
        "spawning", "over"}

\* "run", then the awaits of lifespan's finally; left: the carriers cleanup_all
\* has not reached; cur: the task whose browser it is harvesting
Stop == [phase : {"run", "cleanup", "stopped", "exited"},
         left : SUBSET Carriers, cur : Tasks \cup {None}]

Init ==
  /\ pc = [x \in Coroutines |-> "idle"] /\ carrier \in [Tasks -> Carriers]
  /\ verifies = [v \in Verifiers |-> None]
  /\ chrome = {} /\ default = None
  /\ registry = [c \in Carriers |-> None] /\ active = [c \in Carriers |-> None]
  /\ checkers = [t \in Tasks |-> 0] /\ dying = {}
  /\ stop = [phase |-> "run", left |-> {}, cur |-> None]
  /\ overlapped = {} /\ cut = {} /\ quiet = TRUE /\ deaths = 0

Running == stop.phase # "exited"
Step(x, from, to) == Running /\ pc[x] = from /\ pc' = [pc EXCEPT ![x] = to]
----------------------------------------------------------------------------
(* PlaywrightRunner                                                        *)

\* new_context is entered by a login that begins, by one whose stored cookies
\* led nowhere (its first context is closed by then), or by a verifier
Enters(x, to) ==
  \/ x \in Tasks /\ stop.phase = "run" /\ Step(x, "idle", to) /\ UNCHANGED checkVars
  \/ x \in Tasks /\ Step(x, "closing", to) /\ UNCHANGED checkVars
  \/ /\ x \in Verifiers /\ stop.phase = "run" /\ Step(x, "idle", to)
     /\ \E t \in Tasks : /\ checkers[t] > 0
                         /\ checkers' = [checkers EXCEPT ![t] = @ - 1]
                         /\ verifies' = [verifies EXCEPT ![x] = t]

\* _terminate_process_group at the end of finally
Terminated(x) == {Cdp(x)}

\* _ensure_default_browser: no lock is held over the launch, so a second one
\* that comes meanwhile launches another browser
EnterDefault(x) ==
  /\ Enters(x, IF default = None THEN "launching" ELSE "opening")
  /\ overlapped' = overlapped \cup
       {k \in {"default"} : default = None /\ \E y \in Coroutines : pc[y] = "launching"}
  /\ chrome' = chrome \ Terminated(x)
  /\ UNCHANGED <<carrier, default, registry, active, dying, stop, cut, quiet, deaths>>

Launched(x) ==
  /\ Step(x, "launching", "opening") /\ stop.phase # "stopped"
  /\ chrome' = chrome \cup {Default(x)} /\ default' = x
  /\ UNCHANGED <<carrier, repairVars, stop, noteVars>>

\* new_context on whatever is in _browser by now
Opened(x) ==
  /\ Step(x, "opening", "inside") /\ default # None /\ Default(default) \in chrome
  /\ UNCHANGED <<carrier, chrome, default, repairVars, stop, noteVars>>

\* _new_chrome_cdp_context, up to its first await
EnterCdp(x) ==
  /\ Enters(x, "cdpWait") /\ chrome' = chrome \cup {Cdp(x)}
  /\ UNCHANGED <<carrier, default, registry, active, dying, stop, noteVars>>

Connected(x) ==
  /\ Step(x, "cdpWait", "inside") /\ Cdp(x) \in chrome /\ stop.phase # "stopped"
  /\ UNCHANGED <<carrier, chrome, default, repairVars, stop, noteVars>>

\* the body is left, by its end or by an exception, and finally awaits
\* browser.close() resp. ctx.close()
Leave(x) ==
  /\ Step(x, "inside", "closing")
  /\ UNCHANGED <<carrier, chrome, default, repairVars, stop, noteVars>>

\* the login is done
Closed(t) ==
  /\ Step(t, "closing", "over") /\ chrome' = chrome \ Terminated(t)
  /\ UNCHANGED <<carrier, default, repairVars, stop, noteVars>>

\* its context was left, by whatever way, or could not be entered
Ended(x, to) ==
  \E from \in {"launching", "opening", "cdpWait", "closing"} : Step(x, from, to)

\* _verify_fix has its answer; its caller goes on
Verified(v) ==
  /\ Ended(v, "idle") /\ chrome' = chrome \ Terminated(v)
  /\ checkers' = [checkers EXCEPT ![verifies[v]] = @ + 1]
  /\ verifies' = [verifies EXCEPT ![v] = None]
  /\ UNCHANGED <<carrier, default, registry, active, dying, stop, noteVars>>
----------------------------------------------------------------------------
(* _prune_stale cancels the login of a session that is too old: the        *)
(* CancelledError comes up at its await, and no except Exception takes it  *)

\* Playwright's driver goes on launching, for nobody
CutLaunching(t) ==
  /\ stop.phase = "run" /\ Step(t, "launching", "over")
  /\ chrome' = chrome \cup {Default(t)} /\ cut' = cut \cup {Default(t)}
  /\ UNCHANGED <<carrier, default, repairVars, stop, overlapped, quiet, deaths>>

\* there is nothing to close yet: a context of the shared browser, or a Chrome
\* that is not connected and is terminated at once
CutOpening(t) ==
  /\ stop.phase = "run" /\ Step(t, pc[t], "over") /\ pc[t] \in {"opening", "cdpWait"}
  /\ chrome' = chrome \ Terminated(t)
  /\ UNCHANGED <<carrier, default, repairVars, stop, noteVars>>

\* finally closes the context with an await of its own
CutInside(t) ==
  /\ stop.phase = "run" /\ Step(t, pc[t], "cutting") /\ pc[t] \in {"cdpWait", "inside"}
  /\ UNCHANGED <<carrier, chrome, default, repairVars, stop, noteVars>>

CutClosed(t) ==
  /\ Step(t, "cutting", "over") /\ chrome' = chrome \ Terminated(t)
  /\ UNCHANGED <<carrier, default, repairVars, stop, noteVars>>

\* the rest of finally, resp. of spawn, is skipped, and its process is left
CutLeaving(t) ==
  /\ stop.phase = "run" /\ Step(t, pc[t], "over") /\ pc[t] \in {"closing", "spawning"}
  /\ cut' = cut \cup (chrome \cap {Cdp(t), Repair(t)})
  /\ UNCHANGED <<carrier, chrome, default, repairVars, stop, overlapped, quiet, deaths>>
----------------------------------------------------------------------------
(* capture_and_kick, which the login's error handler gets to without an    *)
(* await, up to the look-up in spawn                                       *)

\* _kick; first turn and cadence loop may both end the repair it starts
Kicked(t) ==
  IF active[carrier[t]] = None
  THEN /\ active' = [active EXCEPT ![carrier[t]] = t]
       /\ checkers' = [checkers EXCEPT ![t] = 2]
  ELSE UNCHANGED <<active, checkers>>

\* mutant: the browser that is there is not looked for
NeverReusable(c) == FALSE

Reusable(c) == registry[c] # None /\ Repair(registry[c]) \in chrome

\* REPAIR_ENABLED is off
Unrepaired(t) ==
  /\ Ended(t, "over") /\ chrome' = chrome \ Terminated(t)
  /\ UNCHANGED <<carrier, default, repairVars, stop, noteVars>>

\* a living browser of the carrier is reused, or no state was saved to load
NoSpawn(t) ==
  /\ Ended(t, "over") /\ chrome' = chrome \ Terminated(t) /\ Kicked(t)
  /\ UNCHANGED <<carrier, verifies, default, registry, dying, stop, noteVars>>

\* spawn releases its lock after the look-up and takes it again to register
Spawn(t) ==
  /\ Ended(t, "spawning") /\ ~Reusable(carrier[t])
  /\ chrome' = (chrome \ Terminated(t)) \cup {Repair(t)}
  /\ overlapped' = overlapped \cup
       {c \in {carrier[t]} : \E u \in Tasks : carrier[u] = c /\ pc[u] = "spawning"}
  /\ UNCHANGED <<carrier, default, repairVars, stop, cut, quiet, deaths>>

\* overwrites what a spawn that overlapped has registered meanwhile
Registered(t) == [registry EXCEPT ![carrier[t]] = t]

Spawned(t) ==
  /\ Step(t, "spawning", "over") /\ Repair(t) \in chrome
  /\ registry' = Registered(t) /\ Kicked(t)
  /\ UNCHANGED <<carrier, verifies, chrome, default, dying, stop, noteVars>>

\* mutant: a chromium that could not be prepared is left running
NotTerminated(t) == {}

\* except Exception: _terminate(proc)
SpawnUndone(t) == {Repair(t)}

SpawnFails(t) ==
  /\ Step(t, "spawning", "over") /\ chrome' = chrome \ SpawnUndone(t) /\ Kicked(t)
  /\ UNCHANGED <<carrier, verifies, default, registry, dying, stop, noteVars>>
----------------------------------------------------------------------------
(* The end of a repair                                                     *)

Alive(t) == t # None /\ Repair(t) \in chrome

\* mutant: cleanup looks the browser up without taking it out
Forgotten(c) == registry

\* cleanup takes the browser out of the registry under its lock
TakenOut(c) == [registry EXCEPT ![c] = None]

\* _check_done and _timeout_repair pop the carrier, whatever is there, and
\* cleanup its browser, whoever spawned it; a living one is harvested first
Conclude(t) ==
  LET c == carrier[t]
  IN  /\ Running /\ checkers[t] > 0
      /\ active' = [active EXCEPT ![c] = None]
      /\ registry' = TakenOut(c)
      /\ dying' = dying \cup {u \in {registry[c]} : Alive(u)}
      /\ checkers' = [checkers EXCEPT ![t] = @ - 1]
      /\ UNCHANGED <<pc, carrier, verifies, chrome, default, stop, noteVars>>

\* mutant: a harvest that timed out skips the end of cleanup
HarvestedOnly(t) == {}

\* _terminate, after a harvest that never raises
CleanedUp(t) == {Repair(t)}

\* no failure of the harvest gets past it
Harvested(t) ==
  /\ Running /\ t \in dying /\ dying' = dying \ {t}
  /\ chrome' = chrome \ CleanedUp(t)
  /\ UNCHANGED <<pc, carrier, default, registry, active, checkVars, stop, noteVars>>

\* a first turn without result and STATUS pops its repair and no browser;
\* other checkers find nothing to conclude
Withdraw(t) ==
  /\ Running /\ checkers[t] > 0
  /\ checkers' = [checkers EXCEPT ![t] = @ - 1]
  /\ \/ active' = [c \in Carriers |-> IF active[c] = t THEN None ELSE active[c]]
     \/ UNCHANGED active
  /\ UNCHANGED <<pc, carrier, verifies, chrome, default, registry, dying, stop, noteVars>>

\* a chromium crashes
Dies(p) ==
  /\ Running /\ deaths < MaxDeaths /\ deaths' = deaths + 1
  /\ p \in chrome /\ chrome' = chrome \ {p}
  /\ UNCHANGED <<pc, carrier, default, repairVars, stop, overlapped, cut, quiet>>
----------------------------------------------------------------------------
(* lifespan's finally                                                      *)

UnderWay == {t \in Tasks : pc[t] \notin {"idle", "over"}}

\* what the cancelled and awaited coroutines of repairs leave alive: a verifier
\* closes its context unless it was closing it already; a launch goes on
LeftByVerifiers ==
  (chrome \ {Cdp(v) : v \in {w \in Verifiers : pc[w] # "closing"}})
    \cup {Default(v) : v \in {w \in Verifiers : pc[w] = "launching"}}

\* the cadence loop and the turns are cancelled, a cleanup in one of them too,
\* which leaves the browser it had taken out; then cleanup_all lists the rest
CancelRepairs ==
  /\ stop.phase = "run"
  /\ quiet' = (UnderWay = {} /\ dying = {} /\ \A v \in Verifiers : pc[v] # "closing")
  /\ pc' = [x \in Coroutines |-> IF x \in Verifiers THEN "over" ELSE pc[x]]
  /\ chrome' = LeftByVerifiers
  /\ checkers' = [t \in Tasks |-> 0] /\ dying' = {}
  /\ verifies' = [v \in Verifiers |-> None]
  /\ stop' = [stop EXCEPT !.phase = "cleanup",
                          !.left = {c \in Carriers : registry[c] # None}]
  /\ UNCHANGED <<carrier, default, registry, active, overlapped, cut, deaths>>

CleanNext(c) ==
  /\ stop.phase = "cleanup" /\ stop.cur = None /\ c \in stop.left
  /\ stop' = [stop EXCEPT !.left = @ \ {c},
                          !.cur = IF Alive(registry[c]) THEN registry[c] ELSE None]
  /\ registry' = TakenOut(c)
  /\ UNCHANGED <<pc, carrier, chrome, default, active, checkVars, dying, noteVars>>

CleanDone ==
  /\ stop.cur # None /\ stop' = [stop EXCEPT !.cur = None]
  /\ chrome' = chrome \ CleanedUp(stop.cur)
  /\ UNCHANGED <<pc, carrier, default, repairVars, noteVars>>

\* runner.shutdown closes the browser it knows; Playwright ends with it, and
\* every browser Playwright launched
StopRunner ==
  /\ stop.phase = "cleanup" /\ stop.cur = None /\ stop.left = {}
  /\ stop' = [stop EXCEPT !.phase = "stopped"] /\ default' = None
  /\ chrome' = {p \in chrome : p.kind # "default"}
  /\ UNCHANGED <<pc, carrier, repairVars, noteVars>>

\* the event loop cancels what is left and goes, with the same outcomes as above
LoopEnds ==
  /\ stop.phase = "stopped" /\ stop' = [stop EXCEPT !.phase = "exited"]
  /\ chrome' = {p \in chrome : ~(p.kind = "cdp" /\ pc[p.by] \in {"cdpWait", "inside"})}
  /\ UNCHANGED <<pc, carrier, default, repairVars, noteVars>>

Next ==
  \/ \E x \in Coroutines :
       \/ EnterDefault(x) \/ Launched(x) \/ Opened(x) \/ EnterCdp(x) \/ Connected(x)
       \/ Leave(x)
  \/ \E t \in Tasks :
       \/ Closed(t) \/ Unrepaired(t) \/ NoSpawn(t) \/ Spawn(t) \/ Spawned(t) \/ SpawnFails(t)
       \/ CutLaunching(t) \/ CutOpening(t) \/ CutInside(t) \/ CutClosed(t) \/ CutLeaving(t)
       \/ Conclude(t) \/ Harvested(t) \/ Withdraw(t)
  \/ \E v \in Verifiers : Verified(v)
  \/ \E p \in Process : Dies(p)
  \/ CancelRepairs \/ CleanDone \/ StopRunner \/ LoopEnds
  \/ \E c \in Carriers : CleanNext(c)

Spec == Init /\ [][Next]_vars
----------------------------------------------------------------------------
\* Every variable has its type; the registry files a browser under its carrier.
BrowserTypes ==
  /\ pc \in [Coroutines -> PCs] /\ carrier \in [Tasks -> Carriers]
  /\ verifies \in [Verifiers -> Tasks \cup {None}]
  /\ chrome \subseteq Process /\ cut \subseteq Process /\ default \in Coroutines \cup {None}
  /\ registry \in [Carriers -> Tasks \cup {None}]
  /\ active \in [Carriers -> Tasks \cup {None}]
  /\ checkers \in [Tasks -> Nat] /\ dying \subseteq Tasks /\ stop \in Stop
  /\ overlapped \subseteq Carriers \cup {"default"} /\ quiet \in BOOLEAN
  /\ \A c \in Carriers : registry[c] # None => carrier[registry[c]] = c

\* who still refers to a process, and so will end it
Held(p) ==
  CASE p.kind = "default" -> default = p.by
    [] p.kind = "cdp" -> pc[p.by] \in {"cdpWait", "inside", "closing", "cutting"}
    [] p.kind = "repair" -> \/ pc[p.by] = "spawning"
                            \/ registry[carrier[p.by]] = p.by
                            \/ p.by \in dying \/ stop.cur = p.by

\* While the service runs every chromium is held by someone who will end it:
\* the only ways to lose one are two launches of the default browser, or two
\* spawns for one carrier, that overlapped (playwright_runner.py:48-53,
\* repair_browser.py:110-118 and 220-221), and a login that is pruned while it
\* launches, spawns or closes its own Chrome (session_manager.py:326-327).
LostByRaceOnly ==
  stop.phase = "run" =>
    \A p \in chrome \ cut : \/ Held(p)
                            \/ p.kind = "default" /\ "default" \in overlapped
                            \/ p.kind = "repair" /\ carrier[p.by] \in overlapped

\* Outside of such overlaps a carrier has one repair browser, besides those that
\* are being cleaned up and those whose login was pruned in the middle of the
\* spawn, however kicks, crashes, conclusions and stale conclusions interleave:
\* no two share the carrier's cookies.
OneRepairBrowser ==
  \A c \in Carriers \ overlapped :
     Cardinality({p \in chrome \ cut : p.kind = "repair" /\ carrier[p.by] = c
                                       /\ p.by \notin dying /\ stop.cur # p.by
                                       /\ stop.phase = "run"}) <= 1

\* A teardown that begins while no login and no cleanup is under way, and no
\* verifier is closing its Chrome, leaves no chromium behind
\* (repair_browser.py:11-12), unless one of a login or a repair was lost before;
\* verifiers that launch, connect or replay are cancelled by it.
QuietExitIsClean ==
  stop.phase = "exited" /\ quiet
  /\ overlapped \subseteq {"default"} /\ (\A p \in cut : p.kind = "default")
    => chrome = {}

\* A browser that is being harvested is not one a spawn could hand out: what
\* cleanup is about to kill is in no registry, and no two cleanups kill it
\* (repair_browser.py:236-237).
DyingIsTakenOut ==
  LET cur == {t \in {stop.cur} : t # None}
  IN  /\ \A t \in dying \cup cur : registry[carrier[t]] # t
      /\ dying \cap cur = {}

\* A run checks the two together: the processes are well-formed, and none that
\* is being killed can be handed out (repair_browser.py:236-237).
BrowserInv == BrowserTypes /\ DyingIsTakenOut
----------------------------------------------------------------------------
(* What the documents say and the code does not do                         *)

\* repair_browser.py:11-12: cleanup_all is called from the lifespan's teardown
\* so app shutdown does not leak chromium.
NoChromiumLeft == stop.phase = "exited" => chrome = {}

\* repair_browser.py:9-11: the chromium lives until the repair is over, at which
\* point it is killed.
NoBrowserWithoutRepair ==
  \A c \in Carriers :
    (\A t \in Tasks : carrier[t] = c =>
        /\ pc[t] \in {"idle", "over"} /\ checkers[t] = 0
        /\ \A v \in Verifiers : verifies[v] # t)
    /\ active[c] = None /\ stop.phase = "run" => ~Alive(registry[c])
=============================================================================
