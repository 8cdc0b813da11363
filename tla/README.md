# Infer carrier portal: TLA+ models and proofs

The program logs in to an insurance carrier's web site for a user, downloads
the policy documents, streams its progress to the browser, and, when a login
fails or the user says the documents are wrong, lets a `claude` process repair
the carrier adapter in the background. It is one asyncio process: handlers,
background logins, timers and the repair loop are coroutines that interleave at
their awaits only, and the models are cut exactly there. Everything between two
awaits is one TLA+ action.

All paths below are relative to `src/backend/` unless they say otherwise.

## 1. Inventory

| component | state it keeps | operations | hard behaviours | what makes it correct |
|---|---|---|---|---|
| `slot_manager.py` | `_slots` (uid → slot), `_carrier_owners` (carrier → uid) | `claim`, `tick`, `release`, `release_session`, `prune_stale` | two dicts to keep in step; a TTL that every claim sweeps | the dicts agree; one uid per carrier; no steal from a live owner; nobody is locked out by a silent one |
| `session_manager.py`, `models.py` | sessions with state, documents, MFA event and code, subscribers, repair flags, task | create, transition, set_docs, publish_docs_progress, set_error, request_mfa, submit_mfa, subscribe, publish_repair_*, prune | MFA timer against a late code; two tabs; pruning a session cancels its login at whatever await it is; persisting, which may raise, between state and event | first code wins; subscribers see the session as it is; what was announced survives a restart |
| `orchestrator.py` | the coroutine of a login | quick path (direct fetch, check, fetch), full login, MFA, auth state, fetch, error handler | every await may raise, also the closing of a browser that has already served; three places that fetch | ends; never DONE without documents; a connected browser hears the outcome |
| `main.py` | handlers; no state of its own | login, mfa, status (SSE), feedback, docs, cache | slot claimed twice in one handler; stream end releases the slot; a stream held open for a repair | a slot points at its owner's session; reload resumes |
| `carriers/*` | one flow object per carrier, with one progress callback | login, MFA, fetch, emit | logins of one carrier share the callback; a click answers in one of four ways, at any time, or late; a page is counted and ranked at two awaits; two buttons may give one document | no session lists another's documents; each policy has its document, and of those that were counted the newest |
| `auto_repair.py` | `_active` (carrier → entry), files `STATUS`, `delivered/`, the adapter source | capture_and_kick, first turn, cadence tick, resume, check, verify, time out | two coroutines check one file; the file is rewritten by another process and may not be readable; verification and wall timers; awaits without a timeout | a DONE verdict is verified; the carrier is repairable again; the waiting page is told |
| `repair_deliver.py` | `delivered.json` | deliver_if_present | session pruned before delivery | the marker means a delivery |
| `feedback_recovery.py` | `feedback_repair_active`, `repair_kicked` | trigger | a flag tested before an await and set after it | the asker gets a repair or a verdict |
| `result_store.py` | one JSON and the PDFs of each session, an index by uid | save_done, load_status, prune, latest_for_uid | crash between files; a pruning that fails half-way | the cached answer is complete and the newest |
| `worker_proxy.py` | its own sessions | login, status_stream, submit_mfa, get_doc | answers lost, requests that arrive late, streams that break inside an event or fall silent; pruning here and there | the browser hears what the worker said, in its order; an acceptance is told only if there was one, and a retry is safe |
| `repair_browser.py`, `playwright_runner.py` | chromium processes, contexts | spawn, cleanup, new_context | concurrent launch, harvest on cleanup, cancellation by pruning and at shutdown, crashes | one browser per carrier, none leaked |
| `auto_repair_patches.py` | recorded patches, a git branch | record, apply_pending, push_to_branch | several repairs edit one tree; a patch that git refuses at a start; restarts in place and new containers | a pending patch is live and needed; a merged one is retired; a fix survives restarts |
| `email_notifier.py` | watchers | schedule_watch, _watch | an event that is never cleared; a session pruned or saved over while it is watched; deadline | links lead to the documents; every watcher ends |
| `pdf_analyzer.py`, `storage.py`, `identity.py`, `config.py`, `env_flags.py`, `logging_config.py` | none of their own | pure functions and one-file I/O | parsing of foreign text | the reference parse |
| `src/frontend/app.js`, scripts | the page | renders; opens, closes and posts | a closing tab | (its calls are actions of the models) |

How they interact: `main.login` claims a slot, mints a session and starts
`execute_login`; that coroutine changes the session, which queues an event for
every SSE stream; each event or heartbeat ticks the slot, and the end of a
stream releases it. A failed login, or bad feedback, awaits `capture_and_kick`,
which puts an entry into `_active` and starts a first turn; first turn and
cadence loop both check `STATUS`, and publish the verdict to the session. An
accepted fix is recorded as a patch, pushed to a branch, and applied again at
the next start. For some carriers `main` hands login, MFA and stream to the
worker proxy, which forwards them to the same program on another machine.

## 2. Modules and their correspondence with the code

| module | models | notes |
|---|---|---|
| `SlotManager.tla` | `slot_manager.py`, whole | both dicts as functions; each method one action; operators on the pair `SM`, so that other modules can compose them |
| `CarrierLease.tla` | what callers rely on | abstract: a carrier has a holder or none; a holder is replaced in one step only when silent for longer than the TTL |
| `Portal.tla` | `main.py` login/status/feedback over the slots, the sessions and the running logins | EXTENDS `SlotManager`; a login is reduced to entering and leaving the document fetch, because what is composed here is slots, streams and the shared progress callback |
| `LoginFlow.tla` | `execute_login`, the session, its MFA hand-over and TTL, its streams, the stored result | one action per await; no slots |
| `Repair.tla` | `auto_repair.py`, `repair_deliver.py`, `feedback_recovery.py` | one carrier, because `_active` is keyed by carrier; the cadence loop, which all carriers share, may be delayed by the others between its snapshot (`Tick`) and its look at this one (`Look`) |
| `PatchStore.tla` | `_persist_and_push_patch`, `auto_repair_patches.py`, the start of the container | a tree is the set of fixes in it |
| `Browsers.tla` | `playwright_runner.py`, `repair_browser.py`, their callers, `lifespan` | who starts, holds and ends each chromium |
| `ResultStore.tla` | `result_store.py`, `set_docs`, `/api/cache`, `/api/docs` | a save may stop at any file |
| `EmailNotifier.tla` | `email_notifier.py`, `notify_endpoint` | EXTENDS `ResultStore`: mails are checked against what is then served |
| `WorkerProxy.tla` | `worker_proxy.py`, and the worker as its clients see it | the stream as lines on a wire |
| `ClickRace.tla` | `_click_for_first_document` of `carriers/usaa.py` | one call: four racers, one click, effects that may come late |
| `UsaaFetch.tla` | `fetch_documents` of `carriers/usaa.py` and all it calls | EXTENDS `ClickRace`: makes the calls |
| `PortalProofs.tla` | theorems about `SlotManager` and `Portal` | the second part cites the slots' lemmas of the first |
| `LoginFlowProofs.tla` | theorems about `LoginFlow` | |
| `RepairProofs.tla` | theorems about `Repair` | |
| `PatchStoreProofs.tla` | theorems about `PatchStore` | uses FiniteSetTheorems |
| `BrowsersProofs.tla` | theorems about `Browsers` | uses FiniteSetTheorems |
| `ResultProofs.tla` | theorems about `ResultStore` and `EmailNotifier` | |
| `WorkerProxyProofs.tla` | theorems about `WorkerProxy` | uses SequenceTheorems |
| `UsaaFetchProofs.tla` | theorems about `UsaaFetch` and the `ClickRace` below it | uses FiniteSetTheorems |
| `MC*.tla` | TLC instances | symmetry sets; `MCUsaaFetch` also the documents and listings |

**SlotManager.** `slots` and `carrierOwners` are `_slots` and
`_carrier_owners`. `last_seen` becomes `idle`, the time since the slot was last
heard, capped one above the TTL: only "older than the TTL" is ever asked.
`Released` keeps the order of `_release_internal` (the owner entry is deleted
only if it still names this uid). `Claimed` sweeps first, then tests, then
releases another carrier of the same uid, like `claim`.

**Portal.** `Begin` is the handler from the first claim (placeholder session
`""`, here `NoSession`) over `manager.create` (which prunes and cancels) to the
second claim: there is no await between them. `Close` is the `finally` of the
stream's generator. `ProxyLogin` is the branch for carriers served by the
worker; its stream (`CloseProxy`) never touches the slots, as in
`worker_proxy.status_stream`. `wired` is the one progress callback per carrier.
The variable `polite`, chosen once at the start, says whether the users of this
behaviour wait for their login in one open tab; some invariants need that, the
others hold for every user. `SaveFails` is a `set_docs` whose save raises: the
session is DONE (`half`), nobody was told, and its login goes on (`GoesOn`), to
the login form or to the error handler. A stream that opens in between is shown
DONE and ends; the polite do not open one there.

**LoginFlow.** `task[s].pc` names the await at which the coroutine of `s`
stands. `Fetch` and `Save` stand for the three places that fetch and save
(direct, quick, full); the tables `AfterFetch`, `FetchFailed` and `SaveFailed`
say where each goes on. `Save` splits `set_docs` at its failure points: state
changed, metadata written, event published. `task[s].usaa` distinguishes the
adapter with a direct fetch, a login context and progress reports from the
others.

**Repair.** `entry` is the sequence of all entries ever put into `_active`,
`active` the index of the current one; `proc` holds the first turn of each
entry and the cadence loop, with the file each has read. `Check` is
`_check_done` up to its first await; `Verified`, `Persisted` and `Concluded`
are its continuations. `NotDone` is what the caller does with a False, `Raises`
what it does when the check raises, as it does where STATUS cannot be read as
text: the first turn takes that for a False, a tick is over before the wall
timer and before the carriers behind this one. `Skipped` is such an end of a
tick by a carrier before this one. `ClaudeWorks` is the other process: it
writes STATUS, or garbles it, fills `delivered/` or edits the adapter at any
moment of its turn. The wall timer may fire at each look that finds the repair
not done: a first turn is killed after 300 s, but what follows its kill is
awaited without a timeout, so that 5 h may pass wherever the repair waits.
Feedback wants documents, which a login that goes on (`LoginShows`) or has
failed may have shown too; `early` remembers the first case.

**PatchStore.** `tree` is the working tree of `/app`, `image` its baseline
commit, so that `Diff == tree \ image` is what `git diff HEAD` prints: it holds
the fix that was verified, what earlier patches brought back, and what other
repairs are just trying out. `job[f]` is `_persist_and_push_patch` after the
verifier's accept: diff and record (`Capture`), clone of main (`Clone`), apply,
commit and push (`Publish`), each of which may fail and is then only logged
(`GiveUp`). A recording that is cut off leaves a part of the diff: some of its
changes whole, or, if it ends inside one, a file of which git takes nothing
(`Corrupt`). `Boot` lists the patches; `BootPatch` takes them by name, one at a
time, as `apply_pending` does before uvicorn starts. Where git decides (does
the patch apply to a tree that moved?), both answers are possible unless a fix
of the patch is in the tree already. `Restart` keeps the working tree of the
container, `Recreate` makes a new one from the same or a later main.

**Browsers.** A process is a record of what it is and which coroutine started
it; `chrome` is the set of the living ones. The coroutines are the logins
(`Tasks`) and the verifiers, which replay a repair's fix in a context of their
own. `pc[x]` is the await at which one stands: the launch of the default
browser, `new_context`, the connection over CDP, the body, `close`, or the
spawn of a repair browser in a login's error handler. `registry` is
`_repair_browsers`; `Spawn` and `Spawned` are the two halves of `spawn` around
the launch, with the lock released in between. `Conclude` is what `_check_done`
and `_timeout_repair` do to the carrier and its browser; `checkers` counts the
coroutines that may still do it, and a stale one does it to whatever is there.
`dying` are the browsers a `cleanup` has taken out and is harvesting.

The `Cut...` actions are the pruning of a session, which cancels its login at
whatever await it is: inside `finally` or at an await that has nothing to clean
up yet all is well (`CutOpening`, `CutInside`); a launch goes on for nobody
(`CutLaunching`); at `browser.close()` and inside `spawn` no `except` takes the
CancelledError, and the rest is skipped (`CutLeaving`). `cut` remembers the
processes of the last two kinds. The teardown of `lifespan` is `CancelRepairs`,
which cancels the verifiers too, `CleanNext` and `CleanDone` (`cleanup_all`),
`StopRunner` and `LoopEnds`. `quiet` notes that when it began no login and no
cleanup was under way, and no verifier was closing its Chrome.

**ResultStore.** Saves are numbered, and the number stands for the time of the
save and for the bytes it wrote. `Save` is the whole of `set_docs`, with the
point (`docs`, `meta`, `index`) at which an exception may end it: a file that
is being written when it stops is `torn`, and `cut` remembers the session. A
document of `Bare` is listed without bytes, and no file is written for it; no
caller lists one, but the code allows it. `Ages` moves `horizon`, the saves
that are a TTL old. `Pruned` ignores all errors, as
`rmtree(ignore_errors=True)` does: any file of a pruned session may stay, its
`metadata.json` included. `CacheAnswer` is what `cache_endpoint` would answer
now, `Served` what `get_doc` might.

**EmailNotifier.** A watcher holds the session object, which survives its
pruning: `docs` is kept for pruned sessions. `Plan` is `_build_plan`; `kept`
and `stale` record, for the properties, whether the documents had been saved by
then and whether another repair was running.

**WorkerProxy.** `worker[l]` is the session of login `l` on the worker,
`entry[l]` the creation time in `_sessions` of this process. The worker forgets
a session lazily (`WorkerForgets`: at a later login there, long after the TTL
or never, or by a restart) and then serves the stored result, if there is one
that is not old (`Stored`). `conn[l].wire` are the lines of the worker's stream
that are on their way, `buf` the buffer of `_iter_sse`, `got` what the browser
was given. `Breaks` cuts the wire anywhere, in order or with an error;
`Vanishes` is the connection that is lost without a sign, for which the proxy,
reading with `timeout=None`, waits. `Comments` are the pings of sse_starlette.
A request or its answer may be lost (`LoginLost`, `MfaLost`) before or after
the worker has acted, and the worker may act when the proxy has already
answered 502 (`Taken`, `Handled`).

**ClickRace and UsaaFetch.** A click chooses the effects it will have from
`Reactions`; each arrives (`Arrive`) at some time, during its call, later, or
never. `queue` is `response_queue`, `racer` the four tasks; a racer that has
its event is `due` until it resumes, and may be cancelled before. `Wins` is
`as_completed` with the cancellation of the others, `Deadline` the two waits
that end at different times: for a download or a pop-up from before the click,
for a response from after it. In `UsaaFetch`, `call` is the running
`_fetch_document_buttons` (or the loop over named actions), `left` what remains
of the lists that `fetch_documents` goes through, `keys` is
`selected_policy_keys`, `docs` is `all_docs` and `shown` the last progress
report. `Before` is the sort key of the candidates. What a page lists is chosen
from `Listings[path]` each time it is looked at: once for the count, once for
the ranking, which may also fail and leave the page's buttons as they are
(`List`). `BodyOf` are the bytes of a button's document, which two buttons may
share: `Merged` then leaves the second out, and `Keep` notes its policy all the
same. `Addressed` is `buttons.nth(index)`: another button than the one that was
ranked, if the page has moved; `late` counts this with what comes late.

## 3. Runs

| run | what it asks | instance | shows |
|---|---|---|---|
| `slots` | do the methods of SlotManager, called in any order, keep an exclusive lease? | 3 uids, 2 carriers, 2 sessions, TTL 1 | `SlotInv` (types, `DictsAgree`), `CarrierExclusive`, and refinement of `CarrierLease` (`LeaseSpec`) |
| `portal` | do handlers, streams and logins use the slots correctly? | 2 uids, 2 carriers (one behind the worker), 2 sessions, 2 tabs, saves that raise | `PortalInv` (types, a slot points at its owner's session), `NoTaskWithoutSession`, `OneAttached`, `PoliteDrivers`, `OwnDocsOnly`, `RefusedByLiveOwner` |
| `login` | is a login right, whatever fails at whatever await, with a restart in between; does it end, and is it seen? | 1 session, 1 stream, 2 codes, 2 documents, 1 report, 1 crash | `WellFormed` (types, never DONE without documents), `FirstCodeWins`, `StreamsFollow`, `AnnouncedIsDurable`, `EndsAsStored`, `LoginEnds`, `OutcomeIsSeen` |
| `repair` | is a verdict earned and a delivery real? | 1 session, 2 kickers, 2 repairs; claude writes STATUS, downloads and patches | `RepairInv` (types, a marker means a delivery), `DoneVerdictVerified` |
| `repair_live` | does a repair end, and does the loser hear of it? | 2 sessions compete, 1 repair; claude writes STATUS or garbles it | `KickedIsAnswered`, `RepairEnds` |
| `patches` | are pending patches needed and live, and merged ones retired? | 2 fixes, 3 starts | `PatchInv` (types, `DeployRetiresPatch`), `PendingIsLive`, `LonePatchReturns` |
| `browsers` | is every chromium held by someone who will end it? | 2 logins, 2 verifiers, 2 carriers, 1 crash, 1 shutdown | `BrowserInv` (types, `DyingIsTakenOut`), `LostByRaceOnly`, `OneRepairBrowser`, `QuietExitIsClean` |
| `results` | is what the cache lists the latest, and can it be fetched? | 2 sessions, 2 carriers, 2 documents, one of them without bytes, 3 saves, 1 restart | `StoreInv` (types, `ListedIsServed`), `CacheAnswersLatest` |
| `mail` | do the links of a mail lead to its documents, does a watcher end? | 1 session, 2 documents, 2 saves, 1 restart | `MailInv` (types, `LinksServed`), `WatcherEnds` |
| `proxy` | does a browser hear what the worker said, and is a retry of a code safe? | 1 login, 2 MFA calls, TTL 0, 1 tick, 1 stream with 1 heartbeat | `ProxyInv` (types, `AcceptedByWorker`), `StreamInv` (`RelayFaithful`, `OutcomeIsLast`), `RetryIsSafe`, `StreamEnds` |
| `fetch` | does USAA's fetch give each policy its document, and the newest it has counted? | 4 buttons, 2 of which give the same bytes, 2 policies, 2 centers, 1 account, 1 search, 1 URL, 1 late effect or moved row | `ShownIsKept`, `OneOfEachPolicy`, `BestOfListing` |
| `patches_lost` | does a verified fix survive restarts, as the code's comment says? | 2 fixes, 2 starts | a counterexample to `FixesSurvive`, see section 6 |

Each run checks the type invariant of its module; in most of them it is a named
conjunct of the run's first invariant, next to one safety property.

**Bounds and why they are enough.** Slots: every property relates at most two
uids and two carriers; a third uid lets a third party act between them; a TTL
of 1 already gives fresh, idle and stale. Portal: each property relates at most
two sessions, and two are enough to have one pruned by the creation of the
other; three sessions did not end within minutes and added no violation where
two gave none. Login: the properties are about one session; two codes race, two
documents make "as many as on disk" say something, and one report may come
before, between and after the saves. Pruning by a second session is in
`portal`. Repair: two kicks give a repair and a successor whose files the first
left behind; two kickers race for the entry. `repair` is about what claude
leaves behind, and an unreadable STATUS leaves nothing; it is in `repair_live`,
where two sessions compete for one entry and the question is whether the loop
gets to the wall timer.

Patches: two fixes give a patch that holds the other's fix, whole or cut off,
and one that conflicts; the first start may put a patch away, the second may
need it, and the third finds what both have left. The proofs are for any number
of fixes. Browsers: two logins overlap on one carrier or come one after the
other, two verifiers do so with each other and with the teardown; more than one
crash only removes processes that the invariants speak of anyway. Results: a
save, one over it, and one of another session of the same carrier; the second
carrier shows that entries do not mix. Mail: one session, because a watcher
reads its own only; a second save makes the mail's documents the older ones.
Proxy: one login, because no state is shared between two; with a TTL of 0 one
tick is enough to make the answer of the login late and everything old, here
and there; two calls are what a retry needs. Streams are not related to each
other, so one connection per login is followed from its snapshot to its end.
Fetch: two buttons of one policy, one of another, and one of none are the least
with which skipping, falling back to an older document and going on to the next
policy differ; the newer of the first policy has the bytes of the second
policy's, so that the merge leaves one out; the listings of a page have one
button or several, so that one may be counted and the other ranked; two centers
let keys of the first meet listings of the second. The late effect, of which
`MaxLate` allows one, may be an answer, a pop-up, a viewer that stays open, or
a row that moves.

**Fairness.** `LoginFlow`: weak fairness of every step of a task, of the MFA
timer, and of the delivery of events to a connected browser; asyncio runs every
ready coroutine and every Playwright call has a timeout. Nothing is assumed of
the user, the TTL, or the operator. `Repair` names three kinds. `Clock`: the
loop comes round (`Tick`), and wall time passes whether or not it looks in a
young moment: strong fairness of "what it looks at is found too old".
`Reached`: strong fairness of its look at this carrier, which is an assumption
about the carriers before it, whose turns must end and whose checks must not
raise for ever. `Answers`: weak fairness of what the loop itself awaits. Some
of these awaits have no timeout in the code: the rest of claude's output
(`auto_repair.py:497`), git (`auto_repair_patches.py:294`), the verifier's
`new_page` and close calls (`auto_repair.py:759-799`). That they answer is an
assumption, and `RepairEnds` says nothing without it; one that hangs stops the
repairs of every carrier. Nothing is assumed of a first turn, which may hang
anywhere, or of what claude writes. `RepairEnds` excepts the repair whose
STATUS is unreadable again and again: the loop does not get to its wall timer
then (see `WallTimerEnds` in section 6). `EmailNotifier`: the deadline of
`wait_for` passes (`notify_wall_seconds`), and the POST to the mail service
ends within its client's timeout; nothing is assumed of repairs, saves or
pruning. `WorkerProxy`: lines that have arrived are read (`Relay`), and that is
all; nothing is assumed of the network, of the worker, or of the browser.
`StreamEnds` excepts the connection that was lost without a sign.

**Deadlock** is checked in `slots`, `login`, `portal` and `fetch`. `fetch` may
stop only where `fetch_documents` has returned or raised (`Ended`), and each of
its loops counts down, so the run also shows that a fetch is never stuck. The
other configurations set `CHECK_DEADLOCK FALSE`: once the bounded repairs,
starts, saves or logins are over, nothing is left to do.

## 4. What is proved

Every safety invariant and every action property that a run checks is also a
theorem, for every value of the constants. The theorems have the runs'
properties as their conclusions, unchanged. The assumptions on the constants
are the `ASSUME`s of the modules: bounds are natural numbers, a marker such as
`None` or `NoSession` is not one of the things it stands beside (`None \notin
Logins \cup Nat`, as an entry is a time or `None`; `"default" \notin Carriers`,
as `overlapped` holds both), logins and verifiers are different coroutines,
`LoginFlow` has a session id at all (a stream that is off names one), and
`Fixes` is finite.

All proofs have one form. A lemma for each action, or for the actions that
change the same things, says that it keeps the inductive invariant; below it,
one step for each part of the invariant that the action can disturb. The
invariant is a conjunction of named parts, and where the state is a function
over sessions, streams or processes the part is a predicate of one of them, so
that a step that changes one needs to be looked at for that one only.

The first part of `PortalProofs.tla`, about `SlotManager`, proves, for every
set of uids, carriers and sessions and every TTL in Nat (the constants are
otherwise unconstrained, except that the placeholder is not a session id):

- `SlotInvProved`: `Spec => []SlotInv` (types, and `DictsAgree`)
- `Exclusive`: `Spec => []CarrierExclusive`
- `NoStealProved`: `Spec => NoStealAlways` (a carrier changes hands in one call
  only when its owner was silent for longer than the TTL)
- `ImplementsLease`: `Spec => LeaseSpec`

The inductive invariant is `Good` = `Typed` and `Agree` of the pair of dicts:
every owner has a slot naming that carrier, and every slot's carrier is owned
by the slot's uid. `CarrierExclusive` alone is not inductive:
`_release_internal` finds the carrier through the slot, so a slot without its
owner entry would let a second uid claim the carrier while the first still
holds a slot on it. It follows from `Agree`, since an owner is unique. Lemmas
follow the helpers of the code: releasing a set of uids keeps the dicts good
(`ReleasedGood`, hence `PruneGood`), so does a claim (`ClaimedGood`) and the
passing of time (`AgesGood`); `ClaimOutcomes` says what a claim may leave
behind, which both `NoStealProved` and the refinement use. The refinement reads
`lease` off `carrierOwners` and `lapsed` off the stale slots; a step of
`SlotManager` is a grant, a freeing, a sweep, a lapse, a revival, or a stutter
of the lease (`ReleasedIsLeftover`, `HolderIsSlots`).

`PatchStoreProofs.tla` proves, for every finite set of repair sessions and
every number of starts:

- `PatchInvProved`: `Spec => []PatchInv` (types, and `DeployRetiresPatch`)
- `PendingIsLiveProved`: `Spec => []PendingIsLive`
- `LonePatchReturnsProved`: `Spec => []LonePatchReturns`

`PendingIsLive` speaks of the moments at which the service is up. The inductive
invariant `Inv` also says what holds while a start goes through the patches
(`ReachedIsLive`: those it has reached are live and not in the image), why a
new patch never shares its number with an old one, so that "reached" is well
defined (`Numbered`: renaming keeps the number of files, lemma `RenamedFiles`),
that a repair records one patch and edits no more after it (`ByOneRepair`: no
later `Revert` takes a verified fix out of the tree), and that a fix stays in
the tree from its edit to its diff (`FixesKept`). That the numbers stay within
the number of repairs is `InvTypes`: files are mapped one-to-one to repairs.
`LonePatchReturns` needs more (`LoneInv`): a patch changes nothing that its
base has, the image only goes on from a patch's base, and a start goes through
pending patches only (`Based`). So while the image is the base, no container
has been made of a later one, and at each start git finds, until it reaches the
patch, exactly the tree the patch was made for: "does not apply" is not among
its answers. Nor can a `Revert` take its fix out again, which would be another
repair's: that claude takes back no edits but its own is an assumption of the
model.

The second part of `PortalProofs.tla`, about `Portal`, for every set of uids,
carriers, sessions and tabs and both TTLs: `PortalInvProved`,
`NoTaskWithoutSessionProved`, `OneAttachedProved`, `OwnDocsOnlyProved`,
`PoliteDriversProved`, `RefusedByLiveOwnerProved`. The invariant `PInv` has the
slots' own `Good` from the first part; what a handler's claim, tick or release
leaves of the slots comes from lemmas about those operators. `Homes` ties a
slot to its session and its task, `TasksRun` a task to a session whose login
still goes on, `TabsHome` a tab to its uid. What concerns polite users is
`Tame`: an open session holds a slot that is not stale, no task was cancelled,
and a tab that can close leaves nothing open behind. `OwnDocsOnly` is about the
callback that logins share, and needs all of it: two running logins on one
carrier would be two open sessions with a slot on it, which `Agree` forbids.

`LoginFlowProofs.tla`, for any number of sessions, streams, codes, documents,
reports and crashes: `WellFormedProved`, `FirstCodeWinsProved`,
`StreamsFollowProved`, `AnnouncedIsDurableProved`, `EndsAsStoredProved`. The
invariant `LInv` has three predicates of a session and one of a stream.
`MfaInv` follows the code from the event to the portal: nothing is accepted
before the login asks, one code is accepted while it waits, and what the login
has got is what was accepted; `FirstCodeWins` speaks of its end only. `EndInv`
is `EndsAsStored` of one session, and inductive with the rest. `Sound` says of
every event that is queued or was sent, not only of the last, what
`AnnouncedIsDurable` says of those that announce documents; `Follows` is
`StreamsFollow` of one stream.

`RepairProofs.tla`, for any number of sessions, callers and repairs:
`RepairInvProved`, `DoneVerdictVerifiedProved`, `KickedIsAnsweredProved`,
`OwnVerdictProved`. The invariant `RInv` has one part for each process that
checks STATUS and one for each session. `ProcInv` carries "the verifier has
passed this claim" from the verifier over the awaits of `_check_done` to the
verdict, for the entry the process has in its hands, which need not be the
current one. Of a session, `Delivered` says what a marker rests on: documents
of one of its repairs, which only a login that was not over (`Early`) can
replace; `Repaired` says who may still deliver, and `Answered` what is left for
a page that waits. `Analyzing` is why a request that is folded leaves an answer
behind: only feedback is analyzed before it kicks. `Owned` is inductive with
`RInv`: it says of every STATUS, and of every claim that a process carries over
its awaits, which session's repair wrote it; `OwnVerdict` says it of the
verdict only.

`BrowsersProofs.tla`, for any number of logins, verifiers, carriers and
crashes: `BrowserInvProved`, `LostByRaceOnlyProved`, `OneRepairBrowserProved`,
`QuietExitIsCleanProved`. Who holds a chromium is certain only outside of
overlapping launches and of logins that were cancelled too late. So `CdpInv`,
`DefaultInv` and `SpawnInv` speak of what has not overlapped and was not cut:
there, one coroutine launches at a time, it found nothing there to use, and
what lives is registered, being launched or being cleaned up. `KilledInv` says
that what is being killed is in no registry and is killed once; `QuietInv`
carries what was true when a quiet teardown began through the awaits of
`lifespan`, with what `cleanup_all` has still before it.

`ResultProofs.tla`, for any number of sessions, carriers, documents, saves and
restarts: `StoreInvProved` and `CacheAnswersLatestProved` about `ResultStore`,
`MailInvProved` about `EmailNotifier`. `SavedWhole` says that behind a save
that was not interrupted session, metadata and, while the save is young, files
speak of the same documents. `LatestIndexed` is what `CacheAnswersLatest` needs
to be inductive: each readable save is named by the index, behind a later one,
or hidden by an entry that an interrupted save of its own carrier has left.
`MailBacked` says that a session whose documents are those of its mail has them
from metadata that exists or is old.

`WorkerProxyProofs.tla`, for any number of logins and calls, streams of any
length and any TTL: `ProxyInvProved`, `StreamInvProved`, `RetryIsSafeProved`.
`RelayFaithful` speaks of what was sent and what was heard; between the two are
lines, of which an event has two and a comment's block stands for none, cut
anywhere. `Counts` says that there is a function on the positions of the wire
that counts the events up to each line, with an event in the parser's buffer
behind a data line and none behind a blank one or a comment. Taking a line
moves the function by one position (`TailCounts`), sending an event extends it
(`MoreCounts`), and a break cuts it short (`BrokenCounts`). `CallInv` says of
each call what its answer rests on, and of the session that gave an acceptance
that it waits for no second code: whatever is late, it has gone on.

`UsaaFetchProofs.tla`, for every set of buttons, every listing, all that a
click may cause, every agreement of bytes and any number of centers, accounts,
searches, URLs and late effects (`RaceConstants` and `FetchConstants` are all
that is assumed): `ShownIsKeptProved`, `OneOfEachPolicyProved`,
`BestOfListingProved`. The invariant `FInv` has four parts. `RaceShape` and
`FetchShape` are types, and say which path a call may be on at which place;
what is in flight is finite, because `late` counts it. `Kept` says that what is
shown begins what is collected, and, at the change to the surface path, why
nothing has been shown that could be lost. `Prompt` holds until something comes
late or moves. `Mine`: all that is about, in flight, queued or in the hands of
a racer, is of the button that was clicked, so that the winner names it.
`InTurn`: that button is the first that is left in the ranking. `Ledger` has
two halves: `Filed` is `OneOfEachPolicy`, and needs `Ranked`, because what a
click gives is of a new policy only if the keys of the running call are those
of the center and of what the call has got; `BestOfListing` needs the rest of
`Ranked`: what was given came before what is left, and what gave nothing is
apart from both. Both speak of bytes, since a document may be there under the
name of another policy's button. What the loop of `_merge_documents` computes
is proved without induction: if an index broke the statement, there would be a
least one (`LeastNumber`, from the well-foundedness of < on Nat), and the step
to that one keeps it (`LoopExists`, `MergedGathers`).

The proofs corrected one definition: `RSServe` in `ResultStore` drew the
documents of a `Progress` from `SUBSET DocIds \ {{}}`, which is the power set
of `DocIds \ {{}}`, the empty set included. No adapter reports an empty list,
and it now draws from `(SUBSET DocIds) \ {{}}`. In `WorkerProxy`, `Finishes`
was said with a quantifier instead of a search.


## 5. What is only model-checked

- Every liveness property (`LoginEnds`, `OutcomeIsSeen`, `RepairEnds`,
  `WatcherEnds`, `StreamEnds`), and that `slots`, `login`, `portal` and `fetch`
  do not deadlock: the prover does neither liveness under fairness nor ENABLED.

## 6. Where the code and its documents part

One run ends with a counterexample: `FixesSurvive` (`patches_lost`).
`auto_repair_patches.py:16-18` says that "in-container hot patches survive
restarts until the human merges the GitHub branch and a new deploy rebases
everything". A container that is restarted in place still has the edit in its
tree; git answers "patch does not apply", which the code takes to mean that
main has the fix by now, and the file is renamed `.LANDED` (lines 136-143). The
next container of the same image starts without the fix. `LonePatchReturns`,
which holds, says how far the sentence is true.

The statements below are written in the modules too, most of them under the
comment or document they quote; the last four say what one may expect, and no
document promises it. TLC finds every one of them violated; they have no run of
their own, to keep the runs to the questions above. Each can be checked by
naming it in a copy of its module's configuration.

| statement | module | says | what the code does |
|---|---|---|---|
| `StreamHeldForRepair` | `LoginFlow` | main.py:138-142 | the error is published, and the stream may read `repair_kicked`, before `capture_and_kick` has set it |
| `DoneIsTerminal` | `LoginFlow` | main.py:138-139 | closing the browser after DONE may raise, and the handler turns the session into ERROR |
| `OneDriverPerCarrier` | `Portal` | slot_manager.py:6-8 | the end of a stream releases the slot while the login behind it goes on; the next user drives the carrier too |
| `ReloadResumes` | `Portal` | ARCHITECTURE.md:155 | when the reload's old stream ends before the new login, there is no slot left to resume |
| `ProxySlotReleased` | `Portal` | main.py:58-59 | the stream of a worker session ends and leaves its slot to the TTL |
| `NoOrphan` | `Repair` | ARCHITECTURE.md:164 | a first turn that ends without a result, and the wall timer, drop a repair and publish nothing |
| `SecondDelivery` | `Repair` | ARCHITECTURE.md:174 | the delivery marker of a session's first repair blocks its second |
| `FeedbackDoneAccepted` | `Repair` | feedback_recovery.py:10-13, repair_prompt.md:162-165 | a feedback repair that only delivers documents is refused for want of a patch |
| `OneClaudePerCarrier` | `Repair` | auto_repair.py:16 | the cadence loop concludes a repair whose first turn still runs, and the next kick starts a second claude |
| `TerminalMeansOver` | `Repair` | session_manager.py:88-89 | a second request of a session that is folded sets the verdict while the repair runs |
| `VerdictOnce` | `Repair` | session_manager.py:223-225 | first turn and cadence loop may both conclude one repair |
| `FreshVerdict` | `Repair` | auto_repair.py:9-12 | the second repair of a session may end with the STATUS of the first |
| `WallTimerEnds` | `Repair` | auto_repair.py:9-12 | a STATUS that cannot be read makes `_check_done` raise at every tick, and nothing asks the wall timer |
| `NoChromiumLeft` | `Browsers` | repair_browser.py:11-12 | a shutdown that cancels a spawn or a cleanup leaves its chromium, and so does the pruning of a session that spawns or closes its Chrome |
| `NoBrowserWithoutRepair` | `Browsers` | repair_browser.py:9-11 | a first turn that drops its repair leaves the browser, and a spawn may come after the repair's end |
| `SuccessIsKept` | `EmailNotifier` | ARCHITECTURE.md:184 | documents that were only shown as progress count as success, and their links end with the session |
| `RepairIsAwaited` | `EmailNotifier` | ARCHITECTURE.md:181 | the event of the first repair is still set when the second is watched |
| `RelayHeldForRepair` | `WorkerProxy` | main.py:140-142 | the relay ends at the first ERROR, also while the worker repairs |
| `KnownWhileServed` | `WorkerProxy` | expected of worker_proxy.py:49 | the proxy forgets a session a TTL after its login, while the worker still has it or would serve its stored result |
| `NothingOutlivesTtl` | `ResultStore` | expected of result_store.py:104-110 | pruning finds documents by their metadata; where a save was cut off before it, or a pruning removed it and failed at a document, they stay and are served |
| `NewestOfPage` | `UsaaFetch` | expected of usaa.py:1496-1530 | a row that appears between the count and the ranking is passed over, and an older one of the policy is taken |
| `OwnDocumentOfEachPolicy` | `UsaaFetch` | expected of usaa.py:1904-1906 | two policies whose buttons give the same bytes have one document, under one of the names |

How far some of these sentences are true is what the runs and theorems say:
`PoliteDrivers` of `OneDriverPerCarrier`, `OwnVerdict` of `FreshVerdict`,
`LonePatchReturns` of `FixesSurvive`, `RepairEnds` of `WallTimerEnds`,
`LostByRaceOnly` and `QuietExitIsClean` of `NoChromiumLeft`, `BestOfListing` of
`NewestOfPage`, `OneOfEachPolicy` of `OwnDocumentOfEachPolicy`. `NoStealAlways`
(`SlotManager`) and `OwnVerdict` (`Repair`) are proved and in no run; TLC found
`OwnVerdict` to hold with two sessions, two repairs and a claude that writes
and patches.

## 7. Not modelled

- Page scraping of `carriers/geico.py`, `generic_portal.py` and `mock.py`, and
  the login and MFA pages of `usaa.py`: sequential, without state shared
  between two awaits of different tasks; what they return is a number of
  documents, a state or an exception, at any await of `LoginFlow`.
- In `Repair`: a missing prompt template, a verifier that cannot make its
  directory, the transcript, clean-up of artifacts; a STATUS file in which no
  verdict is found counts as no file; only pages that list documents offer
  feedback. Restarts of the process: `_active` is lost with it; what survives
  is the patch store.
- In `PatchStore`: two fixes that git can merge although they touch the same
  lines are the same as two that do not; the PAT and the text of a commit; that
  claude takes back edits that are not its own: nothing but its prompt keeps it
  from that.
- In `Browsers`: what a context looks like, profile directories and their
  locks; Playwright's own process.
- In `ResultStore`: several uids (the index is per uid, and nothing relates
  two), document names.
- In `EmailNotifier`: an address that is changed later, the choice between
  attachments and links by size.
- In `WorkerProxy`: `get_doc`, which forwards one request; two workers.
- In `UsaaFetch`: how titles, policy numbers and dates are read off a row; the
  rows are given with policy, date and kind. `OneOfEachPolicy` and
  `BestOfListing` speak of fetches in which no effect came late: a late answer,
  pop-up or viewer may be filed under the button that is asked next, and no
  document of the code says otherwise; the same holds of a row that moves under
  the loop. The windows of pop-ups: `from_popup` closes its own (1808-1810), a
  cancelled one in a task nobody awaits, after the call (1834-1837), where the
  close may raise unseen, and one cancelled between its event and its
  resumption leaves it open; nothing else in the flow looks at them.
  `from_response` gives up when a body cannot be read (1777-1779), unlike its
  sibling in `generic_portal.py`; on the surface path each call reports its own
  list, so that ids may be reused (1563-1566), and an exception there ends the
  login in ERROR after documents were shown.
- `pdf_analyzer.py`, `storage.py`, identity cookies, logging, configuration,
  deployment, the page's rendering: no state of their own.

Noted on the way, without a document that says otherwise: a default browser
that has crashed is never replaced (`playwright_runner.py:50` asks only whether
there is one), so that every login that shares it fails until the next restart.

## 8. Plan

1. The document fetch of `generic_portal.py` over `ClickRace`, whose four
   racers it shares with other deadlines.
2. Pure algorithms against reference definitions over bounded inputs:
   `parse_status_verdict`, `_extract_json_array`, `env_truthy`,
   `_content_disposition`.
