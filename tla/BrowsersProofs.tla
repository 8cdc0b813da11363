---------------------------- MODULE BrowsersProofs ----------------------------
(***************************************************************************)
(* Proofs about Browsers, for any number of logins, carriers and crashes.  *)
(* BInv is inductive.  Who holds a chromium is only certain outside of     *)
(* overlapping launches and cancelled logins, so the parts about the       *)
(* default browser and about a carrier's repair browser speak of what has  *)
(* not overlapped and was not cut; the part about a quiet teardown carries *)
(* what was true when it began through the awaits of lifespan's finally.   *)
(***************************************************************************)
EXTENDS Browsers, FiniteSetTheorems, TLAPS

CdpHeld == {"cdpWait", "inside", "closing", "cutting"}

\* a Chrome driven over CDP is alive only inside its context manager, unless its
\* login was cancelled on the way out, or its verifier was by the teardown
CdpInv ==
  \A x \in Coroutines : Cdp(x) \in chrome \ cut =>
     pc[x] \in CdpHeld \/ (stop.phase # "run" /\ x \in Verifiers /\ ~quiet)

\* what is registered was spawned; what is being killed is not registered, and
\* by one cleanup only; cleanup_all kills in its own phase only
KilledInv ==
  /\ \A c \in Carriers : registry[c] # None => pc[registry[c]] = "over"
  /\ \A t \in dying : pc[t] = "over" /\ registry[carrier[t]] # t /\ stop.cur # t
  /\ stop.cur # None => /\ pc[stop.cur] = "over" /\ registry[carrier[stop.cur]] # stop.cur
                        /\ stop.phase = "cleanup"
  /\ stop.phase \in {"stopped", "exited"} => stop.left = {}

\* without an overlap one coroutine launches, while there is no default browser,
\* and the browser in runner._browser is the only one
DefaultInv ==
  stop.phase = "run" /\ "default" \notin overlapped =>
    /\ \A x, y \in Coroutines : pc[x] = "launching" /\ pc[y] = "launching" => x = y
    /\ \A x \in Coroutines : pc[x] = "launching" => default = None
    /\ \A x \in Coroutines : Default(x) \in chrome \ cut => default = x

\* without an overlap one login spawns for a carrier, while the registered
\* browser is dead, and every repair browser is in someone's hands
SpawnFor(c) ==
  /\ \A t, u \in Tasks : pc[t] = "spawning" /\ carrier[t] = c
                         /\ pc[u] = "spawning" /\ carrier[u] = c => t = u
  /\ \A t \in Tasks : pc[t] = "spawning" /\ carrier[t] = c => ~Reusable(c)
  /\ \A t \in Tasks : Repair(t) \in chrome \ cut /\ carrier[t] = c =>
        pc[t] = "spawning" \/ registry[c] = t \/ t \in dying

SpawnInv == stop.phase = "run" => \A c \in Carriers \ overlapped : SpawnFor(c)

\* nothing but launches of the default browser ever overlapped or was cut
OnlyDefaultsLost == overlapped \subseteq {"default"} /\ \A p \in cut : p.kind = "default"

\* a teardown that began in the quiet stays quiet, and cleanup_all still has
\* every repair browser before it
QuietInv ==
  /\ stop.phase # "run" => \A v \in Verifiers : pc[v] = "over"
  /\ stop.phase # "run" /\ quiet =>
       /\ \A t \in Tasks : pc[t] \in {"idle", "over"} /\ checkers[t] = 0
       /\ dying = {}
       /\ OnlyDefaultsLost => \A t \in Tasks : Repair(t) \in chrome =>
             stop.cur = t \/ (registry[carrier[t]] = t /\ carrier[t] \in stop.left)
       /\ stop.phase # "cleanup" => \A x \in Coroutines : Default(x) \notin chrome

BInv == BrowserTypes /\ CdpInv /\ KilledInv /\ DefaultInv /\ SpawnInv /\ QuietInv
----------------------------------------------------------------------------
LEMMA Kinds ==
  /\ \A x, y : /\ Default(x) = Default(y) <=> x = y
               /\ Cdp(x) = Cdp(y) <=> x = y
               /\ Repair(x) = Repair(y) <=> x = y
               /\ Default(x) # Cdp(y) /\ Default(x) # Repair(y) /\ Cdp(x) # Repair(y)
  /\ \A x \in Coroutines : Default(x) \in Process /\ Cdp(x) \in Process
  /\ \A t \in Tasks : Repair(t) \in Process
  /\ \A x : /\ Default(x).kind = "default" /\ Cdp(x).kind = "cdp" /\ Repair(x).kind = "repair"
            /\ Default(x).by = x /\ Cdp(x).by = x /\ Repair(x).by = x
BY DEF Default, Cdp, Repair, Process

LEMMA ProcessKinds ==
  ASSUME NEW p \in Process
  PROVE  \/ p.by \in Coroutines /\ p \in {Default(p.by), Cdp(p.by)}
         \/ p.by \in Tasks /\ p = Repair(p.by)
BY DEF Default, Cdp, Repair, Process

LEMMA BInitInv == Init => BInv
<1> SUFFICES ASSUME Init PROVE BInv
  OBVIOUS
<1>1. stop \in Stop /\ stop.phase = "run" /\ stop.cur = None
  BY DEF Init, Stop
<1>2. BrowserTypes
  BY <1>1 DEF Init, BrowserTypes, PCs
<1>3. CdpInv
  BY DEF Init, CdpInv
<1>4. KilledInv
  BY <1>1, BrowserConstants DEF Init, KilledInv
<1>5. DefaultInv
  BY <1>1 DEF Init, DefaultInv
<1>6. QuietInv
  BY <1>1 DEF Init, QuietInv
<1>7. SpawnInv
  BY <1>1, BrowserConstants DEF Init, SpawnInv, SpawnFor, Coroutines
<1> QED BY <1>2, <1>3, <1>4, <1>5, <1>6, <1>7 DEF BInv

\* A step of a coroutine.
LEMMA Stepped ==
  ASSUME BInv, NEW x \in Coroutines, NEW a, NEW b \in PCs, Step(x, a, b)
  PROVE  /\ pc' \in [Coroutines -> PCs] /\ pc[x] = a /\ pc'[x] = b
         /\ \A y \in Coroutines \ {x} : pc'[y] = pc[y]
         /\ stop.phase # "exited"
BY DEF BInv, BrowserTypes, Step, Running

\* The invariant survives a step of the coroutine x that neither registers, nor
\* harvests, nor begins a teardown, when no Chrome of x is alive without x in
\* its hands, and the launches and the spawns are as the invariant wants them.
Moves(x, b) ==
  /\ pc' \in [Coroutines -> PCs] /\ pc'[x] = b /\ \A y \in Coroutines \ {x} : pc'[y] = pc[y]
  /\ pc[x] # "over" /\ (x \in Verifiers => stop.phase = "run")
  /\ stop.phase # "run" => pc[x] # "idle"
  /\ UNCHANGED <<carrier, registry, dying, stop, quiet>>
  /\ chrome' \subseteq Process /\ cut' \subseteq Process
  /\ cut \subseteq cut' /\ overlapped \subseteq overlapped'

LEMMA StepMoves ==
  ASSUME BInv, NEW x \in Coroutines, NEW a \in PCs \ {"idle", "over"}, NEW b \in PCs, Step(x, a, b),
         UNCHANGED <<carrier, registry, dying, stop, quiet>>,
         chrome' \subseteq Process, cut' \subseteq Process,
         cut \subseteq cut', overlapped \subseteq overlapped'
  PROVE  Moves(x, b)
<1>1. /\ pc' \in [Coroutines -> PCs] /\ pc[x] = a /\ pc'[x] = b
      /\ \A y \in Coroutines \ {x} : pc'[y] = pc[y]
  BY Stepped
<1>2. x \in Verifiers => stop.phase = "run"
  BY <1>1 DEF BInv, QuietInv
<1> QED BY <1>1, <1>2 DEF Moves

\* the checkers of repairs, which no step below the teardown reaches for
CheckTypes ==
  /\ active' \in [Carriers -> Tasks \cup {None}] /\ checkers' \in [Tasks -> Nat]
  /\ verifies' \in [Verifiers -> Tasks \cup {None}]

LEMMA MovesKeep ==
  ASSUME BInv, NEW x \in Coroutines, NEW b, Moves(x, b), CheckTypes,
         default' \in Coroutines \cup {None}, overlapped' \subseteq Carriers \cup {"default"},
         \A y \in Coroutines \ {x} : Cdp(y) \in chrome' => Cdp(y) \in chrome,
         Cdp(x) \in chrome' \ cut' => b \in CdpHeld,
         DefaultInv', SpawnInv'
  PROVE  BInv'
<1>1. BrowserTypes'
  BY DEF BInv, BrowserTypes, Moves, CheckTypes
<1>2. CdpInv'
  BY DEF BInv, CdpInv, Moves
<1>3. KilledInv'
  BY BrowserConstants DEF BInv, BrowserTypes, KilledInv, Moves, Stop, Coroutines
<1>4. QuietInv'
  <2>1. stop.phase # "run" => pc[x] \notin {"idle", "over"} /\ x \in Tasks
    BY DEF Moves, Coroutines
  <2>2. stop.phase # "run" => ~quiet
    BY <2>1 DEF BInv, QuietInv
  <2>3. stop.phase # "run" => \A v \in Verifiers : pc'[v] = "over"
    BY <2>1, BrowserConstants DEF BInv, QuietInv, Moves, Coroutines
  <2> QED BY <2>2, <2>3 DEF QuietInv, Moves
<1> QED BY <1>1, <1>2, <1>3, <1>4 DEF BInv

\* Where x does not launch, what was fine about the default browser stays so.
LEMMA DefaultKeeps ==
  ASSUME BInv, NEW x \in Coroutines, NEW b, Moves(x, b), b # "launching",
         UNCHANGED default,
         \A y \in Coroutines : Default(y) \in chrome' \ cut' => Default(y) \in chrome
  PROVE  DefaultInv'
<1>1. \A y \in Coroutines : pc'[y] = "launching" => pc[y] = "launching"
  BY DEF Moves
<1>2. \A y \in Coroutines : Default(y) \in chrome' \ cut' => Default(y) \in chrome \ cut
  BY DEF Moves
<1> QED BY <1>1, <1>2 DEF BInv, DefaultInv, Moves

\* Where x does not spawn, what was fine about the repair browsers stays so.
LEMMA SpawnKeeps ==
  ASSUME BInv, NEW x \in Coroutines, NEW b, Moves(x, b), b # "spawning",
         pc[x] = "spawning" => Repair(x) \notin chrome' \ cut',
         \A t \in Tasks : Repair(t) \in chrome' => Repair(t) \in chrome
  PROVE  SpawnInv'
<1> SUFFICES ASSUME stop.phase = "run", NEW c \in Carriers \ overlapped
             PROVE  SpawnFor(c)'
  BY DEF SpawnInv, Moves
<1>1. SpawnFor(c)
  BY DEF BInv, SpawnInv
<1>2. \A u \in Tasks : pc'[u] = "spawning" => pc[u] = "spawning"
  BY DEF Moves, Coroutines
<1>3. Reusable(c)' => Reusable(c)
  BY DEF Reusable, Moves, BInv, BrowserTypes
<1>4. \A u \in Tasks : Repair(u) \in chrome' \ cut' =>
         Repair(u) \in chrome \ cut /\ (pc[u] = "spawning" => pc'[u] = "spawning")
  BY DEF Moves, Coroutines
<1> QED BY <1>1, <1>2, <1>3, <1>4 DEF SpawnFor, Moves

\* A step that only loses processes, or leaves them to nobody.
LEMMA LosesKeep ==
  ASSUME BInv, NEW x \in Coroutines, NEW b \in PCs \ {"launching", "spawning"}, Moves(x, b),
         CheckTypes, UNCHANGED <<default, overlapped>>, chrome' \ cut' \subseteq chrome,
         \A y \in Coroutines : Cdp(y) \in chrome' => Cdp(y) \in chrome,
         \A t \in Tasks : Repair(t) \in chrome' => Repair(t) \in chrome,
         Cdp(x) \in chrome' \ cut' => b \in CdpHeld,
         pc[x] = "spawning" => Repair(x) \notin chrome' \ cut'
  PROVE  BInv'
<1>1. DefaultInv'
  BY DefaultKeeps
<1>2. SpawnInv'
  BY SpawnKeeps
<1>3. /\ default' \in Coroutines \cup {None} /\ overlapped' \subseteq Carriers \cup {"default"}
  BY DEF BInv, BrowserTypes
<1> QED BY <1>1, <1>2, <1>3, MovesKeep
----------------------------------------------------------------------------
(* The context managers of PlaywrightRunner                                *)

LEMMA EntersFacts ==
  ASSUME BInv, NEW x \in Coroutines, NEW b \in PCs, Enters(x, b)
  PROVE  /\ pc' \in [Coroutines -> PCs] /\ pc[x] \in {"idle", "closing"} /\ pc'[x] = b
         /\ \A y \in Coroutines \ {x} : pc'[y] = pc[y]
         /\ stop.phase # "run" => pc[x] # "idle" /\ x \notin Verifiers
         /\ checkers' \in [Tasks -> Nat] /\ verifies' \in [Verifiers -> Tasks \cup {None}]
<1>1. checkers \in [Tasks -> Nat] /\ verifies \in [Verifiers -> Tasks \cup {None}]
  BY DEF BInv, BrowserTypes
<1>2. CASE x \in Tasks /\ stop.phase = "run" /\ Step(x, "idle", b) /\ UNCHANGED checkVars
  BY <1>1, <1>2, Stepped DEF checkVars
<1>3. CASE x \in Tasks /\ Step(x, "closing", b) /\ UNCHANGED checkVars
  BY <1>1, <1>3, Stepped, BrowserConstants DEF checkVars
<1>4. CASE /\ x \in Verifiers /\ stop.phase = "run" /\ Step(x, "idle", b)
           /\ \E t \in Tasks : /\ checkers[t] > 0
                               /\ checkers' = [checkers EXCEPT ![t] = @ - 1]
                               /\ verifies' = [verifies EXCEPT ![x] = t]
  <2>1. PICK t \in Tasks : /\ checkers[t] > 0
                           /\ checkers' = [checkers EXCEPT ![t] = @ - 1]
                           /\ verifies' = [verifies EXCEPT ![x] = t]
    BY <1>4
  <2>2. checkers[t] - 1 \in Nat
    BY <1>1, <2>1
  <2>3. checkers' \in [Tasks -> Nat] /\ verifies' \in [Verifiers -> Tasks \cup {None}]
    BY <1>1, <2>1, <2>2
  <2> QED BY <1>4, <2>3, Stepped
<1> QED BY <1>2, <1>3, <1>4 DEF Enters

LEMMA EnterDefaultStep ==
  ASSUME BInv, NEW x \in Coroutines, EnterDefault(x)
  PROVE  BInv'
<1>1. PICK b \in PCs : b = IF default = None THEN "launching" ELSE "opening"
  BY DEF PCs
<1>2. Enters(x, b)
  BY <1>1 DEF EnterDefault
<1>3. /\ UNCHANGED <<carrier, default, registry, active, dying, stop, cut, quiet>>
      /\ chrome' = chrome \ {Cdp(x)}
      /\ overlapped \subseteq overlapped' /\ overlapped' \subseteq overlapped \cup {"default"}
      /\ default = None /\ (\E y \in Coroutines : pc[y] = "launching") => "default" \in overlapped'
  BY DEF EnterDefault, Terminated
<1>4. Moves(x, b) /\ CheckTypes
  BY <1>2, <1>3, EntersFacts DEF Moves, CheckTypes, BInv, BrowserTypes
<1>5. DefaultInv'
  BY <1>1, <1>3, <1>4 DEF BInv, DefaultInv, Moves
<1>6. SpawnInv'
  BY <1>1, <1>2, <1>3, <1>4, EntersFacts, SpawnKeeps
<1>7. /\ default' \in Coroutines \cup {None} /\ overlapped' \subseteq Carriers \cup {"default"}
  BY <1>3 DEF BInv, BrowserTypes
<1> QED BY <1>3, <1>4, <1>5, <1>6, <1>7, MovesKeep

LEMMA LaunchedStep ==
  ASSUME BInv, NEW x \in Coroutines, Launched(x)
  PROVE  BInv'
<1>1. /\ Step(x, "launching", "opening")
      /\ UNCHANGED <<carrier, verifies, registry, active, checkers, dying, stop, overlapped, cut,
                     quiet>>
      /\ chrome' = chrome \cup {Default(x)} /\ default' = x
  BY DEF Launched, repairVars, checkVars, noteVars
<1>2. chrome' \subseteq Process /\ cut' \subseteq Process
  BY <1>1, Kinds DEF BInv, BrowserTypes
<1>3. Moves(x, "opening")
  BY <1>1, <1>2, StepMoves DEF PCs
<1>4. /\ \A y \in Coroutines : Cdp(y) \in chrome' => Cdp(y) \in chrome
      /\ \A t \in Tasks : Repair(t) \in chrome' => Repair(t) \in chrome
      /\ \A y \in Coroutines : Default(y) \in chrome' => Default(y) \in chrome \/ y = x
  BY <1>1, Kinds
<1>5. pc[x] = "launching"
  BY <1>1 DEF Step
<1>6. DefaultInv'
  BY <1>1, <1>3, <1>4, <1>5, BrowserConstants DEF BInv, DefaultInv, Moves
<1>7. SpawnInv'
  BY <1>3, <1>4, <1>5, SpawnKeeps
<1>8. CheckTypes /\ default' \in Coroutines \cup {None}
      /\ overlapped' \subseteq Carriers \cup {"default"}
  BY <1>1 DEF BInv, BrowserTypes, CheckTypes
<1>9. Cdp(x) \notin chrome' \ cut'
  <2>1. x \in Verifiers => stop.phase = "run"
    BY <1>3 DEF Moves
  <2>2. Cdp(x) \notin chrome \ cut
    BY <1>5, <2>1 DEF BInv, CdpInv, CdpHeld
  <2> QED BY <1>1, <1>4, <2>2
<1> QED BY <1>3, <1>4, <1>6, <1>7, <1>8, <1>9, MovesKeep

LEMMA EnterCdpStep ==
  ASSUME BInv, NEW x \in Coroutines, EnterCdp(x)
  PROVE  BInv'
<1>1. /\ Enters(x, "cdpWait") /\ chrome' = chrome \cup {Cdp(x)}
      /\ UNCHANGED <<carrier, default, registry, active, dying, stop, overlapped, cut, quiet>>
  BY DEF EnterCdp, noteVars
<1>2. chrome' \subseteq Process /\ cut' \subseteq Process
  BY <1>1, Kinds DEF BInv, BrowserTypes
<1>3. Moves(x, "cdpWait") /\ CheckTypes
  BY <1>1, <1>2, EntersFacts DEF Moves, CheckTypes, BInv, BrowserTypes, PCs
<1>4. /\ \A y \in Coroutines \ {x} : Cdp(y) \in chrome' => Cdp(y) \in chrome
      /\ \A t \in Tasks : Repair(t) \in chrome' => Repair(t) \in chrome
      /\ \A y \in Coroutines : Default(y) \in chrome' => Default(y) \in chrome
  BY <1>1, Kinds
<1>5. DefaultInv'
  BY <1>1, <1>3, <1>4, DefaultKeeps
<1>6. SpawnInv'
  BY <1>1, <1>3, <1>4, EntersFacts, SpawnKeeps DEF PCs
<1>7. /\ default' \in Coroutines \cup {None} /\ overlapped' \subseteq Carriers \cup {"default"}
  BY <1>1 DEF BInv, BrowserTypes
<1> QED BY <1>3, <1>4, <1>5, <1>6, <1>7, MovesKeep DEF CdpHeld

LEMMA KickedTypes ==
  ASSUME BInv, NEW t \in Tasks, Kicked(t), UNCHANGED verifies
  PROVE  CheckTypes
BY DEF Kicked, BInv, BrowserTypes, CheckTypes

\* A coroutine goes on inside its context, or is done with it.
LEMMA ContextStep ==
  ASSUME BInv, NEW x \in Coroutines, Opened(x) \/ Connected(x) \/ Leave(x)
  PROVE  BInv'
<1>1. PICK a \in PCs \ {"idle", "over"}, b \in {"inside", "closing"} :
         Step(x, a, b) /\ a # "spawning"
  BY DEF Opened, Connected, Leave, PCs
<1>2. UNCHANGED <<carrier, verifies, chrome, default, registry, active, checkers, dying, stop,
                  overlapped, cut, quiet>>
  BY DEF Opened, Connected, Leave, repairVars, checkVars, noteVars
<1>3. Moves(x, b) /\ CheckTypes
  BY <1>1, <1>2, StepMoves DEF PCs, CheckTypes, BInv, BrowserTypes
<1>4. pc[x] # "spawning"
  BY <1>1 DEF Step
<1> QED BY <1>1, <1>2, <1>3, <1>4, LosesKeep DEF PCs, CdpHeld

LEMMA VerifiedStep ==
  ASSUME BInv, NEW v \in Verifiers, Verified(v)
  PROVE  BInv'
<1>1. PICK a \in {"launching", "opening", "cdpWait", "closing"} : Step(v, a, "idle")
  BY DEF Verified, Ended
<1>2. /\ UNCHANGED <<carrier, default, registry, active, dying, stop, overlapped, cut, quiet>>
      /\ chrome' = chrome \ {Cdp(v)}
      /\ checkers' = [checkers EXCEPT ![verifies[v]] = @ + 1]
      /\ verifies' = [verifies EXCEPT ![v] = None]
  BY DEF Verified, Terminated, noteVars
<1>3. CheckTypes
  <2>1. /\ checkers \in [Tasks -> Nat] /\ verifies \in [Verifiers -> Tasks \cup {None}]
        /\ active' \in [Carriers -> Tasks \cup {None}]
    BY <1>2 DEF BInv, BrowserTypes
  <2>2. \A t \in Tasks : checkers[t] + 1 \in Nat
    BY <2>1
  <2>3. checkers' \in [Tasks -> Nat]
    BY <1>2, <2>1, <2>2
  <2> QED BY <1>2, <2>1, <2>3 DEF CheckTypes
<1>4. v \in Coroutines /\ chrome' \subseteq Process /\ cut' \subseteq Process
  BY <1>2 DEF Coroutines, BInv, BrowserTypes
<1>5. Moves(v, "idle") /\ pc[v] # "spawning"
  BY <1>1, <1>2, <1>4, StepMoves DEF PCs, Step
<1> QED BY <1>2, <1>3, <1>4, <1>5, LosesKeep DEF PCs

\* A login is over, or kicks a repair without a spawn of its own.
LEMMA OverStep ==
  ASSUME BInv, NEW t \in Tasks, Closed(t) \/ Unrepaired(t) \/ NoSpawn(t) \/ CutClosed(t)
  PROVE  BInv'
<1>1. PICK a \in PCs \ {"idle", "over"} : Step(t, a, "over") /\ a # "spawning"
  BY DEF Closed, Unrepaired, NoSpawn, CutClosed, Ended, PCs
<1>2. /\ UNCHANGED <<carrier, verifies, default, registry, dying, stop, overlapped, cut, quiet>>
      /\ chrome' = chrome \ {Cdp(t)}
  BY DEF Closed, Unrepaired, NoSpawn, CutClosed, Terminated, repairVars, checkVars, noteVars
<1>3. CheckTypes
  <2>1. CASE NoSpawn(t)
    BY <1>2, <2>1, KickedTypes DEF NoSpawn
  <2>2. CASE Closed(t) \/ Unrepaired(t) \/ CutClosed(t)
    BY <2>2 DEF Closed, Unrepaired, CutClosed, repairVars, checkVars, CheckTypes, BInv,
                BrowserTypes
  <2> QED BY <2>1, <2>2
<1>4. t \in Coroutines /\ chrome' \subseteq Process /\ cut' \subseteq Process
  BY <1>2 DEF Coroutines, BInv, BrowserTypes
<1>5. Moves(t, "over") /\ pc[t] # "spawning"
  BY <1>1, <1>2, <1>4, StepMoves DEF PCs, Step
<1> QED BY <1>2, <1>3, <1>4, <1>5, LosesKeep DEF PCs

LEMMA SpawnFailsStep ==
  ASSUME BInv, NEW t \in Tasks, SpawnFails(t)
  PROVE  BInv'
<1>1. /\ Step(t, "spawning", "over") /\ chrome' = chrome \ {Repair(t)}
      /\ UNCHANGED <<carrier, verifies, default, registry, dying, stop, overlapped, cut, quiet>>
  BY DEF SpawnFails, SpawnUndone, noteVars
<1>2. CheckTypes
  BY <1>1, KickedTypes DEF SpawnFails
<1>3. t \in Coroutines /\ chrome' \subseteq Process /\ cut' \subseteq Process
  BY <1>1 DEF Coroutines, BInv, BrowserTypes
<1>4. Moves(t, "over") /\ pc[t] = "spawning"
  BY <1>1, <1>3, StepMoves DEF PCs, Step
<1>5. Cdp(t) \notin chrome' \ cut'
  BY <1>1, <1>3, <1>4, BrowserConstants DEF BInv, CdpInv, CdpHeld
<1> QED BY <1>1, <1>2, <1>3, <1>4, <1>5, LosesKeep DEF PCs
----------------------------------------------------------------------------
(* Pruning                                                                 *)

\* What a cancelled login leaves behind is in cut, or it was closed.
LEMMA CutStep ==
  ASSUME BInv, NEW t \in Tasks,
         CutLaunching(t) \/ CutOpening(t) \/ CutInside(t) \/ CutLeaving(t)
  PROVE  BInv'
<1>1. t \in Coroutines
  BY DEF Coroutines
<1>2. /\ UNCHANGED <<carrier, verifies, default, registry, active, checkers, dying, stop,
                     overlapped, quiet>>
      /\ CheckTypes
  BY DEF CutLaunching, CutOpening, CutInside, CutLeaving, repairVars, checkVars, noteVars,
         CheckTypes, BInv, BrowserTypes
<1>3. chrome \subseteq Process /\ cut \subseteq Process
  BY DEF BInv, BrowserTypes
<1>4. CASE CutLaunching(t)
  <2>1. /\ Step(t, "launching", "over") /\ pc[t] = "launching" /\ stop.phase = "run"
        /\ chrome' = chrome \cup {Default(t)} /\ cut' = cut \cup {Default(t)}
    BY <1>4 DEF CutLaunching, Step
  <2>2. chrome' \subseteq Process /\ cut' \subseteq Process
    BY <1>1, <1>3, <2>1, Kinds
  <2>3. Moves(t, "over")
    BY <1>1, <1>2, <2>1, <2>2, StepMoves DEF PCs
  <2>4. Cdp(t) \notin chrome \ cut
    BY <1>1, <2>1 DEF BInv, CdpInv, CdpHeld
  <2>5. /\ \A y \in Coroutines : Cdp(y) \in chrome' => Cdp(y) \in chrome
        /\ \A u \in Tasks : Repair(u) \in chrome' => Repair(u) \in chrome
        /\ Cdp(t) \notin chrome' \ cut'
    BY <2>1, <2>4, Kinds
  <2> QED BY <1>1, <1>2, <2>1, <2>3, <2>5, LosesKeep DEF PCs
<1>5. CASE CutOpening(t)
  <2>1. /\ Step(t, pc[t], "over") /\ pc[t] \in {"opening", "cdpWait"} /\ UNCHANGED cut
        /\ chrome' = chrome \ {Cdp(t)}
    BY <1>5 DEF CutOpening, Terminated, noteVars
  <2>2. Moves(t, "over")
    BY <1>1, <1>2, <1>3, <2>1, StepMoves DEF PCs
  <2> QED BY <1>1, <1>2, <2>1, <2>2, LosesKeep DEF PCs
<1>6. CASE CutInside(t)
  <2>1. /\ Step(t, pc[t], "cutting") /\ pc[t] \in {"cdpWait", "inside"}
        /\ UNCHANGED <<chrome, cut>>
    BY <1>6 DEF CutInside, noteVars
  <2>2. Moves(t, "cutting")
    BY <1>1, <1>2, <1>3, <2>1, StepMoves DEF PCs
  <2> QED BY <1>1, <1>2, <2>1, <2>2, LosesKeep DEF PCs, CdpHeld
<1>7. CASE CutLeaving(t)
  <2>1. /\ Step(t, pc[t], "over") /\ pc[t] \in {"closing", "spawning"}
        /\ cut' = cut \cup (chrome \cap {Cdp(t), Repair(t)}) /\ UNCHANGED chrome
    BY <1>7 DEF CutLeaving
  <2>2. Moves(t, "over")
    BY <1>1, <1>2, <1>3, <2>1, StepMoves DEF PCs
  <2> QED BY <1>1, <1>2, <2>1, <2>2, LosesKeep DEF PCs
<1> QED BY <1>4, <1>5, <1>6, <1>7
----------------------------------------------------------------------------
(* The repair browser                                                      *)

\* A spawn that finds another one under way is an overlap.
LEMMA SpawnStep ==
  ASSUME BInv, NEW t \in Tasks, Spawn(t)
  PROVE  BInv'
<1>1. PICK a \in {"launching", "opening", "cdpWait", "closing"} : Step(t, a, "spawning")
  BY DEF Spawn, Ended
<1>2. /\ UNCHANGED <<carrier, verifies, default, registry, active, checkers, dying, stop, cut,
                     quiet>>
      /\ chrome' = (chrome \ {Cdp(t)}) \cup {Repair(t)}
      /\ overlapped' = overlapped \cup
           {c \in {carrier[t]} : \E u \in Tasks : carrier[u] = c /\ pc[u] = "spawning"}
      /\ ~Reusable(carrier[t])
  BY DEF Spawn, Terminated, repairVars, checkVars
<1>3. /\ \A x \in Coroutines : /\ Cdp(x) \in chrome' => Cdp(x) \in chrome /\ x # t
                               /\ Default(x) \in chrome' => Default(x) \in chrome
      /\ \A u : Repair(u) \in chrome' => Repair(u) \in chrome \/ u = t
      /\ overlapped \subseteq overlapped' /\ overlapped' \subseteq overlapped \cup {carrier[t]}
  BY <1>2, Kinds
<1>4. /\ t \in Coroutines /\ chrome' \subseteq Process /\ cut' \subseteq Process
      /\ carrier[t] \in Carriers
  BY <1>2, Kinds DEF Coroutines, BInv, BrowserTypes
<1>5. Moves(t, "spawning") /\ pc[t] = a
  BY <1>1, <1>2, <1>3, <1>4, StepMoves DEF PCs, Step
<1>6. DefaultInv'
  BY <1>2, <1>3, <1>4, <1>5, DefaultKeeps
<1>7. SpawnInv'
  <2> SUFFICES ASSUME stop.phase = "run", NEW c \in Carriers \ overlapped'
               PROVE  SpawnFor(c)'
    BY <1>2 DEF SpawnInv
  <2>1. SpawnFor(c)
    BY <1>3 DEF BInv, SpawnInv
  <2>2. carrier[t] = c => \A u \in Tasks : carrier[u] = c => pc[u] # "spawning"
    BY <1>2
  <2>3. registry[c] # t
    BY <1>1, <1>5, BrowserConstants DEF BInv, KilledInv, Coroutines
  <2>4. ~Reusable(c) => ~Reusable(c)'
    BY <1>2, <1>3, <2>3 DEF Reusable
  <2>5. pc'[t] = "spawning" /\ \A u \in Tasks \ {t} : pc'[u] = pc[u]
    BY <1>5 DEF Moves, Coroutines
  <2> QED BY <1>1, <1>2, <1>3, <1>5, <2>1, <2>2, <2>4, <2>5 DEF SpawnFor
<1>8. /\ CheckTypes /\ default' \in Coroutines \cup {None}
      /\ overlapped' \subseteq Carriers \cup {"default"}
  BY <1>2, <1>3, <1>4 DEF BInv, BrowserTypes, CheckTypes
<1> QED BY <1>3, <1>4, <1>5, <1>6, <1>7, <1>8, MovesKeep

\* The one that registers last wins; without an overlap it was alone.
LEMMA SpawnedStep ==
  ASSUME BInv, NEW t \in Tasks, Spawned(t)
  PROVE  BInv'
<1>1. /\ pc' \in [Coroutines -> PCs] /\ pc[t] = "spawning" /\ pc'[t] = "over"
      /\ \A y \in Coroutines \ {t} : pc'[y] = pc[y]
      /\ t \in Coroutines
  BY Stepped DEF Spawned, PCs, Coroutines
<1>2. /\ UNCHANGED <<carrier, verifies, chrome, default, dying, stop, overlapped, cut, quiet>>
      /\ registry' = [registry EXCEPT ![carrier[t]] = t]
      /\ CheckTypes
  BY KickedTypes DEF Spawned, Registered, noteVars
<1>3. /\ carrier[t] \in Carriers /\ registry'[carrier[t]] = t
      /\ \A c \in Carriers \ {carrier[t]} : registry'[c] = registry[c]
      /\ registry' \in [Carriers -> Tasks \cup {None}]
  BY <1>2 DEF BInv, BrowserTypes
<1>4. BrowserTypes'
  BY <1>1, <1>2, <1>3 DEF BInv, BrowserTypes, CheckTypes
<1>5. CdpInv'
  BY <1>1, <1>2 DEF BInv, CdpInv, CdpHeld
<1>6. KilledInv'
  <2>1. t \notin dying /\ stop.cur # t
    BY <1>1, BrowserConstants DEF BInv, KilledInv
  <2>2. /\ dying \subseteq Tasks /\ stop.cur \in Tasks \cup {None}
        /\ \A c \in Carriers : registry[c] # None => registry[c] \in Tasks
        /\ \A u \in Tasks : carrier[u] \in Carriers
    BY DEF BInv, BrowserTypes, Stop
  <2>3. \A u \in Tasks \ {t} : pc'[u] = pc[u]
    BY <1>1 DEF Coroutines
  <2> QED BY <1>1, <1>2, <1>3, <2>1, <2>2, <2>3 DEF BInv, KilledInv
<1>7. DefaultInv'
  BY <1>1, <1>2 DEF BInv, DefaultInv
<1>8. SpawnInv'
  <2> SUFFICES ASSUME stop.phase = "run", NEW c \in Carriers \ overlapped
               PROVE  SpawnFor(c)'
    BY <1>2 DEF SpawnInv
  <2>1. \A u \in Tasks : /\ pc'[u] = "spawning" => pc[u] = "spawning" /\ u # t
                         /\ u # t => pc'[u] = pc[u]
    BY <1>1 DEF Coroutines
  <2>2. SpawnFor(c)
    BY DEF BInv, SpawnInv
  <2>3. CASE carrier[t] = c
    <3>1. ~Reusable(c) /\ \A u \in Tasks : pc[u] = "spawning" /\ carrier[u] = c => u = t
      BY <1>1, <2>2, <2>3 DEF SpawnFor
    <3>2. \A u \in Tasks : Repair(u) \in chrome => registry[c] # u
      BY <3>1, BrowserConstants DEF Reusable, Coroutines
    <3> QED BY <1>2, <1>3, <2>1, <2>2, <2>3, <3>1, <3>2 DEF SpawnFor
  <2>4. CASE carrier[t] # c
    <3>1. Reusable(c)' <=> Reusable(c)
      BY <1>2, <1>3, <2>4 DEF Reusable
    <3> QED BY <1>2, <1>3, <2>1, <2>2, <2>4, <3>1 DEF SpawnFor
  <2> QED BY <2>3, <2>4
<1>9. QuietInv'
  <2>1. stop.phase # "run" => ~quiet
    BY <1>1 DEF BInv, QuietInv
  <2>2. \A v \in Verifiers : v # t /\ v \in Coroutines
    BY BrowserConstants DEF Coroutines
  <2> QED BY <1>1, <1>2, <2>1, <2>2 DEF BInv, QuietInv
<1> QED BY <1>4, <1>5, <1>6, <1>7, <1>8, <1>9 DEF BInv
----------------------------------------------------------------------------
(* The end of a repair                                                     *)

\* Who a registry without c still holds.
LEMMA TakenOutFacts ==
  ASSUME BInv, NEW c \in Carriers, registry' = TakenOut(c)
  PROVE  /\ registry' \in [Carriers -> Tasks \cup {None}] /\ registry'[c] = None
         /\ \A d \in Carriers \ {c} : registry'[d] = registry[d]
         /\ \A d \in Carriers : registry'[d] # None => registry'[d] = registry[d]
BY DEF TakenOut, BInv, BrowserTypes

LEMMA ConcludeStep ==
  ASSUME BInv, NEW t \in Tasks, Conclude(t)
  PROVE  BInv'
<1>1. PICK c : c = carrier[t]
  OBVIOUS
<1>2. /\ UNCHANGED <<pc, carrier, verifies, chrome, default, stop, overlapped, cut, quiet>>
      /\ registry' = TakenOut(c) /\ dying' = dying \cup {u \in {registry[c]} : Alive(u)}
      /\ c \in Carriers /\ checkers[t] > 0
  BY <1>1 DEF Conclude, noteVars, BInv, BrowserTypes
<1>3. /\ registry' \in [Carriers -> Tasks \cup {None}] /\ registry'[c] = None
      /\ \A d \in Carriers \ {c} : registry'[d] = registry[d]
      /\ \A d \in Carriers : registry'[d] # None => registry'[d] = registry[d]
  BY <1>2, TakenOutFacts
<1>4. /\ dying \subseteq dying' /\ \A u \in dying' : u \in dying \/ (u = registry[c] /\ u # None)
      /\ registry[c] # None /\ Repair(registry[c]) \in chrome => registry[c] \in dying'
  BY <1>2 DEF Alive
<1>5. /\ registry[c] \in Tasks \cup {None}
      /\ registry[c] # None => carrier[registry[c]] = c
      /\ \A u \in Tasks : carrier[u] \in Carriers
      /\ dying \subseteq Tasks /\ stop.cur \in Tasks \cup {None}
  BY <1>2 DEF BInv, BrowserTypes, Stop
<1>6. BrowserTypes'
  <2>1. checkers' \in [Tasks -> Nat]
    <3>1. checkers \in [Tasks -> Nat] /\ checkers' = [checkers EXCEPT ![t] = @ - 1]
      BY DEF Conclude, BInv, BrowserTypes
    <3>2. checkers[t] - 1 \in Nat
      BY <1>2, <3>1
    <3> QED BY <3>1, <3>2
  <2>2. active' \in [Carriers -> Tasks \cup {None}]
    BY DEF Conclude, BInv, BrowserTypes
  <2>3. dying' \subseteq Tasks
    <3>1. \A u \in dying' : u \in Tasks
      BY <1>4, <1>5
    <3> QED BY <3>1
  <2> QED BY <1>2, <1>3, <2>1, <2>2, <2>3 DEF BInv, BrowserTypes
<1>7. CdpInv' /\ DefaultInv'
  BY <1>2 DEF BInv, CdpInv, DefaultInv
<1>8. KilledInv'
  <2>1. \A d \in Carriers : registry'[d] # None => pc'[registry'[d]] = "over"
    BY <1>2, <1>3 DEF BInv, KilledInv
  <2>2. \A u \in dying' : pc'[u] = "over" /\ registry'[carrier'[u]] # u /\ stop'.cur # u
    <3> SUFFICES ASSUME NEW u \in dying'
                 PROVE  pc[u] = "over" /\ registry'[carrier[u]] # u /\ stop.cur # u
      BY <1>2
    <3>1. CASE u \in dying
      <4>1. u \in Tasks /\ carrier[u] \in Carriers /\ u # None
        BY <1>5, <3>1, BrowserConstants DEF Coroutines
      <4> QED BY <1>3, <3>1, <4>1 DEF BInv, KilledInv
    <3>2. CASE u = registry[c] /\ u # None
      <4>1. pc[u] = "over" /\ carrier[u] = c
        <5>1. pc[registry[c]] = "over"
          BY <1>2, <3>2 DEF BInv, KilledInv
        <5> QED BY <1>5, <3>2, <5>1
      <4>2. stop.cur # u
        BY <3>2, <4>1 DEF BInv, KilledInv
      <4> QED BY <1>3, <3>2, <4>1, <4>2
    <3> QED BY <1>4, <3>1, <3>2
  <2>3. stop'.cur # None => registry'[carrier'[stop'.cur]] # stop'.cur
    BY <1>2, <1>3, <1>5 DEF BInv, KilledInv
  <2> QED BY <1>2, <2>1, <2>2, <2>3 DEF BInv, KilledInv
<1>9. SpawnInv'
  <2> SUFFICES ASSUME stop.phase = "run", NEW d \in Carriers \ overlapped
               PROVE  SpawnFor(d)'
    BY <1>2 DEF SpawnInv
  <2>1. Reusable(d)' => Reusable(d)
    BY <1>2, <1>3 DEF Reusable
  <2>2. \A u \in Tasks : Repair(u) \in chrome /\ registry[d] = u =>
           registry'[d] = u \/ u \in dying'
    BY <1>3, <1>4, BrowserConstants
  <2> QED BY <1>2, <1>4, <2>1, <2>2 DEF BInv, SpawnInv, SpawnFor
<1>10. QuietInv'
  BY <1>2 DEF BInv, BrowserTypes, QuietInv
<1> QED BY <1>6, <1>7, <1>8, <1>9, <1>10 DEF BInv

LEMMA HarvestedStep ==
  ASSUME BInv, NEW t \in Tasks, Harvested(t)
  PROVE  BInv'
<1>1. /\ UNCHANGED <<pc, carrier, verifies, default, registry, active, checkers, stop, overlapped,
                     cut, quiet>>
      /\ dying' = dying \ {t} /\ chrome' = chrome \ {Repair(t)} /\ t \in dying
  BY DEF Harvested, CleanedUp, checkVars, noteVars
<1>2. BrowserTypes' /\ CdpInv' /\ DefaultInv'
  BY <1>1 DEF BInv, BrowserTypes, CdpInv, DefaultInv
<1>3. KilledInv'
  BY <1>1 DEF BInv, KilledInv
<1>4. SpawnInv'
  <2>1. \A c : Reusable(c)' => Reusable(c)
    BY <1>1 DEF Reusable
  <2>2. \A u \in Tasks : Repair(u) \in chrome' => Repair(u) \in chrome /\ u # t
    BY <1>1
  <2> QED BY <1>1, <2>1, <2>2 DEF BInv, SpawnInv, SpawnFor
<1>5. QuietInv'
  BY <1>1 DEF BInv, QuietInv
<1> QED BY <1>2, <1>3, <1>4, <1>5 DEF BInv

LEMMA WithdrawStep ==
  ASSUME BInv, NEW t \in Tasks, Withdraw(t)
  PROVE  BInv'
<1>1. /\ UNCHANGED <<pc, carrier, verifies, chrome, default, registry, dying, stop, overlapped, cut,
                     quiet>>
      /\ checkers' = [checkers EXCEPT ![t] = @ - 1] /\ checkers[t] > 0
  BY DEF Withdraw, noteVars
<1>2. BrowserTypes'
  <2>1. checkers' \in [Tasks -> Nat]
    <3>1. checkers \in [Tasks -> Nat]
      BY DEF BInv, BrowserTypes
    <3>2. checkers[t] - 1 \in Nat
      BY <1>1, <3>1
    <3> QED BY <1>1, <3>1, <3>2
  <2>2. active' \in [Carriers -> Tasks \cup {None}]
    BY DEF Withdraw, BInv, BrowserTypes
  <2> QED BY <1>1, <2>1, <2>2 DEF BInv, BrowserTypes
<1>3. CdpInv' /\ DefaultInv' /\ KilledInv'
  BY <1>1 DEF BInv, CdpInv, DefaultInv, KilledInv
<1>4. SpawnInv'
  BY <1>1 DEF BInv, SpawnInv, SpawnFor, Reusable
<1>5. QuietInv'
  BY <1>1 DEF BInv, BrowserTypes, QuietInv
<1> QED BY <1>2, <1>3, <1>4, <1>5 DEF BInv
----------------------------------------------------------------------------
(* Crashes, and the end of the process                                     *)

\* Fewer processes, and nothing else, is always fine.
LEMMA FewerKeep ==
  ASSUME BInv, chrome' \subseteq chrome,
         UNCHANGED <<pc, carrier, verifies, default, registry, active, checkers, dying, stop,
                     overlapped, cut, quiet>>
  PROVE  BInv'
<1>1. BrowserTypes' /\ CdpInv' /\ DefaultInv' /\ KilledInv'
  BY DEF BInv, BrowserTypes, CdpInv, DefaultInv, KilledInv
<1>2. SpawnInv'
  <2>1. \A c : Reusable(c)' => Reusable(c)
    BY DEF Reusable
  <2> QED BY <2>1 DEF BInv, SpawnInv, SpawnFor
<1>3. QuietInv'
  BY DEF BInv, QuietInv, OnlyDefaultsLost
<1> QED BY <1>1, <1>2, <1>3 DEF BInv

\* What verifiers leave behind, and where they are then.
LEMMA CancelledVerifiers ==
  ASSUME BInv, CancelRepairs
  PROVE  /\ pc' \in [Coroutines -> PCs] /\ chrome' \subseteq Process
         /\ \A t \in Tasks : pc'[t] = pc[t]
         /\ \A v \in Verifiers : pc'[v] = "over"
         /\ \A t \in Tasks : Repair(t) \in chrome' => Repair(t) \in chrome
         /\ \A x \in Coroutines : Cdp(x) \in chrome' =>
               Cdp(x) \in chrome /\ (x \in Verifiers => pc[x] = "closing")
<1>1. /\ pc' = [x \in Coroutines |-> IF x \in Verifiers THEN "over" ELSE pc[x]]
      /\ chrome' = LeftByVerifiers
  BY DEF CancelRepairs
<1>2. \A p \in chrome' : \/ p \in chrome /\ p \notin {Cdp(v) : v \in {w \in Verifiers : pc[w] # "closing"}}
                         \/ \E v \in Verifiers : p = Default(v)
  BY <1>1 DEF LeftByVerifiers
<1>3. chrome' \subseteq Process
  BY <1>2, Kinds DEF BInv, BrowserTypes, Coroutines
<1>4. \A t \in Tasks : Repair(t) \in chrome' => Repair(t) \in chrome
  BY <1>2, Kinds
<1>5. \A x \in Coroutines : Cdp(x) \in chrome' =>
         Cdp(x) \in chrome /\ (x \in Verifiers => pc[x] = "closing")
  BY <1>2, Kinds
<1>6. pc \in [Coroutines -> PCs] /\ "over" \in PCs
  BY DEF BInv, BrowserTypes, PCs
<1>7. /\ pc' \in [Coroutines -> PCs]
      /\ \A t \in Tasks : pc'[t] = pc[t]
      /\ \A v \in Verifiers : pc'[v] = "over"
  BY <1>1, <1>6, BrowserConstants DEF Coroutines
<1> QED BY <1>3, <1>4, <1>5, <1>7

LEMMA CancelStep ==
  ASSUME BInv, CancelRepairs
  PROVE  BInv'
<1>1. /\ UNCHANGED <<carrier, default, registry, active, overlapped, cut>>
      /\ stop.phase = "run" /\ dying' = {} /\ checkers' = [t \in Tasks |-> 0]
      /\ verifies' = [v \in Verifiers |-> None]
      /\ stop' = [stop EXCEPT !.phase = "cleanup",
                              !.left = {c \in Carriers : registry[c] # None}]
      /\ quiet' = (UnderWay = {} /\ dying = {} /\ \A v \in Verifiers : pc[v] # "closing")
  BY DEF CancelRepairs
<1>2. /\ stop \in Stop /\ stop' \in Stop /\ stop'.phase = "cleanup" /\ stop'.cur = stop.cur
      /\ stop'.left = {c \in Carriers : registry[c] # None}
  <2>1. PICK l : l = {c \in Carriers : registry[c] # None}
    OBVIOUS
  <2>2. l \in SUBSET Carriers /\ stop \in Stop
    BY <2>1 DEF BInv, BrowserTypes
  <2>3. stop' = [stop EXCEPT !.phase = "cleanup", !.left = l]
    BY <1>1, <2>1
  <2> QED BY <2>1, <2>2, <2>3 DEF Stop
<1>3. stop.cur = None
  BY <1>1 DEF BInv, KilledInv
<1>4. BrowserTypes'
  <2>1. quiet' \in BOOLEAN
    BY <1>1
  <2> QED BY <1>1, <1>2, <2>1, CancelledVerifiers DEF BInv, BrowserTypes
<1>5. CdpInv'
  <2> SUFFICES ASSUME NEW x \in Coroutines, Cdp(x) \in chrome' \ cut'
               PROVE  pc'[x] \in CdpHeld \/ (x \in Verifiers /\ ~quiet')
    BY <1>2 DEF CdpInv
  <2>1. CASE x \in Verifiers
    BY <1>1, <2>1, CancelledVerifiers
  <2>2. CASE x \in Tasks
    BY <1>1, <2>2, CancelledVerifiers, BrowserConstants DEF BInv, CdpInv, Coroutines
  <2> QED BY <2>1, <2>2 DEF Coroutines
<1>6. KilledInv'
  <2>1. \A c \in Carriers : registry[c] # None => registry[c] \in Tasks
    BY DEF BInv, BrowserTypes
  <2> QED BY <1>1, <1>2, <1>3, <2>1, CancelledVerifiers DEF BInv, KilledInv
<1>7. DefaultInv' /\ SpawnInv'
  BY <1>2 DEF DefaultInv, SpawnInv
<1>8. QuietInv'
  <2> SUFFICES ASSUME quiet'
               PROVE  /\ \A t \in Tasks : pc'[t] \in {"idle", "over"} /\ checkers'[t] = 0
                      /\ dying' = {}
                      /\ OnlyDefaultsLost' =>
                           \A t \in Tasks : Repair(t) \in chrome' =>
                             registry'[carrier'[t]] = t /\ carrier'[t] \in stop'.left
    BY <1>2, CancelledVerifiers DEF QuietInv
  <2>1. /\ \A t \in Tasks : pc[t] \in {"idle", "over"}
        /\ dying = {}
    BY <1>1 DEF UnderWay
  <2>2. ASSUME OnlyDefaultsLost, NEW t \in Tasks, Repair(t) \in chrome
        PROVE  registry[carrier[t]] = t /\ carrier[t] \in stop'.left
    <3>1. carrier[t] \in Carriers \ overlapped
      <4>1. carrier[t] \in Carriers
        BY DEF BInv, BrowserTypes
      <4> QED BY <2>2, <4>1, BrowserConstants DEF OnlyDefaultsLost
    <3>2. Repair(t) \notin cut
      BY <2>2, Kinds DEF OnlyDefaultsLost
    <3>3. registry[carrier[t]] = t
      BY <1>1, <2>1, <2>2, <3>1, <3>2 DEF BInv, SpawnInv, SpawnFor
    <3> QED BY <1>2, <3>1, <3>3, BrowserConstants DEF Coroutines
  <2>3. OnlyDefaultsLost' <=> OnlyDefaultsLost
    BY <1>1 DEF OnlyDefaultsLost
  <2> QED BY <1>1, <2>1, <2>2, <2>3, CancelledVerifiers
<1> QED BY <1>4, <1>5, <1>6, <1>7, <1>8 DEF BInv

\* cleanup_all takes the next browser out.
LEMMA CleanNextStep ==
  ASSUME BInv, NEW c \in Carriers, CleanNext(c)
  PROVE  BInv'
<1>1. /\ UNCHANGED <<pc, carrier, verifies, chrome, default, active, checkers, dying, overlapped,
                     cut, quiet>>
      /\ stop.phase = "cleanup" /\ stop.cur = None /\ registry' = TakenOut(c)
      /\ stop' = [stop EXCEPT !.left = @ \ {c},
                              !.cur = IF Alive(registry[c]) THEN registry[c] ELSE None]
  BY DEF CleanNext, checkVars, noteVars
<1>2. /\ registry' \in [Carriers -> Tasks \cup {None}] /\ registry'[c] = None
      /\ \A d \in Carriers \ {c} : registry'[d] = registry[d]
      /\ \A d \in Carriers : registry'[d] # None => registry'[d] = registry[d]
  BY <1>1, TakenOutFacts
<1>3. PICK k : k = IF Alive(registry[c]) THEN registry[c] ELSE None
  OBVIOUS
<1>4. /\ k \in Tasks \cup {None}
      /\ k # None => k = registry[c] /\ carrier[k] = c /\ pc[k] = "over" /\ k \notin dying
      /\ registry[c] # None /\ Repair(registry[c]) \in chrome => k = registry[c]
      /\ \A u \in Tasks : carrier[u] \in Carriers
      /\ dying \subseteq Tasks
  <2>1. /\ registry[c] \in Tasks \cup {None}
        /\ registry[c] # None => carrier[registry[c]] = c /\ pc[registry[c]] = "over"
        /\ \A u \in dying : u \in Tasks /\ registry[carrier[u]] # u
        /\ \A u \in Tasks : carrier[u] \in Carriers
    BY DEF BInv, BrowserTypes, KilledInv
  <2>2. k = None \/ (k = registry[c] /\ k # None)
    BY <1>3 DEF Alive
  <2>3. registry[c] # None /\ Repair(registry[c]) \in chrome => k = registry[c]
    BY <1>3 DEF Alive
  <2>4. dying \subseteq Tasks
    BY <2>1
  <2> QED BY <2>1, <2>2, <2>3, <2>4
<1>5. /\ stop' \in Stop /\ stop'.phase = "cleanup" /\ stop'.cur = k
      /\ stop'.left = stop.left \ {c}
  <2>1. stop \in Stop /\ stop' = [stop EXCEPT !.left = stop.left \ {c}, !.cur = k]
    BY <1>1, <1>3 DEF BInv, BrowserTypes, Stop
  <2> QED BY <1>1, <1>4, <2>1 DEF Stop
<1>6. BrowserTypes'
  BY <1>1, <1>2, <1>5 DEF BInv, BrowserTypes
<1>7. CdpInv' /\ DefaultInv' /\ SpawnInv'
  BY <1>1, <1>5 DEF BInv, CdpInv, DefaultInv, SpawnInv
<1>8. KilledInv'
  <2>1. \A d \in Carriers : registry'[d] # None => pc'[registry'[d]] = "over"
    BY <1>1, <1>2 DEF BInv, KilledInv
  <2>2. \A u \in dying' : pc'[u] = "over" /\ registry'[carrier'[u]] # u /\ stop'.cur # u
    <3> SUFFICES ASSUME NEW u \in dying
                 PROVE  pc[u] = "over" /\ registry'[carrier[u]] # u /\ k # u
      BY <1>1, <1>5
    <3>1. u \in Tasks /\ carrier[u] \in Carriers /\ u # None
      BY <1>4, BrowserConstants DEF Coroutines
    <3> QED BY <1>2, <1>4, <3>1 DEF BInv, KilledInv
  <2>3. k # None => pc'[k] = "over" /\ registry'[carrier'[k]] # k
    BY <1>1, <1>2, <1>4
  <2> QED BY <1>5, <2>1, <2>2, <2>3 DEF KilledInv
<1>9. QuietInv'
  <2> SUFFICES ASSUME quiet
               PROVE  /\ \A v \in Verifiers : pc[v] = "over"
                      /\ \A t \in Tasks : pc[t] \in {"idle", "over"} /\ checkers[t] = 0
                      /\ dying = {}
                      /\ OnlyDefaultsLost =>
                           \A t \in Tasks : Repair(t) \in chrome =>
                             \/ k = t
                             \/ registry'[carrier[t]] = t /\ carrier[t] \in stop.left \ {c}
    BY <1>1, <1>5 DEF BInv, QuietInv, OnlyDefaultsLost
  <2>1. ASSUME OnlyDefaultsLost, NEW t \in Tasks, Repair(t) \in chrome
        PROVE  \/ k = t
               \/ registry'[carrier[t]] = t /\ carrier[t] \in stop.left \ {c}
    <3>1. registry[carrier[t]] = t /\ carrier[t] \in stop.left /\ t # None
      BY <1>1, <2>1, BrowserConstants DEF BInv, QuietInv, Coroutines
    <3>2. CASE carrier[t] = c
      BY <1>4, <2>1, <3>1, <3>2
    <3>3. CASE carrier[t] # c
      BY <1>2, <1>4, <3>1, <3>3
    <3> QED BY <3>2, <3>3
  <2> QED BY <1>1, <2>1 DEF BInv, QuietInv
<1> QED BY <1>6, <1>7, <1>8, <1>9 DEF BInv

\* cleanup_all's harvest is over.
LEMMA CleanDoneStep ==
  ASSUME BInv, CleanDone
  PROVE  BInv'
<1>1. PICK k : k = stop.cur
  OBVIOUS
<1>2. /\ UNCHANGED <<pc, carrier, verifies, default, registry, active, checkers, dying, overlapped,
                     cut, quiet>>
      /\ chrome' = chrome \ {Repair(k)} /\ k # None /\ stop.phase = "cleanup"
      /\ stop' = [stop EXCEPT !.cur = None]
  BY <1>1 DEF CleanDone, CleanedUp, repairVars, checkVars, noteVars, BInv, KilledInv
<1>3. /\ stop' \in Stop /\ stop'.phase = "cleanup" /\ stop'.cur = None /\ stop'.left = stop.left
  BY <1>2 DEF BInv, BrowserTypes, Stop
<1>4. BrowserTypes' /\ CdpInv' /\ DefaultInv' /\ SpawnInv'
  <2>1. BrowserTypes' /\ CdpInv'
    BY <1>2, <1>3 DEF BInv, BrowserTypes, CdpInv
  <2>2. DefaultInv' /\ SpawnInv'
    BY <1>3 DEF DefaultInv, SpawnInv
  <2> QED BY <2>1, <2>2
<1>5. KilledInv'
  <2>1. None \notin dying
    BY BrowserConstants DEF BInv, BrowserTypes, Coroutines
  <2> QED BY <1>2, <1>3, <2>1 DEF BInv, KilledInv
<1>6. QuietInv'
  <2>1. \A t \in Tasks : Repair(t) \in chrome' => Repair(t) \in chrome /\ t # k
    BY <1>2
  <2> QED BY <1>1, <1>2, <1>3, <2>1 DEF BInv, QuietInv, OnlyDefaultsLost
<1> QED BY <1>4, <1>5, <1>6 DEF BInv

LEMMA StopRunnerStep ==
  ASSUME BInv, StopRunner
  PROVE  BInv'
<1>1. /\ UNCHANGED <<pc, carrier, verifies, registry, active, checkers, dying, overlapped, cut, quiet>>
      /\ stop.phase = "cleanup" /\ stop.cur = None /\ stop.left = {}
      /\ stop' = [stop EXCEPT !.phase = "stopped"] /\ default' = None
      /\ chrome' = {p \in chrome : p.kind # "default"}
  BY DEF StopRunner, repairVars, checkVars, noteVars
<1>2. /\ stop' \in Stop /\ stop'.phase = "stopped" /\ stop'.cur = None /\ stop'.left = {}
  BY <1>1 DEF BInv, BrowserTypes, Stop
<1>3. /\ chrome' \subseteq chrome
      /\ \A x \in Coroutines : Default(x) \notin chrome'
  BY <1>1, Kinds
<1>4. BrowserTypes'
  BY <1>1, <1>2, <1>3 DEF BInv, BrowserTypes
<1>5. CdpInv'
  BY <1>1, <1>3 DEF BInv, CdpInv
<1>6. KilledInv'
  BY <1>1, <1>2 DEF BInv, KilledInv
<1>7. DefaultInv' /\ SpawnInv'
  BY <1>2 DEF DefaultInv, SpawnInv
<1>8. QuietInv'
  BY <1>1, <1>2, <1>3 DEF BInv, QuietInv, OnlyDefaultsLost
<1> QED BY <1>4, <1>5, <1>6, <1>7, <1>8 DEF BInv

LEMMA LoopEndsStep ==
  ASSUME BInv, LoopEnds
  PROVE  BInv'
<1>1. /\ UNCHANGED <<pc, carrier, verifies, default, registry, active, checkers, dying, overlapped,
                     cut, quiet>>
      /\ stop.phase = "stopped" /\ stop' = [stop EXCEPT !.phase = "exited"]
      /\ chrome' \subseteq chrome
  BY DEF LoopEnds, repairVars, checkVars, noteVars
<1>2. /\ stop' \in Stop /\ stop'.phase = "exited" /\ stop'.cur = stop.cur /\ stop'.left = stop.left
  BY <1>1 DEF BInv, BrowserTypes, Stop
<1>3. stop.cur = None /\ stop.left = {}
  BY <1>1 DEF BInv, KilledInv
<1>4. BrowserTypes'
  BY <1>1, <1>2 DEF BInv, BrowserTypes
<1>5. CdpInv'
  BY <1>1 DEF BInv, CdpInv
<1>6. KilledInv'
  BY <1>1, <1>2, <1>3 DEF BInv, KilledInv
<1>7. DefaultInv' /\ SpawnInv'
  BY <1>2 DEF DefaultInv, SpawnInv
<1>8. QuietInv'
  BY <1>1, <1>2 DEF BInv, QuietInv, OnlyDefaultsLost
<1> QED BY <1>4, <1>5, <1>6, <1>7, <1>8 DEF BInv
----------------------------------------------------------------------------
LEMMA BNextInv == BInv /\ [Next]_vars => BInv'
<1> SUFFICES ASSUME BInv, [Next]_vars
             PROVE  BInv'
  OBVIOUS
<1>1. ASSUME NEW x \in Coroutines,
             \/ EnterDefault(x) \/ Launched(x) \/ Opened(x) \/ EnterCdp(x) \/ Connected(x)
             \/ Leave(x)
      PROVE  BInv'
  BY <1>1, EnterDefaultStep, LaunchedStep, EnterCdpStep, ContextStep
<1>2. ASSUME NEW t \in Tasks,
             \/ Closed(t) \/ Unrepaired(t) \/ NoSpawn(t) \/ Spawn(t) \/ Spawned(t) \/ SpawnFails(t)
             \/ CutLaunching(t) \/ CutOpening(t) \/ CutInside(t) \/ CutClosed(t) \/ CutLeaving(t)
             \/ Conclude(t) \/ Harvested(t) \/ Withdraw(t)
      PROVE  BInv'
  BY <1>2, OverStep, SpawnStep, SpawnedStep, SpawnFailsStep, CutStep,
     ConcludeStep, HarvestedStep, WithdrawStep
<1>3. ASSUME NEW p \in Process, Dies(p)
      PROVE  BInv'
  <2>1. /\ chrome' \subseteq chrome
        /\ UNCHANGED <<pc, carrier, verifies, default, registry, active, checkers, dying, stop,
                       overlapped, cut, quiet>>
    BY <1>3 DEF Dies, repairVars, checkVars
  <2> QED BY <2>1, FewerKeep
<1>4. CASE UNCHANGED vars
  <2>1. /\ chrome' \subseteq chrome
        /\ UNCHANGED <<pc, carrier, verifies, default, registry, active, checkers, dying, stop,
                       overlapped, cut, quiet>>
    BY <1>4 DEF vars
  <2> QED BY <2>1, FewerKeep
<1> QED BY <1>1, <1>2, <1>3, <1>4, VerifiedStep, CleanNextStep, CancelStep, CleanDoneStep,
           StopRunnerStep, LoopEndsStep
        DEF Next

LEMMA BInvariance == Spec => []BInv
BY BInitInv, BNextInv, PTL DEF Spec
----------------------------------------------------------------------------
(* The invariants                                                          *)

\* The processes and their registries are well-formed, and a browser cleanup
\* is about to kill is in no registry and killed by one cleanup only
\* (repair_browser.py:236-237, 243-250).
THEOREM BrowserInvProved == Spec => []BrowserInv
<1>1. BInv => BrowserInv
  <2> SUFFICES ASSUME BInv PROVE BrowserTypes /\ DyingIsTakenOut
    BY DEF BrowserInv
  <2> QED BY DEF BInv, KilledInv, DyingIsTakenOut
<1> QED BY <1>1, BInvariance, PTL

\* While the service runs, every chromium has someone who will end it: any
\* number of logins, verifications, repairs, crashes, prunings and conclusions,
\* of this repair or of an earlier one, can lose one only through two launches
\* of the default browser or two spawns for one carrier that overlapped
\* (playwright_runner.py:48-53, repair_browser.py:110-118 and 220-221), or
\* through a login that is pruned while it launches, spawns or closes its own
\* Chrome (session_manager.py:326-327).
THEOREM LostByRaceOnlyProved == Spec => []LostByRaceOnly
<1>1. BInv => LostByRaceOnly
  <2> SUFFICES ASSUME BInv, stop.phase = "run", NEW p \in chrome \ cut
               PROVE  \/ Held(p)
                      \/ p.kind = "default" /\ "default" \in overlapped
                      \/ p.kind = "repair" /\ carrier[p.by] \in overlapped
    BY DEF LostByRaceOnly
  <2>1. PICK x : x = p.by
    OBVIOUS
  <2>2. \/ x \in Coroutines /\ p \in {Default(x), Cdp(x)}
        \/ x \in Tasks /\ p = Repair(x)
    BY <2>1, ProcessKinds DEF BInv, BrowserTypes
  <2>3. CASE x \in Coroutines /\ p = Default(x)
    <3>1. p.kind = "default"
      BY <2>3, Kinds
    <3>2. default = x \/ "default" \in overlapped
      BY <2>3 DEF BInv, DefaultInv
    <3> QED BY <2>1, <3>1, <3>2 DEF Held
  <2>4. CASE x \in Coroutines /\ p = Cdp(x)
    <3>1. p.kind = "cdp"
      BY <2>4, Kinds
    <3>2. pc[x] \in CdpHeld
      BY <2>4 DEF BInv, CdpInv
    <3> QED BY <2>1, <3>1, <3>2 DEF Held, CdpHeld
  <2>5. CASE x \in Tasks /\ p = Repair(x)
    <3>1. p.kind = "repair" /\ carrier[x] \in Carriers
      BY <2>5, Kinds DEF BInv, BrowserTypes
    <3>2. \/ pc[x] = "spawning" \/ registry[carrier[x]] = x \/ x \in dying
          \/ carrier[x] \in overlapped
      BY <2>5, <3>1 DEF BInv, SpawnInv, SpawnFor
    <3> QED BY <2>1, <3>1, <3>2 DEF Held
  <2> QED BY <2>2, <2>3, <2>4, <2>5
<1> QED BY <1>1, BInvariance, PTL

\* Outside of such overlaps a carrier never has two repair browsers besides the
\* ones being cleaned up and the ones whose login was pruned in the middle of the
\* spawn (repair_browser.py:96-118, 216-221 and 230).
THEOREM OneRepairBrowserProved == Spec => []OneRepairBrowser
<1>1. BInv => OneRepairBrowser
  <2> SUFFICES ASSUME BInv, NEW c \in Carriers \ overlapped
               PROVE  Cardinality({p \in chrome \ cut : p.kind = "repair" /\ carrier[p.by] = c
                                                  /\ p.by \notin dying /\ stop.cur # p.by
                                                  /\ stop.phase = "run"}) <= 1
    BY DEF OneRepairBrowser
  <2> DEFINE S == {p \in chrome \ cut : p.kind = "repair" /\ carrier[p.by] = c
                                  /\ p.by \notin dying /\ stop.cur # p.by
                                  /\ stop.phase = "run"}
  <2>1. \A p, q \in S : p = q
    <3> SUFFICES ASSUME NEW p \in S, NEW q \in S
                 PROVE  p = q
      OBVIOUS
    <3>1. PICK t, u : t = p.by /\ u = q.by
      OBVIOUS
    <3>2. t \in Tasks /\ p = Repair(t) /\ u \in Tasks /\ q = Repair(u)
      BY <3>1, Kinds, ProcessKinds DEF BInv, BrowserTypes
    <3>3. /\ stop.phase = "run" /\ carrier[t] = c /\ carrier[u] = c
          /\ t \notin dying /\ u \notin dying
          /\ Repair(t) \in chrome \ cut /\ Repair(u) \in chrome \ cut
      BY <3>1, <3>2
    <3>4. /\ pc[t] = "spawning" \/ registry[c] = t
          /\ pc[u] = "spawning" \/ registry[c] = u
          /\ pc[t] = "spawning" \/ pc[u] = "spawning" => ~Reusable(c)
          /\ pc[t] = "spawning" /\ pc[u] = "spawning" => t = u
      BY <3>2, <3>3 DEF BInv, SpawnInv, SpawnFor
    <3>5. registry[c] \in {t, u} => Reusable(c)
      BY <3>2, <3>3, BrowserConstants DEF Reusable, Coroutines
    <3>6. t = u
      BY <3>4, <3>5
    <3> QED BY <3>2, <3>6
  <2>2. CASE S = {}
    BY <2>2, FS_EmptySet
  <2>3. CASE S # {}
    <3>1. PICK p : S = {p}
      BY <2>1, <2>3
    <3> HIDE DEF S
    <3>2. Cardinality(S) = 1
      BY <3>1, FS_Singleton
    <3>3. Cardinality(S) <= 1
      BY <3>2
    <3> QED BY <3>3 DEF S
  <2> QED BY <2>2, <2>3
<1> QED BY <1>1, BInvariance, PTL

\* A teardown that begins while no login and no cleanup is under way, and no
\* verifier is closing its Chrome, leaves no chromium behind, unless one of a
\* login or a repair was lost before (main.py:46-54, repair_browser.py:11-12,
\* playwright_runner.py:55-61).
THEOREM QuietExitIsCleanProved == Spec => []QuietExitIsClean
<1>1. BInv => QuietExitIsClean
  <2> SUFFICES ASSUME BInv, stop.phase = "exited", quiet, OnlyDefaultsLost,
                      NEW p \in chrome
               PROVE  FALSE
    BY DEF QuietExitIsClean, OnlyDefaultsLost
  <2>1. PICK x : \/ x \in Coroutines /\ p \in {Default(x), Cdp(x)}
                 \/ x \in Tasks /\ p = Repair(x)
    BY ProcessKinds DEF BInv, BrowserTypes
  <2>2. CASE x \in Coroutines /\ p = Default(x)
    BY <2>2 DEF BInv, QuietInv
  <2>3. CASE x \in Coroutines /\ p = Cdp(x)
    <3>1. Cdp(x) \in chrome \ cut
      BY <2>3, Kinds DEF OnlyDefaultsLost
    <3>2. pc[x] \in {"idle", "over"}
      BY <2>3 DEF BInv, QuietInv, Coroutines
    <3> QED BY <2>3, <3>1, <3>2 DEF BInv, CdpInv, CdpHeld
  <2>4. CASE x \in Tasks /\ p = Repair(x)
    <3>1. stop.cur = None /\ stop.left = {} /\ x # None
      BY <2>4, BrowserConstants DEF BInv, KilledInv, Coroutines
    <3> QED BY <2>4, <3>1 DEF BInv, QuietInv
  <2> QED BY <2>1, <2>2, <2>3, <2>4
<1> QED BY <1>1, BInvariance, PTL
=============================================================================
