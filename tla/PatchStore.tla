----------------------------- MODULE PatchStore -----------------------------
(***************************************************************************)
(* What becomes of a fix that a repair has verified:                       *)
(*   - backend/auto_repair.py (_persist_and_push_patch) diffs /app against *)
(*     the image it was built as, keeps the diff and pushes it,            *)
(*   - backend/auto_repair_patches.py keeps it under storage/patches and   *)
(*     re-applies what is there at every boot of the container,            *)
(*   - Dockerfile: the image's baseline commit, and apply before uvicorn.  *)
(*                                                                         *)
(* A tree is the set of the fixes in it.  A patch is a set of fixes, made  *)
(* against a base: it applies if none of them is in the tree yet, unless   *)
(* the tree has moved away from that base, when it may or may not.         *)
(***************************************************************************)
EXTENDS Naturals, FiniteSets

CONSTANTS Fixes,   \* one per repair session
          MaxBoots \* bound: starts of the container after the first

ASSUME PatchConstants == IsFiniteSet(Fixes) /\ MaxBoots \in Nat

VARIABLES main,     \* GitHub's main
          branch,   \* fix -> the tree of branch auto-repair/<session>, or {}
          image,    \* HEAD of /app: what the running container was built from
          tree,     \* the working tree of /app
          files,    \* storage/patches
          booting,  \* numbers of the patches this boot has not reached
          writable, \* storage can be written
          job,      \* fix -> its repair
          boots, recreated \* number of starts; no start kept its working tree

vars == <<main, branch, image, tree, files, booting, writable, job, boots,
          recreated>>

Names == {"patch", "LANDED", "SKIPPED"}

\* the time stamp in a file's name orders it; content and base are its diff
File == [at : 1..Cardinality(Fixes), by : Fixes, content : SUBSET Fixes,
         base : SUBSET Fixes, name : Names]

Job == [pc : {"idle", "edited", "accepted", "push", "cloned", "over"},
        patch : SUBSET Fixes, clone : SUBSET Fixes]

Idle == [pc |-> "idle", patch |-> {}, clone |-> {}]
Over == [Idle EXCEPT !.pc = "over"]

Init ==
  /\ main = {} /\ image = {} /\ tree = {} /\ branch = [f \in Fixes |-> {}]
  /\ files = {} /\ booting = {} /\ writable = TRUE
  /\ job = [f \in Fixes |-> Idle] /\ boots = 0 /\ recreated = TRUE

\* uvicorn is started when apply has been through all patches
Up == booting = {}
Pending == {p \in files : p.name = "patch"}
----------------------------------------------------------------------------
(* A repair: claude edits /app, the verifier accepts, the patch is kept    *)

\* claude changes the adapter, or takes back what it changed: its own fix, that is,
\* for what the process does in /app is bounded by its prompt alone
Edit(f) ==
  /\ Up /\ job[f].pc = "idle" /\ f \notin tree
  /\ tree' = tree \cup {f} /\ job' = [job EXCEPT ![f].pc = "edited"]
  /\ UNCHANGED <<main, branch, image, files, booting, writable, boots, recreated>>

Revert(f) ==
  /\ Up /\ job[f].pc = "edited"
  /\ tree' = tree \ {f} /\ job' = [job EXCEPT ![f].pc = "idle"]
  /\ UNCHANGED <<main, branch, image, files, booting, writable, boots, recreated>>

Accept(f) ==
  /\ Up /\ job[f].pc = "edited"
  /\ job' = [job EXCEPT ![f].pc = "accepted"]
  /\ UNCHANGED <<main, branch, image, tree, files, booting, writable, boots, recreated>>

\* git diff HEAD is of the whole working tree: it holds the fix, what earlier
\* patches brought back, and whatever other repairs are just trying out
Diff == tree \ image

NextNumber == Cardinality(files) + 1

\* record raises if the volume cannot be written; the push is tried all the same.
\* A write that is cut off leaves a part c of the diff: some whole changes, or, if it
\* ends inside one, nothing git would take
Recorded(f, c) ==
  IF writable
  THEN files \cup {[at |-> NextNumber, by |-> f, content |-> c,
                    base |-> image, name |-> "patch"]}
  ELSE files

Capture(f) ==
  /\ Up /\ job[f].pc = "accepted"
  /\ \E c \in SUBSET Diff : files' = Recorded(f, c)
  /\ job' = [job EXCEPT ![f] = [pc |-> "push", patch |-> Diff, clone |-> {}]]
  /\ UNCHANGED <<main, branch, image, tree, booting, writable, boots, recreated>>

Clone(f) ==
  /\ Up /\ job[f].pc = "push"
  /\ job' = [job EXCEPT ![f].pc = "cloned", ![f].clone = main]
  /\ UNCHANGED <<main, branch, image, tree, files, booting, writable, boots, recreated>>

\* the patch applies to the clone, is committed and pushed
Publish(f) ==
  /\ Up /\ job[f].pc = "cloned" /\ job[f].patch \cap job[f].clone = {}
  /\ branch' = [branch EXCEPT ![f] = job[f].patch \cup job[f].clone]
  /\ job' = [job EXCEPT ![f] = Over]
  /\ UNCHANGED <<main, image, tree, files, booting, writable, boots, recreated>>

\* the diff, no PAT, or any git command fails: logged, and that is all
GiveUp(f) ==
  /\ Up /\ job[f].pc \in {"accepted", "push", "cloned"}
  /\ job' = [job EXCEPT ![f] = Over]
  /\ UNCHANGED <<main, branch, image, tree, files, booting, writable, boots, recreated>>
----------------------------------------------------------------------------
(* Around it: the maintainer merges and deploys, the container restarts    *)

Merge(f) ==
  /\ ~(branch[f] \subseteq main)
  /\ main' = main \cup branch[f]
  /\ UNCHANGED <<branch, image, tree, files, booting, writable, job, boots, recreated>>

VolumeFails ==
  /\ writable /\ writable' = FALSE
  /\ UNCHANGED <<main, branch, image, tree, files, booting, job, boots, recreated>>

Boot ==
  /\ boots < MaxBoots /\ boots' = boots + 1
  /\ booting' = {p.at : p \in Pending}
  /\ job' = [f \in Fixes |-> IF job[f].pc = "idle" THEN Idle ELSE Over]
  /\ UNCHANGED <<main, branch, files, writable>>

\* a new container, of the same image or of a later main
Recreate(i) ==
  /\ image \subseteq i /\ i \subseteq main
  /\ image' = i /\ tree' = i /\ Boot /\ UNCHANGED recreated

\* docker restart: the same container, with what was edited in it
Restart == Boot /\ recreated' = FALSE /\ UNCHANGED <<image, tree>>

\* in the order of their names
IsNext(p) == p.at \in booting /\ \A n \in booting : p.at <= n

\* git apply --check finds the fixes, or something else, where it expects
\* the code they change
Overlaps(p) == p.content \cap tree # {}
MayConflict(p) == Overlaps(p) \/ tree # p.base

\* cut off inside a change: git calls that corrupt, and takes nothing of it
Corrupt(p) == p.content = {}

\* mutant: a patch that does not apply keeps its name
NeverRenamed(p, n) == files

\* _rename_safely
Renamed(p, n) ==
  IF writable THEN (files \ {p}) \cup {[p EXCEPT !.name = n]} ELSE files

\* mutant: put away, in case the next boot finds it in place already
KeptOnce(p) == Renamed(p, "LANDED")

\* an applied patch stays for the next boot
Kept(p) == files

Applied(p) ==
  /\ ~Overlaps(p) /\ ~Corrupt(p)
  /\ tree' = tree \cup p.content /\ files' = Kept(p)

\* "patch does not apply": taken for one that main has by now
Landed(p) ==
  /\ MayConflict(p) /\ ~Corrupt(p)
  /\ files' = Renamed(p, "LANDED") /\ UNCHANGED tree

\* any other complaint of git
Skipped(p) ==
  /\ ~Overlaps(p) /\ files' = Renamed(p, "SKIPPED") /\ UNCHANGED tree

BootPatch ==
  /\ \E p \in files : /\ IsNext(p) /\ booting' = booting \ {p.at}
                      /\ Applied(p) \/ Landed(p) \/ Skipped(p)
  /\ UNCHANGED <<main, branch, image, writable, job, boots, recreated>>

Next ==
  \/ \E f \in Fixes : \/ Edit(f) \/ Revert(f) \/ Accept(f) \/ Capture(f)
                      \/ Clone(f) \/ Publish(f) \/ GiveUp(f) \/ Merge(f)
  \/ VolumeFails
  \/ \E i \in SUBSET Fixes : Recreate(i)
  \/ Restart
  \/ BootPatch

Spec == Init /\ [][Next]_vars
----------------------------------------------------------------------------
\* Every variable has its type, and no two files share a name.
PatchTypes ==
  /\ {main, image, tree} \subseteq SUBSET Fixes
  /\ branch \in [Fixes -> SUBSET Fixes] /\ files \subseteq File
  /\ booting \subseteq {p.at : p \in files} /\ writable \in BOOLEAN
  /\ job \in [Fixes -> Job] /\ boots \in 0..MaxBoots /\ recreated \in BOOLEAN
  /\ \A p, q \in files : p.at = q.at => p = q

Verified == {p.by : p \in files}

\* A patch still called .patch once the service is up is needed and live: the
\* verified fixes in it are in the running code and not in the image, whatever
\* was merged, deployed, overlapped or put away at the boots before
\* (auto_repair_patches.py:93-97).
PendingIsLive ==
  Up /\ writable => \A p \in Pending : (p.content \cap Verified) \subseteq tree \ image

\* The one patch there is comes back, with the fix it was recorded for if its write
\* got that far, at every start of a new container of the image it was made for,
\* unless git refused it for a reason of its own (auto_repair_patches.py:5-8).
\* Restarts in place and a second patch are what this does not extend to:
\* FixesSurvive.
LonePatchReturns ==
  \A p \in files :
     files = {p} /\ image = p.base /\ recreated /\ Up /\ writable
     => p.name = "SKIPPED" \/ (p.name = "patch" /\ p.content \cap {p.by} \subseteq tree)

\* What ends up on a branch for review holds the fix of its session, and once
\* it is merged and deployed the patch that carried the fix is retired at that
\* boot (auto_repair_patches.py:94-97): no patch competes with the image.
DeployRetiresPatch ==
  /\ \A f \in Fixes : branch[f] # {} => f \in branch[f]
  /\ Up /\ writable => \A p \in Pending : p.content \cap image = {}

\* A run checks the two together: the store is well-formed, and a deployed patch
\* is retired (auto_repair_patches.py:94-97).
PatchInv == PatchTypes /\ DeployRetiresPatch
----------------------------------------------------------------------------
(* What the documents say and the code does not do                         *)

\* auto_repair_patches.py:16-17: in-container hot patches survive restarts
\* until the human merges the branch.  Every verified fix that storage/patches
\* has whole, and git never complained about otherwise, runs whenever the service
\* is up.
FixesSurvive ==
  Up /\ writable /\ (\A p \in files : p.name # "SKIPPED") /\ main = {}
  => \A p \in files : p.content \cap {p.by} \subseteq tree
=============================================================================
