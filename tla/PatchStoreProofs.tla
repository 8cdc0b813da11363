-------------------------- MODULE PatchStoreProofs --------------------------
(***************************************************************************)
(* Proofs about PatchStore, for every finite set of repair sessions and    *)
(* any number of starts: the store is well-formed, a deployed patch is     *)
(* retired, a patch that is still pending is live and needed, and one that *)
(* is alone on the image it was made for comes back at every start.        *)
(***************************************************************************)
EXTENDS PatchStore, FiniteSetTheorems, TLAPS

\* File without the bound on its number, which follows from the rest
Patch == [at : Nat, by : Fixes, content : SUBSET Fixes, base : SUBSET Fixes,
          name : Names]

Shapes ==
  /\ main \in SUBSET Fixes /\ image \in SUBSET Fixes /\ tree \in SUBSET Fixes
  /\ branch \in [Fixes -> SUBSET Fixes] /\ files \subseteq Patch
  /\ booting \subseteq {p.at : p \in files} /\ writable \in BOOLEAN
  /\ job \in [Fixes -> Job] /\ boots \in 0..MaxBoots /\ recreated \in BOOLEAN

\* the number of the next patch is not taken
Numbered ==
  /\ IsFiniteSet(files)
  /\ \A p \in files : p.at \in 1..Cardinality(files)
  /\ \A p, q \in files : p.at = q.at => p = q

\* a repair records one patch, and edits no more
ByOneRepair ==
  /\ \A p \in files : job[p.by].pc \in {"push", "cloned", "over"}
  /\ \A p, q \in files : p.by = q.by => p = q

\* a fix stays in the tree from its edit to its diff, and from there on in what
\* the repair made of it
FixesKept ==
  /\ image \subseteq tree
  /\ \A f \in Fixes :
       /\ job[f].pc \in {"edited", "accepted"} => f \in tree \ image
       /\ job[f].pc \in {"push", "cloned"} => f \in job[f].patch
       /\ branch[f] # {} => f \in branch[f]

\* PendingIsLive and DeployRetiresPatch, of the patches this boot has reached
ReachedIsLive ==
  writable => \A p \in Pending : p.at \notin booting =>
                p.content \cap image = {} /\ p.content \cap Verified \subseteq tree

Inv == Shapes /\ Numbered /\ ByOneRepair /\ FixesKept /\ ReachedIsLive

\* Renaming one file, as a start does, leaves the numbers, the repairs and the
\* contents of the files what they are (auto_repair_patches.py:116-120).
LEMMA RenamedFiles ==
  ASSUME Shapes, Numbered, ByOneRepair, NEW p \in files, NEW n \in Names
  PROVE  /\ Renamed(p, n) \subseteq Patch /\ IsFiniteSet(Renamed(p, n))
         /\ Cardinality(Renamed(p, n)) = Cardinality(files)
         /\ \A r \in Renamed(p, n) : \E q \in files :
               /\ r.at = q.at /\ r.by = q.by /\ r.content = q.content
               /\ (writable /\ r.name = "patch" /\ n # "patch" => r = q /\ q # p)
         /\ \A q \in files : \E r \in Renamed(p, n) : r.at = q.at /\ r.by = q.by
         /\ \A r, s \in Renamed(p, n) : r.at = s.at \/ r.by = s.by => r = s
<1> DEFINE new == [p EXCEPT !.name = n]
           F == (files \ {p}) \cup {new}
<1>1. /\ new \in Patch /\ new.at = p.at /\ new.by = p.by
      /\ new.content = p.content /\ new.name = n
  BY DEF Shapes, Patch, Names
<1> HIDE DEF new
<1>2. CASE ~writable
  BY <1>2 DEF Renamed, Shapes, Numbered, ByOneRepair
<1>3. CASE writable
  <2>1. Renamed(p, n) = F
    BY <1>3 DEF Renamed, new
  <2>2. new \notin files \ {p}
    BY <1>1 DEF Numbered
  <2>3. IsFiniteSet(F) /\ Cardinality(F) = Cardinality(files)
    <3>1. /\ IsFiniteSet(files \ {p})
          /\ Cardinality(files \ {p}) = Cardinality(files) - 1
      BY FS_RemoveElement DEF Numbered
    <3>2. /\ IsFiniteSet(F)
          /\ Cardinality(F) = Cardinality(files \ {p}) + 1
      BY <2>2, <3>1, FS_AddElement
    <3>3. Cardinality(files) \in Nat
      BY FS_CardinalityType DEF Numbered
    <3> QED BY <3>1, <3>2, <3>3
  <2>4. F \subseteq Patch
    BY <1>1 DEF Shapes
  <2>5. \A r \in F : \E q \in files :
           /\ r.at = q.at /\ r.by = q.by /\ r.content = q.content
           /\ (writable /\ r.name = "patch" /\ n # "patch" => r = q /\ q # p)
    BY <1>1
  <2>6. \A q \in files : \E r \in F : r.at = q.at /\ r.by = q.by
    BY <1>1
  <2>7. \A r, s \in F : r.at = s.at \/ r.by = s.by => r = s
    BY <1>1 DEF Numbered, ByOneRepair
  <2> QED BY <2>1, <2>3, <2>4, <2>5, <2>6, <2>7
<1> QED BY <1>2, <1>3

LEMMA InitInv == Init => Inv
<1> SUFFICES ASSUME Init PROVE Inv
  OBVIOUS
<1>1. IsFiniteSet({})
  BY FS_EmptySet
<1>2. Shapes
  BY PatchConstants DEF Init, Shapes, Job, Idle
<1> QED BY <1>1, <1>2 DEF Init, Inv, Numbered, ByOneRepair, FixesKept, ReachedIsLive,
                          Pending, Idle

\* Steps that touch no patch: what they do to the trees, the branches and the
\* jobs keeps the fixes where they are (auto_repair.py:835-846).
LEMMA JobStep ==
  ASSUME Inv, NEW f \in Fixes,
         Edit(f) \/ Revert(f) \/ Accept(f) \/ Clone(f) \/ Publish(f) \/ GiveUp(f)
  PROVE  Inv'
<1> USE DEF Inv
<1>1. /\ UNCHANGED <<main, image, files, booting, writable, boots, recreated>>
      /\ tree' \in SUBSET Fixes /\ branch' \in [Fixes -> SUBSET Fixes]
      /\ job' \in [Fixes -> Job]
  <2>1. CASE Edit(f) \/ Revert(f) \/ Accept(f)
    BY <2>1 DEF Edit, Revert, Accept, Shapes, Job
  <2>2. CASE Clone(f)
    <3>1. job[f] \in Job /\ main \in SUBSET Fixes
      BY DEF Shapes
    <3>2. [job[f] EXCEPT !.pc = "cloned", !.clone = main] \in Job
      BY <3>1 DEF Job
    <3>3. job' = [job EXCEPT ![f] = [job[f] EXCEPT !.pc = "cloned", !.clone = main]]
      BY <2>2 DEF Clone, Shapes
    <3> QED BY <2>2, <3>2, <3>3 DEF Clone, Shapes
  <2>3. CASE Publish(f)
    BY <2>3 DEF Publish, Shapes, Job, Over, Idle
  <2>4. CASE GiveUp(f)
    BY <2>4 DEF GiveUp, Shapes, Job, Over, Idle
  <2> QED BY <2>1, <2>2, <2>3, <2>4
<1>2. Shapes' /\ Numbered'
  BY <1>1 DEF Shapes, Numbered
<1>3. \A g \in Fixes : job[g].pc \in {"push", "cloned", "over"}
                       => job'[g].pc \in {"push", "cloned", "over"}
  <2>1. CASE Edit(f) \/ Revert(f) \/ Accept(f)
    BY <2>1 DEF Edit, Revert, Accept, Shapes, Job
  <2>2. CASE Clone(f) \/ Publish(f) \/ GiveUp(f)
    BY <2>2 DEF Clone, Publish, GiveUp, Shapes, Job, Over, Idle
  <2> QED BY <2>1, <2>2
<1>4. ByOneRepair'
  <2>1. \A p \in files : p.by \in Fixes
    BY DEF Shapes, Patch
  <2> QED BY <1>1, <1>3, <2>1 DEF ByOneRepair
<1>5. FixesKept'
  <2>1. CASE Edit(f) \/ Revert(f) \/ Accept(f)
    BY <2>1 DEF Edit, Revert, Accept, FixesKept, Shapes, Job
  <2>2. CASE Clone(f)
    BY <2>2 DEF Clone, FixesKept, Shapes, Job
  <2>3. CASE Publish(f)
    BY <2>3 DEF Publish, FixesKept, Shapes, Job, Over, Idle
  <2>4. CASE GiveUp(f)
    BY <2>4 DEF GiveUp, FixesKept, Shapes, Job, Over, Idle
  <2> QED BY <2>1, <2>2, <2>3, <2>4
<1>6. ReachedIsLive'
  <2>1. \A g \in Verified : g \in tree => g \in tree'
    <3>1. CASE Revert(f)
      <4>1. f \notin Verified
        BY <3>1 DEF Revert, ByOneRepair, Verified
      <4> QED BY <3>1, <4>1 DEF Revert
    <3>2. CASE ~Revert(f)
      BY <3>2 DEF Edit, Accept, Clone, Publish, GiveUp
    <3> QED BY <3>1, <3>2
  <2> QED BY <1>1, <2>1 DEF ReachedIsLive, Pending, Verified
<1> QED BY <1>2, <1>4, <1>5, <1>6

\* A new patch has a number of its own, and holds what is in the tree and not
\* in the image (auto_repair.py:835-871, auto_repair_patches.py:72-88).
LEMMA CaptureStep ==
  ASSUME Inv, NEW f \in Fixes, Capture(f)
  PROVE  Inv'
<1> USE DEF Inv
<1>0. PICK c \in SUBSET Diff : files' = Recorded(f, c)
  BY DEF Capture
<1> DEFINE new == [at |-> NextNumber, by |-> f, content |-> c, base |-> image,
                   name |-> "patch"]
<1>1. /\ Up /\ job[f].pc = "accepted" /\ f \in tree \ image
      /\ UNCHANGED <<main, branch, image, tree, booting, writable, boots, recreated>>
      /\ job' = [job EXCEPT ![f] = [pc |-> "push", patch |-> Diff, clone |-> {}]]
      /\ files' = IF writable THEN files \cup {new} ELSE files
  BY <1>0 DEF Capture, Recorded, FixesKept
<1>2. Cardinality(files) \in Nat
  BY FS_CardinalityType DEF Numbered
<1>3. /\ new \in Patch /\ new.at = Cardinality(files) + 1 /\ new.by = f
      /\ new.content \subseteq tree \ image /\ new.name = "patch"
  BY <1>0, <1>2 DEF Patch, Names, NextNumber, Diff, Shapes
<1> HIDE DEF new
<1>4. new \notin files
  BY <1>2, <1>3 DEF Numbered
<1>5. job' \in [Fixes -> Job]
  BY <1>1 DEF Shapes, Job, Diff
<1>6. Shapes'
  BY <1>1, <1>3, <1>5 DEF Shapes
<1>7. Numbered'
  <2>1. CASE writable
    <3>1. /\ IsFiniteSet(files') /\ Cardinality(files') = Cardinality(files) + 1
      BY <1>1, <1>4, <2>1, FS_AddElement DEF Numbered
    <3>2. \A p \in files : p.at \in 1..Cardinality(files) /\ p.at # new.at
      BY <1>2, <1>3 DEF Numbered
    <3>3. \A p \in files' : p.at \in 1..Cardinality(files')
      BY <1>1, <1>2, <1>3, <3>1, <3>2
    <3>4. \A p, q \in files' : p.at = q.at => p = q
      BY <1>1, <3>2 DEF Numbered
    <3> QED BY <3>1, <3>3, <3>4 DEF Numbered
  <2> QED BY <1>1, <2>1 DEF Numbered
<1>8. ByOneRepair'
  <2>1. \A p \in files : p.by # f /\ p.by \in Fixes
    BY <1>1 DEF ByOneRepair, Shapes, Patch
  <2>2. job'[f].pc = "push" /\ \A g \in Fixes \ {f} : job'[g] = job[g]
    BY <1>1 DEF Shapes
  <2> QED BY <1>1, <1>3, <2>1, <2>2 DEF ByOneRepair
<1>9. FixesKept'
  <2>1. /\ job'[f].pc = "push" /\ job'[f].patch = tree \ image
        /\ \A g \in Fixes \ {f} : job'[g] = job[g]
    BY <1>1 DEF Shapes, Diff
  <2> QED BY <1>1, <2>1 DEF FixesKept
<1>10. ReachedIsLive'
  <2>1. SUFFICES ASSUME writable, NEW p \in Pending'
                 PROVE  /\ p.content \cap image = {}
                        /\ p.content \cap Verified' \subseteq tree
    BY <1>1 DEF ReachedIsLive
  <2>2. Verified' \subseteq Verified \cup {f}
    BY <1>1, <1>3 DEF Verified
  <2>3. CASE p \in files
    BY <1>1, <2>1, <2>2, <2>3 DEF ReachedIsLive, Pending, Up
  <2>4. CASE p = new
    BY <1>3, <2>4
  <2> QED BY <1>1, <2>1, <2>3, <2>4 DEF Pending
<1> QED BY <1>6, <1>7, <1>8, <1>9, <1>10

\* A start has reached no patch yet, and forgets what the repairs were doing
\* (Dockerfile; auto_repair_patches.py:91-98).
LEMMA BootStep ==
  ASSUME Inv, Boot, recreated' \in BOOLEAN,
         image' \in SUBSET Fixes, tree' \in SUBSET Fixes, image' \subseteq tree'
  PROVE  Inv'
<1> USE DEF Inv
<1>1. /\ UNCHANGED <<main, branch, files, writable>>
      /\ booting' = {p.at : p \in Pending} /\ boots < MaxBoots /\ boots' = boots + 1
      /\ \A f \in Fixes : job'[f] = IF job[f].pc = "idle" THEN Idle ELSE Over
  BY DEF Boot
<1>2. job' \in [Fixes -> Job]
  BY DEF Boot, Job, Idle, Over
<1>3. boots' \in 0..MaxBoots
  BY <1>1, PatchConstants DEF Shapes
<1>4. Shapes'
  BY <1>1, <1>2, <1>3 DEF Shapes, Pending
<1>5. Numbered'
  BY <1>1 DEF Numbered
<1>6. ByOneRepair'
  <2>1. \A p \in files : p.by \in Fixes
    BY DEF Shapes, Patch
  <2> QED BY <1>1, <2>1 DEF ByOneRepair, Over, Idle
<1>7. FixesKept'
  BY <1>1 DEF FixesKept, Idle, Over
<1>8. ReachedIsLive'
  BY <1>1 DEF ReachedIsLive, Pending
<1> QED BY <1>4, <1>5, <1>6, <1>7, <1>8

\* Going through the patches at a start: one that git applies is live from
\* there on, one it refuses is put away (auto_repair_patches.py:99-113).
LEMMA BootPatchStep ==
  ASSUME Inv, BootPatch
  PROVE  Inv'
<1> USE DEF Inv
<1>1. PICK p \in files : /\ IsNext(p) /\ booting' = booting \ {p.at}
                         /\ Applied(p) \/ Landed(p) \/ Skipped(p)
  BY DEF BootPatch
<1>2. UNCHANGED <<main, branch, image, writable, job, boots, recreated>>
  BY DEF BootPatch
<1>3. p \in Patch
  BY DEF Shapes
<1>4. CASE Applied(p)
  <2>1. files' = files /\ tree' = tree \cup p.content /\ p.content \cap tree = {}
    BY <1>4 DEF Applied, Kept, Overlaps
  <2>2. p.content \in SUBSET Fixes
    BY <1>3 DEF Patch
  <2>3. Shapes' /\ Numbered' /\ ByOneRepair'
    BY <1>1, <1>2, <2>1, <2>2 DEF Shapes, Numbered, ByOneRepair
  <2>4. FixesKept'
    BY <1>2, <2>1 DEF FixesKept
  <2>5. ReachedIsLive'
    <3>1. SUFFICES ASSUME writable, NEW q \in Pending, q.at \notin booting'
                   PROVE  /\ q.content \cap image = {}
                          /\ q.content \cap Verified \subseteq tree'
      BY <1>2, <2>1 DEF ReachedIsLive, Pending, Verified
    <3>2. CASE q.at = p.at
      BY <2>1, <3>2 DEF Numbered, Pending, FixesKept
    <3>3. CASE q.at # p.at
      BY <1>1, <2>1, <3>1, <3>3 DEF ReachedIsLive
    <3> QED BY <3>2, <3>3
  <2> QED BY <2>3, <2>4, <2>5
<1>5. CASE Landed(p) \/ Skipped(p)
  <2>1. PICK n \in {"LANDED", "SKIPPED"} : files' = Renamed(p, n) /\ tree' = tree
    BY <1>5 DEF Landed, Skipped
  <2>2. /\ files' \subseteq Patch /\ IsFiniteSet(files')
        /\ Cardinality(files') = Cardinality(files)
        /\ \A r \in files' : \E q \in files :
              /\ r.at = q.at /\ r.by = q.by /\ r.content = q.content
              /\ (writable /\ r.name = "patch" => r = q /\ q # p)
        /\ \A q \in files : \E r \in files' : r.at = q.at /\ r.by = q.by
        /\ \A r, s \in files' : r.at = s.at \/ r.by = s.by => r = s
    <3>1. Shapes /\ Numbered /\ ByOneRepair /\ n \in Names /\ n # "patch"
      BY DEF Names
    <3> QED BY <2>1, <3>1, RenamedFiles
  <2>3. Shapes'
    BY <1>1, <1>2, <2>1, <2>2 DEF Shapes
  <2>4. Numbered'
    BY <2>2 DEF Numbered
  <2>5. ByOneRepair'
    BY <1>2, <2>2 DEF ByOneRepair
  <2>6. FixesKept'
    BY <1>2, <2>1 DEF FixesKept
  <2>7. ReachedIsLive'
    <3>1. Verified' = Verified
      BY <2>2 DEF Verified
    <3>2. \A r \in Pending' : writable => r \in Pending /\ r.at # p.at
      BY <2>2 DEF Pending, Numbered
    <3> QED BY <1>1, <1>2, <2>1, <3>1, <3>2 DEF ReachedIsLive
  <2> QED BY <2>3, <2>4, <2>5, <2>6, <2>7
<1> QED BY <1>1, <1>4, <1>5

LEMMA NextInv == Inv /\ [Next]_vars => Inv'
<1> SUFFICES ASSUME Inv, [Next]_vars PROVE Inv'
  OBVIOUS
<1>1. ASSUME NEW f \in Fixes,
             Edit(f) \/ Revert(f) \/ Accept(f) \/ Clone(f) \/ Publish(f) \/ GiveUp(f)
      PROVE  Inv'
  BY <1>1, JobStep
<1>2. ASSUME NEW f \in Fixes, Capture(f) PROVE Inv'
  BY <1>2, CaptureStep
<1>3. ASSUME NEW f \in Fixes, Merge(f) PROVE Inv'
  BY <1>3 DEF Merge, Inv, Shapes, Numbered, ByOneRepair, FixesKept, ReachedIsLive,
              Pending, Verified
<1>4. CASE VolumeFails
  BY <1>4 DEF VolumeFails, Inv, Shapes, Numbered, ByOneRepair, FixesKept,
              ReachedIsLive, Pending, Verified
<1>5. ASSUME NEW i \in SUBSET Fixes, Recreate(i) PROVE Inv'
  BY <1>5, BootStep DEF Recreate, Inv, Shapes
<1>6. CASE Restart
  BY <1>6, BootStep DEF Restart, Inv, Shapes, FixesKept
<1>7. CASE BootPatch
  BY <1>7, BootPatchStep
<1>8. CASE UNCHANGED vars
  BY <1>8 DEF vars, Inv, Shapes, Numbered, ByOneRepair, FixesKept, ReachedIsLive,
              Pending, Verified
<1> QED BY <1>1, <1>2, <1>3, <1>4, <1>5, <1>6, <1>7, <1>8 DEF Next

LEMMA Invariance == Spec => []Inv
  BY InitInv, NextInv, PTL DEF Spec

\* There are no more files than repairs, so that the numbers of the files stay
\* within their bound (auto_repair_patches.py:61-69).
LEMMA InvTypes == Inv => PatchTypes
<1> SUFFICES ASSUME Inv PROVE PatchTypes
  OBVIOUS
<1> USE DEF Inv
<1>1. Cardinality(files) <= Cardinality(Fixes)
  <2> DEFINE by == [p \in files |-> p.by]
  <2>1. by \in [files -> Fixes]
    BY DEF Shapes, Patch
  <2>2. \A p, q \in files : by[p] = by[q] => p = q
    BY DEF ByOneRepair
  <2>3. by \in Injection(files, Fixes)
    BY <2>1, <2>2 DEF Injection, IsInjective
  <2> HIDE DEF by
  <2> QED BY <2>3, PatchConstants, FS_Injection
<1>2. Cardinality(files) \in Nat /\ Cardinality(Fixes) \in Nat
  BY PatchConstants, FS_CardinalityType DEF Numbered
<1>3. files \subseteq File
  <2>1. \A p \in files : p.at \in 1..Cardinality(Fixes)
    BY <1>1, <1>2 DEF Numbered
  <2> QED BY <2>1 DEF Shapes, Patch, File
<1> QED BY <1>3 DEF Shapes, Numbered, ByOneRepair, PatchTypes

\* The store is well-formed, what is on a branch holds its session's fix, and a
\* deployed patch is retired at that start (auto_repair_patches.py:94-97).
THEOREM PatchInvProved == Spec => []PatchInv
<1>1. Inv => PatchInv
  BY InvTypes DEF PatchInv, DeployRetiresPatch, Inv, FixesKept, ReachedIsLive, Up
<1> QED BY <1>1, Invariance, PTL

\* A patch that is still called .patch once the service is up is live and
\* needed: the verified fixes in it run, and the image lacks them
\* (auto_repair_patches.py:93-97).
THEOREM PendingIsLiveProved == Spec => []PendingIsLive
<1>1. Inv => PendingIsLive
  BY DEF PendingIsLive, Inv, ReachedIsLive, Up, Shapes, Pending
<1> QED BY <1>1, Invariance, PTL
----------------------------------------------------------------------------
(* The only patch there is                                                 *)

\* A patch changes nothing its base has, the image has gone on from its base, and
\* a start goes through pending patches only.
Based ==
  /\ \A p \in files : p.content \cap p.base = {} /\ p.base \subseteq image
  /\ booting \subseteq {p.at : p \in Pending}

\* While it is alone, on its image, with no restart in place before: git has
\* refused it, or it is to come, or it is in the tree.
Lone(p) ==
  files = {p} /\ image = p.base /\ recreated /\ writable =>
    \/ p.name = "SKIPPED"
    \/ /\ p.name = "patch"
       /\ IF p.at \in booting THEN tree = image ELSE p.content \cap {p.by} \subseteq tree

LoneInv == Inv /\ Based /\ \A p \in files : Lone(p)

\* A step that leaves the files and the image alone, and no verified fix out of
\* the tree, leaves a lone patch what it is.
LEMMA LoneSame ==
  ASSUME LoneInv, UNCHANGED <<image, files, booting, recreated>>, writable' => writable,
         booting # {} => tree' = tree, Verified \cap tree \subseteq tree'
  PROVE  Based' /\ \A p \in files' : Lone(p)'
<1>1. ASSUME NEW p \in files PROVE Lone(p)'
  <2>1. p.by \in tree => p.by \in tree'
    BY DEF Verified
  <2> QED BY <2>1 DEF LoneInv, Lone
<1> QED BY <1>1 DEF LoneInv, Based, Pending

\* The first patch is made against the image, of a tree that holds its fix.
LEMMA LoneCapture ==
  ASSUME LoneInv, NEW f \in Fixes, Capture(f)
  PROVE  Based' /\ \A p \in files' : Lone(p)'
<1>1. CASE ~writable
  BY <1>1, LoneSame DEF Capture, Recorded, Verified
<1>2. CASE writable
  <2>0. PICK c \in SUBSET Diff : files' = Recorded(f, c)
    BY DEF Capture
  <2>1. PICK new : new = [at |-> NextNumber, by |-> f, content |-> c,
                          base |-> image, name |-> "patch"]
    OBVIOUS
  <2>2. /\ new.by = f /\ new.content \subseteq tree \ image /\ new.base = image
        /\ new.name = "patch" /\ files' = files \cup {new} /\ booting = {}
        /\ UNCHANGED <<image, tree, booting, writable, recreated>>
    BY <1>2, <2>0, <2>1 DEF Capture, Recorded, Diff, Up
  <2>3. f \in tree /\ \A p \in files : p.by # f
    BY DEF Capture, LoneInv, Inv, FixesKept, ByOneRepair
  <2>4. Based'
    BY <2>2 DEF LoneInv, Based
  <2>5. \A p \in files' : Lone(p)'
    <3> SUFFICES ASSUME NEW p, files' = {p}
                 PROVE  /\ p.name = "patch" /\ p.at \notin booting'
                        /\ p.content \cap {p.by} \subseteq tree'
      BY DEF Lone
    <3>1. p = new
      BY <2>2
    <3> QED BY <2>2, <2>3, <3>1
  <2> QED BY <2>4, <2>5
<1> QED BY <1>1, <1>2

\* A new container of the patch's image has just what the patch was made for.
LEMMA LoneRecreate ==
  ASSUME LoneInv, NEW i \in SUBSET Fixes, Recreate(i)
  PROVE  Based' /\ \A p \in files' : Lone(p)'
<1>1. /\ image \subseteq i /\ image' = i /\ tree' = i
      /\ booting' = {q.at : q \in Pending} /\ UNCHANGED <<files, writable, recreated>>
  BY DEF Recreate, Boot
<1>2. Based'
  BY <1>1 DEF LoneInv, Based, Pending
<1>3. ASSUME NEW p \in files, files = {p}, i = p.base, recreated, writable
      PROVE  p.name = "SKIPPED" \/ (p.name = "patch" /\ p.at \in booting')
  <2>1. image = p.base
    BY <1>1, <1>3 DEF LoneInv, Based
  <2>2. p.name = "SKIPPED" \/ p.name = "patch"
    BY <1>3, <2>1 DEF LoneInv, Lone
  <2> QED BY <1>1, <2>2 DEF Pending
<1> QED BY <1>1, <1>2, <1>3 DEF Lone

\* git finds its base in the tree, so it does not answer "patch does not apply".
LEMMA LoneBootPatch ==
  ASSUME LoneInv, BootPatch
  PROVE  Based' /\ \A p \in files' : Lone(p)'
<1>1. PICK q \in files : /\ IsNext(q) /\ booting' = booting \ {q.at}
                         /\ Applied(q) \/ Landed(q) \/ Skipped(q)
  BY DEF BootPatch
<1>2. /\ UNCHANGED <<image, writable, recreated>> /\ q.at \in booting
      /\ q \in Patch
      /\ q.content \cap q.base = {} /\ q.base \subseteq image
  BY <1>1 DEF BootPatch, IsNext, LoneInv, Inv, Shapes, Based
<1>3. CASE Applied(q)
  <2>1. files' = files /\ tree' = tree \cup q.content
    BY <1>3 DEF Applied, Kept
  <2>2. ASSUME NEW p \in files, files = {p}, image = p.base, recreated, writable
        PROVE  p.name = "SKIPPED" \/ (p.name = "patch" /\ p.at \notin booting'
                                      /\ p.content \cap {p.by} \subseteq tree')
    <3>1. p = q
      BY <2>2
    <3>2. p.name = "SKIPPED" \/ p.name = "patch"
      BY <2>2 DEF LoneInv, Lone
    <3> QED BY <1>1, <1>2, <2>1, <3>1, <3>2
  <2>3. Based'
    BY <1>1, <1>2, <2>1 DEF LoneInv, Based, Pending
  <2> QED BY <1>2, <2>1, <2>2, <2>3 DEF Lone
<1>4. CASE Landed(q) \/ Skipped(q)
  <2>1. PICK n \in {"LANDED", "SKIPPED"} : /\ files' = Renamed(q, n)
                                           /\ n = "LANDED" => MayConflict(q)
    BY <1>4 DEF Landed, Skipped
  <2>2. PICK r : r = [q EXCEPT !.name = n]
    OBVIOUS
  <2>3. /\ r.at = q.at /\ r.base = q.base /\ r.content = q.content /\ r.name = n
        /\ files' = IF writable THEN (files \ {q}) \cup {r} ELSE files
    BY <1>2, <2>1, <2>2 DEF Renamed, Patch
  <2>4. Based'
    <3>1. \A s \in files' : s.content \cap s.base = {} /\ s.base \subseteq image
      BY <1>2, <2>3 DEF LoneInv, Based
    <3>2. \A s \in Pending : s.at # q.at => s \in Pending'
      BY <2>3 DEF Pending
    <3>3. booting' \subseteq {s.at : s \in Pending'}
      BY <1>1, <3>2 DEF LoneInv, Based
    <3> QED BY <1>2, <3>1, <3>3 DEF Based
  <2>5. ASSUME NEW p, files' = {p}, image = p.base, recreated, writable
        PROVE  p.name = "SKIPPED"
    <3>1. p = r
      BY <2>3, <2>5
    <3>2. files = {q}
      <4>1. \A s \in files \ {q} : s = r
        BY <2>3, <2>5
      <4>2. \A s \in files : s.at = q.at => s = q
        BY DEF LoneInv, Inv, Numbered
      <4> QED BY <2>3, <4>1, <4>2
    <3>3. q.name = "patch"
      BY <1>2, <3>2 DEF LoneInv, Based, Pending
    <3>4. tree = image /\ image = q.base
      BY <1>2, <2>3, <2>5, <3>1, <3>2, <3>3 DEF LoneInv, Lone
    <3>5. ~MayConflict(q)
      BY <1>2, <3>4 DEF MayConflict, Overlaps
    <3> QED BY <2>1, <2>3, <3>1, <3>5
  <2> QED BY <1>2, <2>4, <2>5 DEF Lone
<1> QED BY <1>1, <1>3, <1>4

LEMMA LoneInitInv == Init => LoneInv
BY InitInv DEF Init, LoneInv, Based

LEMMA LoneNextInv == LoneInv /\ [Next]_vars => LoneInv'
<1> SUFFICES ASSUME LoneInv, [Next]_vars PROVE LoneInv'
  OBVIOUS
<1>1. Inv'
  BY NextInv DEF LoneInv
<1>2. SUFFICES Based' /\ \A p \in files' : Lone(p)'
  BY <1>1 DEF LoneInv
<1>3. ASSUME NEW f \in Fixes,
             Edit(f) \/ Revert(f) \/ Accept(f) \/ Clone(f) \/ Publish(f) \/ GiveUp(f)
      PROVE  Based' /\ \A p \in files' : Lone(p)'
  <2>1. /\ UNCHANGED <<image, files, booting, recreated>> /\ (writable' => writable)
        /\ booting = {}
    BY <1>3 DEF Edit, Revert, Accept, Clone, Publish, GiveUp, Up
  <2>2. Verified \cap tree \subseteq tree'
    <3>1. CASE Revert(f)
      <4>1. f \notin Verified
        BY <3>1 DEF Revert, LoneInv, Inv, ByOneRepair, Verified
      <4> QED BY <3>1, <4>1 DEF Revert
    <3>2. CASE ~Revert(f)
      BY <1>3, <3>2 DEF Edit, Accept, Clone, Publish, GiveUp
    <3> QED BY <3>1, <3>2
  <2> QED BY <2>1, <2>2, LoneSame
<1>4. ASSUME NEW f \in Fixes, Capture(f)
      PROVE  Based' /\ \A p \in files' : Lone(p)'
  BY <1>4, LoneCapture
<1>5. ASSUME NEW i \in SUBSET Fixes, Recreate(i)
      PROVE  Based' /\ \A p \in files' : Lone(p)'
  BY <1>5, LoneRecreate
<1>6. CASE BootPatch
  BY <1>6, LoneBootPatch
<1>7. CASE Restart
  BY <1>7 DEF Restart, Boot, LoneInv, Based, Lone, Pending
<1>8. CASE (\E f \in Fixes : Merge(f)) \/ VolumeFails \/ UNCHANGED vars
  <2>1. /\ UNCHANGED <<image, files, booting, recreated, tree>> /\ (writable' => writable)
    BY <1>8 DEF Merge, VolumeFails, vars
  <2> QED BY <2>1, LoneSame
<1> QED BY <1>3, <1>4, <1>5, <1>6, <1>7, <1>8 DEF Next

LEMMA LoneInvariance == Spec => []LoneInv
BY LoneInitInv, LoneNextInv, PTL DEF Spec

\* The one patch there is comes back at every start of a new container of the
\* image it was made for, unless git refused it for a reason of its own
\* (auto_repair_patches.py:5-8).
THEOREM LonePatchReturnsProved == Spec => []LonePatchReturns
<1>1. LoneInv => LonePatchReturns
  BY DEF LoneInv, Lone, LonePatchReturns, Up
<1> QED BY <1>1, LoneInvariance, PTL
=============================================================================
