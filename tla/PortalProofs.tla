---------------------------- MODULE PortalProofs ----------------------------
(***************************************************************************)
(* Proofs about SlotManager, and about Portal, which extends it, for every *)
(* set of uids, carriers and sessions, every number of tabs and every TTL. *)
(*                                                                         *)
(* First the slots alone.  The lemmas are about the pure operators on the  *)
(* record [slots, owners], so that they serve the second part as well:     *)
(* what sessions, tasks, tabs and the shared progress callback make of     *)
(* them.                                                                   *)
(***************************************************************************)
EXTENDS Portal, TLAPS
-----------------------------------------------------------------------------
(* SlotManager                                                             *)

(* TypeOK and DictsAgree as predicates of a value of the object *)
Typed(m) ==
  /\ m = [slots |-> m.slots, owners |-> m.owners]
  /\ m.slots = [u \in DOMAIN m.slots |-> m.slots[u]]
  /\ m.owners = [c \in DOMAIN m.owners |-> m.owners[c]]
  /\ DOMAIN m.slots \subseteq Uids
  /\ \A u \in DOMAIN m.slots : m.slots[u] \in Slot
  /\ DOMAIN m.owners \subseteq Carriers
  /\ \A c \in DOMAIN m.owners : m.owners[c] \in Uids

Agree(m) ==
  /\ \A c \in DOMAIN m.owners :
        m.owners[c] \in DOMAIN m.slots /\ m.slots[m.owners[c]].carrier = c
  /\ \A u \in DOMAIN m.slots : Owns(m, u, m.slots[u].carrier)

Good(m) == Typed(m) /\ Agree(m)

(* Releasing any set of uids keeps the two dicts well typed and agreeing:  *)
(* _release_internal drops both sides of a slot or neither.                *)
LEMMA ReleasedGood ==
  ASSUME NEW m, Good(m), NEW S
  PROVE  /\ Good(Released(m, S))
         /\ DOMAIN Released(m, S).slots = DOMAIN m.slots \ S
         /\ \A u \in DOMAIN m.slots \ S : Released(m, S).slots[u] = m.slots[u]
         /\ DOMAIN Released(m, S).owners
              = {c \in DOMAIN m.owners : m.owners[c] \notin S}
         /\ \A c \in DOMAIN Released(m, S).owners :
               Released(m, S).owners[c] = m.owners[c]
<1> DEFINE r == Released(m, S)
<1>1. /\ DOMAIN r.slots = DOMAIN m.slots \ S
      /\ \A u \in DOMAIN m.slots \ S : r.slots[u] = m.slots[u]
  BY DEF Released, Without
<1>2. /\ DOMAIN r.owners = {c \in DOMAIN m.owners : m.owners[c] \notin S}
      /\ \A c \in DOMAIN r.owners : r.owners[c] = m.owners[c]
  <2>1. \A c \in DOMAIN m.owners :
           (\E u \in S \cap DOMAIN m.slots :
               m.slots[u].carrier = c /\ Owns(m, u, c))
             <=> m.owners[c] \in S
    BY DEF Good, Agree, Owns
  <2> QED BY <2>1 DEF Released, Without
<1>3. Typed(r)
  <2>1. /\ r = [slots |-> r.slots, owners |-> r.owners]
        /\ r.slots = [u \in DOMAIN r.slots |-> r.slots[u]]
        /\ r.owners = [c \in DOMAIN r.owners |-> r.owners[c]]
    BY DEF Released, Without
  <2> QED BY <1>1, <1>2, <2>1 DEF Good, Typed
<1>4. Agree(r)
  BY <1>1, <1>2 DEF Good, Agree, Owns
<1> HIDE DEF r
<1> QED BY <1>1, <1>2, <1>3, <1>4 DEF Good, r

(* Sweeping the silent uids is a release that leaves none of them.         *)
LEMMA PruneGood ==
  ASSUME NEW m, Good(m)
  PROVE  Good(PruneStale(m)) /\ Stale(PruneStale(m)) = {}
<1> DEFINE p == PruneStale(m)
<1>1. /\ Good(p)
      /\ DOMAIN p.slots = DOMAIN m.slots \ Stale(m)
      /\ \A u \in DOMAIN p.slots : p.slots[u] = m.slots[u]
  BY ReleasedGood DEF PruneStale
<1> HIDE DEF p
<1>2. Stale(p) = {}
  BY <1>1 DEF Stale
<1> QED BY <1>1, <1>2 DEF p

(* A claim keeps the dicts in agreement on each of its three ways out:     *)
(* refreshing its own slot, refused, and taking a free carrier after       *)
(* giving up the one it had.                                               *)
LEMMA ClaimedGood ==
  ASSUME NEW m, Good(m), NEW u \in Uids, NEW c \in Carriers,
         NEW s \in SessionIds \cup {NoSession}
  PROVE  Good(Claimed(m, u, c, s))
<1> DEFINE p == PruneStale(m)
           r == Released(p, {u})
           k == Claimed(m, u, c, s)
<1>1. Good(p)
  BY PruneGood
<1>2. FreshSlot(c, s) \in Slot
  BY SlotConstants DEF FreshSlot, Slot
<1>3. CASE u \in DOMAIN p.slots /\ p.slots[u].carrier = c
  <2>1. k = [p EXCEPT !.slots[u] = FreshSlot(c, s)]
    BY <1>3 DEF Claimed
  <2>2. /\ DOMAIN k.slots = DOMAIN p.slots
        /\ k.slots[u] = FreshSlot(c, s)
        /\ \A v \in DOMAIN p.slots : v # u => k.slots[v] = p.slots[v]
        /\ k.owners = p.owners
        /\ k = [slots |-> k.slots, owners |-> k.owners]
        /\ k.slots = [v \in DOMAIN k.slots |-> k.slots[v]]
    BY <1>1, <1>3, <2>1 DEF Good, Typed
  <2>3. FreshSlot(c, s).carrier = c
    BY DEF FreshSlot
  <2> HIDE DEF p, k
  <2>4. Typed(k)
    BY <1>1, <1>2, <2>2 DEF Good, Typed
  <2>5. Agree(k)
    BY <1>1, <1>3, <2>2, <2>3 DEF Good, Agree, Owns
  <2> QED BY <2>4, <2>5 DEF Good, k
<1>4. CASE /\ ~(u \in DOMAIN p.slots /\ p.slots[u].carrier = c)
           /\ HeldByOther(p, u, c)
  BY <1>1, <1>4 DEF Claimed
<1>5. CASE /\ ~(u \in DOMAIN p.slots /\ p.slots[u].carrier = c)
           /\ ~HeldByOther(p, u, c)
  <2>1. /\ k.slots = With(r.slots, u, FreshSlot(c, s))
        /\ k.owners = With(r.owners, c, u)
        /\ k = [slots |-> k.slots, owners |-> k.owners]
    BY <1>5 DEF Claimed
  <2>2. /\ Good(r)
        /\ u \notin DOMAIN r.slots
        /\ c \notin DOMAIN r.owners
    <3>1. \A d \in DOMAIN r.owners : r.owners[d] # u
      BY <1>1, ReleasedGood
    <3>2. c \in DOMAIN r.owners => r.owners[c] = u
      BY <1>1, <1>5, ReleasedGood DEF HeldByOther
    <3> QED BY <1>1, <3>1, <3>2, ReleasedGood
  <2>3. FreshSlot(c, s).carrier = c
    BY DEF FreshSlot
  <2> HIDE DEF p, r, k
  <2>4. /\ DOMAIN k.slots = DOMAIN r.slots \cup {u}
        /\ k.slots[u] = FreshSlot(c, s)
        /\ \A v \in DOMAIN r.slots : k.slots[v] = r.slots[v]
        /\ DOMAIN k.owners = DOMAIN r.owners \cup {c}
        /\ k.owners[c] = u
        /\ \A d \in DOMAIN r.owners : k.owners[d] = r.owners[d]
        /\ k.slots = [v \in DOMAIN k.slots |-> k.slots[v]]
        /\ k.owners = [d \in DOMAIN k.owners |-> k.owners[d]]
    BY <2>1, <2>2 DEF With
  <2>5. Typed(k)
    BY <1>2, <2>1, <2>2, <2>4 DEF Good, Typed
  <2>6. Agree(k)
    BY <2>2, <2>3, <2>4 DEF Good, Agree, Owns
  <2> QED BY <2>5, <2>6 DEF Good, k
<1> QED BY <1>3, <1>4, <1>5

(* Heartbeats and the passing of time touch only the ages.                 *)
LEMMA AgesGood ==
  ASSUME NEW m, Good(m)
  PROVE  /\ \A u \in Uids : Good(Ticked(m, u))
         /\ Good(Aged(m))
<1>1. ASSUME NEW u \in DOMAIN m.slots PROVE Good(Ticked(m, u))
  <2> DEFINE k == Ticked(m, u)
  <2>1. /\ DOMAIN k.slots = DOMAIN m.slots
        /\ k.slots[u] = [m.slots[u] EXCEPT !.idle = 0]
        /\ \A v \in DOMAIN m.slots : v # u => k.slots[v] = m.slots[v]
        /\ k.owners = m.owners
        /\ k = [slots |-> k.slots, owners |-> k.owners]
        /\ k.slots = [v \in DOMAIN k.slots |-> k.slots[v]]
    BY DEF Ticked, Good, Typed
  <2>2. /\ m.slots[u] \in Slot
        /\ [m.slots[u] EXCEPT !.idle = 0] \in Slot
        /\ [m.slots[u] EXCEPT !.idle = 0].carrier = m.slots[u].carrier
    BY SlotConstants DEF Good, Typed, Slot
  <2> HIDE DEF k
  <2>3. Typed(k) BY <2>1, <2>2 DEF Good, Typed
  <2>4. \A v \in DOMAIN k.slots : k.slots[v].carrier = m.slots[v].carrier
    BY <2>1, <2>2
  <2>5. Agree(k)
    <3> HIDE <2>2
    <3> QED BY <2>1, <2>4 DEF Good, Agree, Owns
  <2> QED BY <2>3, <2>5 DEF Good, k
<1>2. Good(Aged(m))
  <2> DEFINE k == Aged(m)
             older(x) == [x EXCEPT !.idle = IF @ > IdleTTL THEN @ ELSE @ + 1]
  <2>1. /\ DOMAIN k.slots = DOMAIN m.slots
        /\ \A v \in DOMAIN m.slots : k.slots[v] = older(m.slots[v])
        /\ k.owners = m.owners
        /\ k = [slots |-> k.slots, owners |-> k.owners]
        /\ k.slots = [v \in DOMAIN k.slots |-> k.slots[v]]
    BY DEF Aged, Good, Typed
  <2>2. \A x \in Slot : older(x) \in Slot /\ older(x).carrier = x.carrier
    BY SlotConstants DEF Slot
  <2> HIDE DEF k, older
  <2>3. Typed(k) BY <2>1, <2>2 DEF Good, Typed
  <2>4. \A v \in DOMAIN k.slots : k.slots[v].carrier = m.slots[v].carrier
    BY <2>1, <2>2 DEF Good, Typed
  <2>5. Agree(k)
    <3> HIDE <2>2
    <3> QED BY <2>1, <2>4 DEF Good, Agree, Owns
  <2> QED BY <2>3, <2>5 DEF Good, k
<1> QED BY <1>1, <1>2 DEF Ticked
----------------------------------------------------------------------------
(* Good(SM) is inductive: TypeOK and DictsAgree need each other, because   *)
(* a release finds the owner it must drop through the slot of the uid.     *)
Inv == Good(SM)

LEMMA InitGood == Init => Inv
BY DEF Init, Inv, Good, Typed, Agree, SM, Empty

LEMMA NextGood == Inv /\ [Next]_slotVars => Inv'
<1> SUFFICES ASSUME Inv, [Next]_slotVars
             PROVE  Inv'
  OBVIOUS
<1>1. ASSUME NEW m, Good(m), SetSM(m)
      PROVE  Inv'
  <2>1. SM' = m
    BY <1>1 DEF SetSM, SM, Good, Typed
  <2> QED BY <1>1, <2>1 DEF Inv
<1>2. ASSUME NEW u \in Uids, NEW c \in Carriers,
             NEW s \in SessionIds \cup {NoSession}, Claim(u, c, s)
      PROVE  Inv'
  BY <1>1, <1>2, ClaimedGood DEF Inv, Claim
<1>3. ASSUME NEW u \in Uids, Tick(u)
      PROVE  Inv'
  BY <1>1, <1>3, AgesGood DEF Inv, Tick
<1>4. ASSUME NEW u \in Uids, Release(u)
      PROVE  Inv'
  BY <1>1, <1>4, ReleasedGood DEF Inv, Release
<1>5. ASSUME NEW s \in SessionIds, ReleaseSession(s)
      PROVE  Inv'
  BY <1>1, <1>5, ReleasedGood DEF Inv, ReleaseSession
<1>6. CASE Prune
  BY <1>1, <1>6, PruneGood DEF Inv, Prune
<1>7. CASE TimePasses
  BY <1>1, <1>7, AgesGood DEF Inv, TimePasses
<1>8. CASE UNCHANGED slotVars
  BY <1>8 DEF Inv, Good, Typed, Agree, Owns, SM, slotVars
<1> QED BY <1>2, <1>3, <1>4, <1>5, <1>6, <1>7, <1>8 DEF Next

THEOREM AlwaysGood == Spec => []Inv
BY InitGood, NextGood, PTL DEF Spec

(* The dicts always hold uids, carriers and slots of the annotated shape,  *)
(* and _slots and _carrier_owners never disagree about who drives a        *)
(* carrier.                                                                *)
THEOREM SlotInvProved == Spec => []SlotInv
<1>1. Inv => SlotInv
  BY DEF Inv, Good, Typed, Agree, SM, SlotInv, TypeOK, DictsAgree
<1> QED BY <1>1, AlwaysGood, PTL

(* At most one uid per carrier (slot_manager.py:6), for every number of    *)
(* uids, carriers and sessions.                                            *)
THEOREM Exclusive == Spec => []CarrierExclusive
<1>1. SlotInv => CarrierExclusive
  BY DEF SlotInv, DictsAgree, CarrierExclusive, Owns, SM
<1> QED BY <1>1, SlotInvProved, PTL
----------------------------------------------------------------------------
(* The values a claim can leave behind, by its three ways out.             *)
LEMMA ClaimOutcomes ==
  ASSUME NEW m, Good(m), NEW u \in Uids, NEW c \in Carriers,
         NEW s \in SessionIds \cup {NoSession}
  PROVE  LET k == Claimed(m, u, c, s)
             p == PruneStale(m)
         IN  /\ Stale(p) = {}
             /\ Stale(k) = {}
             /\ \/ k.owners = p.owners
                \/ /\ c \in DOMAIN m.owners => m.owners[c] \in Stale(m) \cup {u}
                   /\ k.owners = With(Released(p, {u}).owners, c, u)
<1> DEFINE p == PruneStale(m)
           r == Released(p, {u})
           k == Claimed(m, u, c, s)
<1>1. /\ Good(p)
      /\ DOMAIN p.slots = DOMAIN m.slots \ Stale(m)
      /\ \A v \in DOMAIN p.slots : p.slots[v] = m.slots[v]
      /\ DOMAIN p.owners = {d \in DOMAIN m.owners : m.owners[d] \notin Stale(m)}
      /\ \A d \in DOMAIN p.owners : p.owners[d] = m.owners[d]
  BY ReleasedGood DEF PruneStale
<1>2. Stale(p) = {}
  BY <1>1 DEF Stale
<1>3. /\ Good(r)
      /\ DOMAIN r.slots = DOMAIN p.slots \ {u}
      /\ \A v \in DOMAIN r.slots : r.slots[v] = p.slots[v]
  BY <1>1, ReleasedGood
<1>4. FreshSlot(c, s).idle = 0 /\ ~(0 > IdleTTL)
  BY SlotConstants DEF FreshSlot
<1>5. CASE u \in DOMAIN p.slots /\ p.slots[u].carrier = c
  <2>1. k = [p EXCEPT !.slots[u] = FreshSlot(c, s)]
    BY <1>5 DEF Claimed
  <2>2. /\ DOMAIN k.slots = DOMAIN p.slots
        /\ k.slots[u] = FreshSlot(c, s)
        /\ \A v \in DOMAIN p.slots : v # u => k.slots[v] = p.slots[v]
        /\ k.owners = p.owners
    BY <1>1, <1>5, <2>1 DEF Good, Typed
  <2> HIDE DEF p, k
  <2>3. Stale(k) = {}
    BY <1>2, <1>4, <2>2 DEF Stale
  <2> QED BY <1>2, <2>2, <2>3 DEF p, k
<1>6. CASE /\ ~(u \in DOMAIN p.slots /\ p.slots[u].carrier = c)
           /\ HeldByOther(p, u, c)
  <2>1. k = p BY <1>6 DEF Claimed
  <2> QED BY <1>2, <2>1
<1>7. CASE /\ ~(u \in DOMAIN p.slots /\ p.slots[u].carrier = c)
           /\ ~HeldByOther(p, u, c)
  <2>1. /\ k.slots = With(r.slots, u, FreshSlot(c, s))
        /\ k.owners = With(r.owners, c, u)
    BY <1>7 DEF Claimed
  <2>2. c \in DOMAIN m.owners => m.owners[c] \in Stale(m) \cup {u}
    BY <1>1, <1>7 DEF HeldByOther
  <2> HIDE DEF p, r, k
  <2>3. /\ DOMAIN k.slots = DOMAIN r.slots \cup {u}
        /\ k.slots[u] = FreshSlot(c, s)
        /\ \A v \in DOMAIN r.slots : v # u => k.slots[v] = p.slots[v]
    BY <1>3, <2>1 DEF With
  <2>4. Stale(k) = {}
    BY <1>2, <1>3, <1>4, <2>3 DEF Stale
  <2> QED BY <1>2, <2>1, <2>2, <2>4 DEF p, r, k
<1> QED BY <1>5, <1>6, <1>7

(* An owner that was heard within the TTL keeps its carrier in every step: *)
(* it can only give it up itself, never lose it to another uid's claim.    *)
THEOREM NoStealProved == Spec => NoStealAlways
<1>1. Inv /\ [Next]_slotVars => [NoSteal]_slotVars
  <2> SUFFICES ASSUME Inv, Next
               PROVE  NoSteal
    OBVIOUS
  <2>1. ASSUME NEW S, carrierOwners' = Released(SM, S).owners
        PROVE  NoSteal
    BY <2>1, ReleasedGood DEF Inv, NoSteal, SM
  <2>2. ASSUME NEW u \in Uids, NEW c \in Carriers,
               NEW s \in SessionIds \cup {NoSession}, Claim(u, c, s)
        PROVE  NoSteal
    <3> DEFINE p == PruneStale(SM)
               k == Claimed(SM, u, c, s)
    <3>1. carrierOwners' = k.owners
      BY <2>2 DEF Claim, SetSM
    <3>2. CASE k.owners = p.owners
      BY <2>1, <3>1, <3>2 DEF PruneStale
    <3>3. CASE /\ c \in DOMAIN carrierOwners =>
                     carrierOwners[c] \in Stale(SM) \cup {u}
               /\ k.owners = With(Released(p, {u}).owners, c, u)
      <4> DEFINE r == Released(p, {u})
      <4>1. /\ DOMAIN r.owners \subseteq DOMAIN carrierOwners
            /\ \A d \in DOMAIN r.owners : r.owners[d] = carrierOwners[d]
        BY PruneGood, ReleasedGood DEF Inv, SM, PruneStale
      <4> HIDE DEF r
      <4>2. /\ carrierOwners'[c] = u
            /\ DOMAIN carrierOwners' = DOMAIN r.owners \cup {c}
            /\ \A d \in DOMAIN r.owners : d # c => carrierOwners'[d] = r.owners[d]
        BY <3>1, <3>3 DEF With, r
      <4>3. \A v \in Stale(SM) : slots[v].idle > IdleTTL
        BY DEF Stale, SM
      <4> QED BY <3>3, <4>1, <4>2, <4>3 DEF NoSteal
    <3> QED BY <3>2, <3>3, ClaimOutcomes DEF Inv, SM
  <2>3. ASSUME NEW u \in Uids, Tick(u)
        PROVE  NoSteal
    BY <2>3 DEF Tick, Ticked, SetSM, SM, NoSteal
  <2>4. ASSUME NEW u \in Uids, Release(u)
        PROVE  NoSteal
    BY <2>1, <2>4 DEF Release, SetSM
  <2>5. ASSUME NEW s \in SessionIds, ReleaseSession(s)
        PROVE  NoSteal
    BY <2>1, <2>5 DEF ReleaseSession, SetSM
  <2>6. CASE Prune
    BY <2>1, <2>6 DEF Prune, PruneStale, SetSM
  <2>7. CASE TimePasses
    BY <2>7 DEF TimePasses, Aged, SetSM, SM, NoSteal
  <2> QED BY <2>2, <2>3, <2>4, <2>5, <2>6, <2>7 DEF Next
<1> QED BY <1>1, AlwaysGood, PTL DEF Spec, NoStealAlways
----------------------------------------------------------------------------
(* Dropping the slots of S leaves the leases that holders outside S have.  *)
LEMMA ReleasedIsLeftover ==
  ASSUME Inv, NEW S
  PROVE  Released(SM, S).owners = Lease!Leftover(S)
<1> DEFINE r == Released(SM, S)
<1>1. /\ Good(r)
      /\ DOMAIN r.owners = {d \in DOMAIN SM.owners : SM.owners[d] \notin S}
      /\ \A d \in DOMAIN r.owners : r.owners[d] = SM.owners[d]
  BY ReleasedGood DEF Inv
<1> HIDE DEF r
<1>2. /\ DOMAIN r.owners = {d \in DOMAIN carrierOwners : carrierOwners[d] \notin S}
      /\ \A d \in DOMAIN r.owners : r.owners[d] = carrierOwners[d]
  BY <1>1 DEF SM
<1>3. r.owners = [d \in DOMAIN r.owners |-> r.owners[d]]
  BY <1>1 DEF Good, Typed
<1>4. r.owners = Lease!Leftover(S)
  BY <1>2, <1>3 DEF Lease!Leftover
<1> QED BY <1>4 DEF r

LEMMA HolderIsSlots ==
  ASSUME Inv
  PROVE  Lease!Holder = DOMAIN slots
<1>1. /\ \A c \in DOMAIN carrierOwners : carrierOwners[c] \in DOMAIN slots
      /\ \A u \in DOMAIN slots : \E c \in DOMAIN carrierOwners : carrierOwners[c] = u
  BY DEF Inv, Good, Agree, Owns, SM
<1>2. Lease!Holder \subseteq DOMAIN slots
  BY <1>1 DEF Lease!Holder
<1>3. DOMAIN slots \subseteq Lease!Holder
  <2> SUFFICES ASSUME NEW u \in DOMAIN slots
               PROVE  u \in Lease!Holder
    OBVIOUS
  <2> PICK c \in DOMAIN carrierOwners : carrierOwners[c] = u
    BY <1>1
  <2> QED BY DEF Lease!Holder
<1> QED BY <1>2, <1>3

(* Every call on the slot manager is a step of the exclusive lease: a      *)
(* refused or repeated claim only sweeps, the others grant or free.        *)
THEOREM ImplementsLease == Spec => LeaseSpec
<1>1. Init => Lease!Init
  BY DEF Init, Lease!Init, Empty, Stale, SM
<1>2. Inv /\ Inv' /\ [Next]_slotVars => [Lease!Next]_Lease!leaseVars
  <2> SUFFICES ASSUME Inv, Inv', [Next]_slotVars
               PROVE  [Lease!Next]_Lease!leaseVars
    OBVIOUS
  <2>1. ASSUME NEW m, Good(m), SetSM(m)
        PROVE  SM' = m /\ Stale(SM)' = Stale(m)
    BY <2>1 DEF SetSM, SM, Good, Typed, Stale
  <2>2. ASSUME NEW u \in Uids, NEW c \in Carriers,
               NEW s \in SessionIds \cup {NoSession}, Claim(u, c, s)
        PROVE  Lease!Next
    <3> DEFINE p == PruneStale(SM)
               k == Claimed(SM, u, c, s)
    <3>1. carrierOwners' = k.owners /\ Stale(SM)' = {}
      <4>1. Good(k) /\ Stale(k) = {}
        BY ClaimedGood, ClaimOutcomes DEF Inv
      <4>2. SetSM(k)
        BY <2>2 DEF Claim
      <4> HIDE DEF k
      <4> QED BY <2>1, <4>1, <4>2 DEF SetSM
    <3>2. p.owners = Lease!Leftover(Stale(SM))
      BY ReleasedIsLeftover DEF PruneStale
    <3>3. CASE k.owners = p.owners
      BY <3>1, <3>2, <3>3 DEF Lease!Next, Lease!Sweep
    <3>4. CASE /\ c \in DOMAIN carrierOwners =>
                     carrierOwners[c] \in Stale(SM) \cup {u}
               /\ k.owners = With(Released(p, {u}).owners, c, u)
      <4> DEFINE r == Released(p, {u})
                 left == Lease!Leftover(Stale(SM) \cup {u})
      <4>1. Good(p)
        BY PruneGood DEF Inv
      <4>2. /\ DOMAIN r.owners = {d \in DOMAIN p.owners : p.owners[d] # u}
            /\ \A d \in DOMAIN r.owners : r.owners[d] = p.owners[d]
        BY <4>1, ReleasedGood
      <4>3. /\ DOMAIN r.owners = DOMAIN left
            /\ \A d \in DOMAIN r.owners : r.owners[d] = carrierOwners[d]
        <5> HIDE DEF p, r
        <5> QED BY <3>2, <4>2 DEF Lease!Leftover
      <4>4. With(r.owners, c, u)
              = [d \in DOMAIN left \cup {c} |->
                   IF d = c THEN u ELSE carrierOwners[d]]
        <5> HIDE DEF p, r, left
        <5> QED BY <4>3 DEF With
      <4>5. Lease!Grant(u, c)
        BY <3>1, <3>4, <4>4 DEF Lease!Grant
      <4> QED BY <4>5 DEF Lease!Next
    <3> QED BY <3>3, <3>4, ClaimOutcomes DEF Inv, SM
  <2>3. ASSUME NEW u \in DOMAIN slots,
               SetSM(Released(SM, {u}))
        PROVE  Lease!Next
    <3>1. carrierOwners' = Lease!Leftover({u})
      BY <2>3, ReleasedIsLeftover DEF SetSM
    <3>2. Stale(SM)' = Stale(SM) \ {u}
      <4>1. Stale(SM)' = Stale(Released(SM, {u}))
        BY <2>1, <2>3, ReleasedGood DEF Inv
      <4> QED BY <4>1, ReleasedGood DEF Inv, Stale, SM
    <3>3. u \in Uids /\ u \in Lease!Holder
      BY HolderIsSlots DEF Inv, Good, Typed, SM
    <3> QED BY <3>1, <3>2, <3>3 DEF Lease!Next, Lease!Free
  <2>4. ASSUME NEW u \in Uids, Tick(u)
        PROVE  Lease!Next
    <3>1. Stale(SM)' = Stale(Ticked(SM, u))
      BY <2>1, <2>4, AgesGood DEF Tick, Inv
    <3>2. Stale(Ticked(SM, u)) = Stale(SM) \ {u}
      BY <2>4, SlotConstants DEF Tick, Ticked, Stale, SM, Inv, Good, Typed, Slot
    <3>3. carrierOwners' = carrierOwners
      BY <2>4 DEF Tick, Ticked, SetSM, SM
    <3> QED BY <3>1, <3>2, <3>3 DEF Lease!Next, Lease!Revive
  <2>5. CASE Prune
    <3>1. carrierOwners' = Lease!Leftover(Stale(SM))
      BY <2>5, ReleasedIsLeftover DEF Prune, PruneStale, SetSM
    <3>2. Stale(SM)' = {}
      <4>1. Stale(SM)' = Stale(PruneStale(SM))
        BY <2>1, <2>5, PruneGood DEF Prune, Inv
      <4> QED BY <4>1, PruneGood DEF Inv
    <3> QED BY <3>1, <3>2 DEF Lease!Next, Lease!Sweep
  <2>6. CASE TimePasses
    <3>1. carrierOwners' = carrierOwners /\ DOMAIN slots' = DOMAIN slots
      BY <2>6 DEF TimePasses, Aged, SetSM, SM
    <3>2. Stale(SM) \subseteq Stale(SM)'
      <4>1. \A u \in Stale(SM) : slots'[u].idle = slots[u].idle
        BY <2>6 DEF TimePasses, Aged, SetSM, SM, Stale, Inv, Good, Typed, Slot
      <4> QED BY <3>1, <4>1 DEF Stale, SM
    <3>3. Stale(SM)' \subseteq Lease!Holder
      BY <3>1, HolderIsSlots DEF Stale, SM
    <3> QED BY <3>1, <3>2, <3>3 DEF Lease!Next, Lease!Lapse
  <2>7. CASE UNCHANGED slotVars
    BY <2>7 DEF slotVars, Lease!leaseVars, Stale, SM
  <2> QED
    BY <2>2, <2>3, <2>4, <2>5, <2>6, <2>7 DEF Next, Release, ReleaseSession, Holders, SM
<1> QED BY <1>1, <1>2, AlwaysGood, PTL DEF Spec, LeaseSpec, Lease!Spec
-----------------------------------------------------------------------------
(* Portal                                                                  *)

\* PortalTypes but for the slots, whose type is part of Good(SM)
Shapes ==
  /\ \A s \in DOMAIN sess : sess[s] \in
        [uid : Uids, carrier : Carriers, state : {"open", "half", "done", "error"},
         age : 0..(SessionTTL + 1)]
  /\ \A s \in DOMAIN tasks : tasks[s] \in
        [carrier : Carriers, fetching : BOOLEAN, cancelled : BOOLEAN]
  /\ \A s \in DOMAIN proxied : proxied[s] \in Uids
  /\ DOMAIN sess \subseteq used /\ DOMAIN tasks \subseteq used
  /\ DOMAIN proxied \subseteq used /\ used \subseteq SessionIds
  /\ wired \in [Carriers -> used \cup {NoSession}]
  /\ shown \in [SessionIds -> SUBSET SessionIds]
  /\ tabs \in [Tabs -> {Off} \cup
                 [at : {"sse", "proxy"}, uid : Uids, sid : SessionIds]]
  /\ polite \in BOOLEAN

\* a slot, its session and its task are of one uid and one carrier
Homes ==
  /\ SlotPointsHome
  /\ \A u \in DOMAIN slots : slots[u].session \in DOMAIN tasks =>
        tasks[slots[u].session].carrier = slots[u].carrier

\* a task that was not cancelled has an open session on its carrier, and so has
\* the session that a progress callback reports to
TasksRun ==
  /\ \A s \in DOMAIN tasks : ~tasks[s].cancelled => Going(s)
  /\ \A s \in DOMAIN tasks \cap DOMAIN sess : tasks[s].carrier = sess[s].carrier
  /\ \A c \in Carriers : wired[c] \in DOMAIN sess => sess[wired[c]].carrier = c

TabsHome ==
  \A r \in Tabs : tabs[r].at = "sse" =>
    /\ tabs[r].sid \in used
    /\ tabs[r].sid \in DOMAIN sess => sess[tabs[r].sid].uid = tabs[r].uid

\* polite users: an open session holds a slot that is not stale, no task was
\* cancelled, and a tab that may close leaves no open session without its slot
Attached(s) ==
  /\ sess[s].uid \in DOMAIN slots \ Stale(SM)
  /\ slots[sess[s].uid].session = s /\ s \notin Expired

Tame ==
  polite =>
    /\ \A s \in DOMAIN sess : Going(s) => Attached(s)
    /\ \A s \in DOMAIN tasks : ~tasks[s].cancelled
    /\ \A r \in Tabs : tabs[r].at = "sse" =>
          Going(tabs[r].sid) \/ ~InFlight(tabs[r].uid)

PInv == Good(SM) /\ Shapes /\ Homes /\ TasksRun /\ TabsHome /\ Tame /\ OwnDocsOnly

LEMMA PortalInitInv == PortalInit => PInv
<1> SUFFICES ASSUME PortalInit PROVE PInv
  OBVIOUS
<1>1. Good(SM)
  BY InitGood DEF PortalInit, Inv
<1>2. /\ DOMAIN sess = {} /\ DOMAIN tasks = {} /\ DOMAIN proxied = {} /\ DOMAIN slots = {}
      /\ \A c \in Carriers : wired[c] = NoSession
      /\ \A r \in Tabs : tabs[r].at = "off"
  BY DEF PortalInit, Init, Empty, Off
<1>3. Shapes
  BY <1>2 DEF PortalInit, Shapes
<1>4. Homes /\ TasksRun
  BY <1>2 DEF Homes, SlotPointsHome, TasksRun
<1>5. TabsHome /\ Tame
  BY <1>2 DEF TabsHome, Tame
<1>6. OwnDocsOnly
  BY DEF PortalInit, OwnDocsOnly
<1> QED BY <1>1, <1>3, <1>4, <1>5, <1>6 DEF PInv
----------------------------------------------------------------------------
(* What the calls of a handler leave in the slots                          *)

\* A claim that is refused only sweeps; one that is granted gives u a fresh slot
\* and takes from the others only what is stale (slot_manager.py:57-90).
LEMMA ClaimedSlots ==
  ASSUME NEW m, Good(m), NEW u \in Uids, NEW c \in Carriers, NEW s
  PROVE  LET k == Claimed(m, u, c, s)
         IN  /\ ~ClaimOK(m, u, c) => k = PruneStale(m)
             /\ ClaimOK(m, u, c) => u \in DOMAIN k.slots /\ k.slots[u] = FreshSlot(c, s)
             /\ \A v \in DOMAIN k.slots \ {u} : v \in DOMAIN m.slots /\ k.slots[v] = m.slots[v]
             /\ \A v \in DOMAIN m.slots \ (Stale(m) \cup {u}) : v \in DOMAIN k.slots
<1> DEFINE p == PruneStale(m)
           r == Released(p, {u})
           k == Claimed(m, u, c, s)
<1>1. /\ Good(p)
      /\ DOMAIN p.slots = DOMAIN m.slots \ Stale(m)
      /\ \A v \in DOMAIN p.slots : p.slots[v] = m.slots[v]
  BY ReleasedGood DEF PruneStale
<1>2. /\ DOMAIN r.slots = DOMAIN p.slots \ {u}
      /\ \A v \in DOMAIN r.slots : r.slots[v] = p.slots[v]
  BY <1>1, ReleasedGood
<1>3. CASE u \in DOMAIN p.slots /\ p.slots[u].carrier = c
  <2>1. k = [p EXCEPT !.slots[u] = FreshSlot(c, s)] /\ ClaimOK(m, u, c)
    BY <1>3 DEF Claimed, ClaimOK
  <2>2. /\ DOMAIN k.slots = DOMAIN p.slots
        /\ k.slots[u] = FreshSlot(c, s)
        /\ \A v \in DOMAIN p.slots : v # u => k.slots[v] = p.slots[v]
    BY <1>1, <1>3, <2>1 DEF Good, Typed
  <2> HIDE DEF p, k
  <2> QED BY <1>1, <1>3, <2>1, <2>2 DEF k, p
<1>4. CASE /\ ~(u \in DOMAIN p.slots /\ p.slots[u].carrier = c)
           /\ HeldByOther(p, u, c)
  <2>1. k = p /\ ~ClaimOK(m, u, c)
    BY <1>4 DEF Claimed, ClaimOK
  <2> HIDE DEF p, k
  <2> QED BY <1>1, <2>1 DEF k, p
<1>5. CASE /\ ~(u \in DOMAIN p.slots /\ p.slots[u].carrier = c)
           /\ ~HeldByOther(p, u, c)
  <2>1. k.slots = With(r.slots, u, FreshSlot(c, s)) /\ ClaimOK(m, u, c)
    BY <1>5 DEF Claimed, ClaimOK
  <2> HIDE DEF p, r, k
  <2>2. /\ DOMAIN k.slots = DOMAIN r.slots \cup {u}
        /\ k.slots[u] = FreshSlot(c, s)
        /\ \A v \in DOMAIN r.slots : v # u => k.slots[v] = r.slots[v]
    BY <2>1 DEF With
  <2> QED BY <1>1, <1>2, <2>1, <2>2 DEF k, p
<1> QED BY <1>3, <1>4, <1>5

\* The second claim of a login only fills in the session (main.py:82-104).
LEMMA ClaimedTwiceSlots ==
  ASSUME Good(SM), NEW u \in Uids, NEW c \in Carriers, NEW s \in SessionIds,
         ClaimOK(SM, u, c)
  PROVE  LET k == ClaimedTwice(u, c, s)
         IN  /\ Good(k) /\ Stale(k) = {}
             /\ u \in DOMAIN k.slots /\ k.slots[u] = FreshSlot(c, s)
             /\ \A v \in DOMAIN k.slots \ {u} : v \in DOMAIN slots /\ k.slots[v] = slots[v]
             /\ \A v \in DOMAIN slots \ (Stale(SM) \cup {u}) : v \in DOMAIN k.slots
<1> DEFINE a == Claimed(SM, u, c, NoSession)
           k == Claimed(a, u, c, s)
<1>1. Good(a) /\ Stale(a) = {}
  BY ClaimedGood, ClaimOutcomes
<1>2. Good(k) /\ Stale(k) = {}
  <2> HIDE DEF a
  <2> QED BY <1>1, ClaimedGood, ClaimOutcomes
<1>3. /\ u \in DOMAIN a.slots /\ a.slots[u] = FreshSlot(c, NoSession)
      /\ \A v \in DOMAIN a.slots \ {u} : v \in DOMAIN slots /\ a.slots[v] = slots[v]
      /\ \A v \in DOMAIN slots \ (Stale(SM) \cup {u}) : v \in DOMAIN a.slots
  <2>1. SM.slots = slots
    BY DEF SM
  <2> HIDE DEF a
  <2> QED BY <2>1, ClaimedSlots DEF a
<1> HIDE DEF a
<1>4. ClaimOK(a, u, c)
  <2>1. u \in DOMAIN PruneStale(a).slots /\ PruneStale(a).slots[u] = a.slots[u]
    BY <1>1, <1>3, ReleasedGood DEF PruneStale
  <2>2. a.slots[u].carrier = c
    BY <1>3 DEF FreshSlot
  <2> QED BY <2>1, <2>2 DEF ClaimOK
<1>5. /\ u \in DOMAIN k.slots /\ k.slots[u] = FreshSlot(c, s)
      /\ \A v \in DOMAIN k.slots \ {u} : v \in DOMAIN a.slots /\ k.slots[v] = a.slots[v]
      /\ \A v \in DOMAIN a.slots \ (Stale(a) \cup {u}) : v \in DOMAIN k.slots
  BY <1>1, <1>4, ClaimedSlots
<1>6. k = ClaimedTwice(u, c, s)
  BY DEF ClaimedTwice, a
<1> HIDE DEF k
<1> QED BY <1>1, <1>2, <1>3, <1>5, <1>6

\* A call that gives no slot away keeps everything at home; the open sessions of
\* polite users stay attached if it takes no slot of theirs.
LEMMA SlotsShrink ==
  ASSUME PInv, NEW m, Good(m), SetSM(m), UNCHANGED <<logins, proxied, polite>>,
         \A u \in DOMAIN m.slots : /\ u \in DOMAIN slots
                                   /\ m.slots[u].session = slots[u].session
                                   /\ m.slots[u].carrier = slots[u].carrier,
         polite => \A s \in DOMAIN sess : Going(s) => sess[s].uid \in DOMAIN m.slots \ Stale(m),
         tabs' \in [Tabs -> {Off} \cup
                      [at : {"sse", "proxy"}, uid : Uids, sid : SessionIds]],
         \A r \in Tabs : tabs'[r] = tabs[r] \/ tabs'[r] = Off
  PROVE  PInv'
<1> USE DEF PInv
<1>1. slots' = m.slots /\ SM' = m /\ Good(SM)'
  BY DEF SetSM, SM, Good, Typed
<1>2. Shapes'
  BY DEF Shapes, logins
<1>3. Homes'
  BY <1>1 DEF Homes, SlotPointsHome, logins
<1>4. TasksRun'
  BY DEF TasksRun, Going, logins
<1>5. TabsHome'
  BY DEF TabsHome, Off, logins
<1>6. Tame'
  <2>1. Stale(SM)' = Stale(m)
    BY <1>1 DEF Stale
  <2>2. polite => \A s \in DOMAIN sess : Going(s) => Attached(s)'
    BY <1>1, <2>1 DEF Tame, Attached, Expired, logins
  <2> QED BY <2>2 DEF Tame, Going, InFlight, Off, logins
<1>7. OwnDocsOnly'
  BY DEF OwnDocsOnly, logins
<1> QED BY <1>1, <1>2, <1>3, <1>4, <1>5, <1>6, <1>7

\* Heartbeats, the end of a stream, feedback and a refused login
\* (main.py:82-108, 150-180; slot_manager.py).
LEMMA SlotStep ==
  ASSUME PInv,
         \/ \E u \in Uids, c \in Carriers : Resume(u, c) \/ Refuse(u, c)
         \/ \E r \in Tabs : Beat(r) \/ Close(r)
         \/ \E s \in SessionIds : FeedbackOk(s)
  PROVE  PInv'
<1> USE DEF PInv
<1>1. SM.slots = slots /\ DOMAIN slots \subseteq Uids
  BY DEF SM, Good, Typed
<1>2. polite => \A s \in DOMAIN sess : Going(s) => sess[s].uid \in DOMAIN slots \ Stale(SM)
  BY DEF Tame, Attached
<1>3. ASSUME NEW u \in Uids, SetSM(Ticked(SM, u)),
             UNCHANGED <<logins, proxied, tabs, polite>>
      PROVE  PInv'
  <2> DEFINE k == Ticked(SM, u)
  <2>1. Good(k)
    BY AgesGood
  <2>2. /\ DOMAIN k.slots = DOMAIN slots
        /\ \A v \in DOMAIN slots : /\ k.slots[v].session = slots[v].session
                                   /\ k.slots[v].carrier = slots[v].carrier
                                   /\ k.slots[v].idle \in {0, slots[v].idle}
    <3>1. CASE u \in DOMAIN slots
      <4>1. \A v \in DOMAIN slots : slots[v] \in Slot
        BY <1>1 DEF Good, Typed
      <4>2. k.slots = [slots EXCEPT ![u].idle = 0]
        BY <1>1, <3>1 DEF Ticked, SM
      <4> QED BY <4>1, <4>2 DEF Slot
    <3>2. CASE u \notin DOMAIN slots
      BY <1>1, <3>2 DEF Ticked
    <3> QED BY <3>1, <3>2
  <2> HIDE DEF k
  <2>3. Stale(k) \subseteq Stale(SM)
    BY <1>1, <2>2, SlotConstants DEF Stale
  <2> QED BY <1>2, <1>3, <2>1, <2>2, <2>3, SlotsShrink DEF k, Shapes
<1>4. ASSUME NEW S, SetSM(Released(SM, S)), UNCHANGED <<logins, proxied, polite>>,
             polite => \A s \in DOMAIN sess : Going(s) => sess[s].uid \notin S,
             tabs' \in [Tabs -> {Off} \cup
                          [at : {"sse", "proxy"}, uid : Uids, sid : SessionIds]],
             \A r \in Tabs : tabs'[r] = tabs[r] \/ tabs'[r] = Off
      PROVE  PInv'
  <2> DEFINE k == Released(SM, S)
  <2>1. /\ Good(k) /\ DOMAIN k.slots = DOMAIN slots \ S
        /\ \A v \in DOMAIN k.slots : k.slots[v] = slots[v]
    BY <1>1, ReleasedGood
  <2> HIDE DEF k
  <2>2. Stale(k) \subseteq Stale(SM)
    BY <1>1, <2>1 DEF Stale
  <2> QED BY <1>2, <1>4, <2>1, <2>2, SlotsShrink DEF k
<1>5. ASSUME NEW u \in Uids, NEW c \in Carriers, Resume(u, c)
      PROVE  PInv'
  BY <1>3, <1>5 DEF Resume
<1>6. ASSUME NEW u \in Uids, NEW c \in Carriers, Refuse(u, c)
      PROVE  PInv'
  <2>1. SetSM(Released(SM, Stale(SM)))
    BY <1>6, ClaimedSlots DEF Refuse, PruneStale
  <2> QED BY <1>2, <1>4, <1>6, <2>1 DEF Refuse, Shapes
<1>7. ASSUME NEW r \in Tabs, Beat(r)
      PROVE  PInv'
  <2>1. tabs[r].uid \in Uids
    BY <1>7 DEF Beat, Shapes, Off
  <2> QED BY <1>3, <1>7, <2>1 DEF Beat
<1>8. ASSUME NEW r \in Tabs, Close(r)
      PROVE  PInv'
  <2>1. polite => ~InFlight(tabs[r].uid)
    BY <1>8 DEF Close, Tame
  <2>2. polite => \A s \in DOMAIN sess : Going(s) => sess[s].uid \notin {tabs[r].uid}
    BY <2>1 DEF InFlight, Going
  <2> QED BY <1>4, <1>8, <2>2 DEF Close, Shapes
<1>9. ASSUME NEW s \in SessionIds, FeedbackOk(s)
      PROVE  PInv'
  <2>1. PICK u \in Holders(SM, s) : SetSM(Released(SM, {u}))
    BY <1>9 DEF FeedbackOk
  <2>2. slots[u].session = s /\ (polite => ~Going(s))
    BY <1>1, <1>9 DEF FeedbackOk, Holders
  <2>3. polite => \A t \in DOMAIN sess : Going(t) => sess[t].uid \notin {u}
    BY <2>2 DEF Tame, Attached
  <2> QED BY <1>4, <1>9, <2>1, <2>3 DEF FeedbackOk, Shapes
<1> QED BY <1>5, <1>6, <1>7, <1>8, <1>9

\* A login that begins has the carrier, and a session id of its own; the
\* sessions it prunes take their tasks with them (main.py:82-108).
LEMMA BeginStep ==
  ASSUME PInv, NEW u \in Uids, NEW c \in Carriers, NEW s \in SessionIds, Begin(u, c, s)
  PROVE  PInv'
<1> USE DEF PInv
<1> DEFINE k == ClaimedTwice(u, c, s)
           x == [uid |-> u, carrier |-> c, state |-> "open", age |-> 0]
           y == [carrier |-> c, fetching |-> FALSE, cancelled |-> FALSE]
<1>1. /\ Good(k) /\ Stale(k) = {}
      /\ u \in DOMAIN k.slots /\ k.slots[u] = FreshSlot(c, s)
      /\ \A v \in DOMAIN k.slots \ {u} : v \in DOMAIN slots /\ k.slots[v] = slots[v]
      /\ \A v \in DOMAIN slots \ (Stale(SM) \cup {u}) : v \in DOMAIN k.slots
  BY ClaimedTwiceSlots DEF Begin
<1>2. SetSM(k)
  BY DEF Begin
<1> HIDE DEF k
<1>3. slots' = k.slots /\ SM' = k /\ Good(SM)' /\ Stale(SM)' = {}
  BY <1>1, <1>2 DEF SetSM, SM, Good, Typed, Stale
<1>4. /\ s \notin used /\ used' = used \cup {s} /\ UsesOneTab(u)
      /\ UNCHANGED <<proxied, wired, shown, tabs, polite>>
      /\ DOMAIN sess' = (DOMAIN sess \ Expired) \cup {s}
      /\ sess'[s] = x /\ \A t \in DOMAIN sess' \ {s} : sess'[t] = sess[t]
  BY DEF Begin, With, Without
<1>5. /\ DOMAIN tasks' = DOMAIN tasks \cup {s} /\ tasks'[s] = y
      /\ \A t \in DOMAIN tasks : t # s =>
           tasks'[t] = [tasks[t] EXCEPT !.cancelled = @ \/ t \in Expired]
  BY DEF Begin, With, Pruned
<1>6. s \notin DOMAIN sess /\ s \notin DOMAIN tasks /\ s \notin DOMAIN proxied
  BY <1>4 DEF Shapes
<1>7. \A t \in DOMAIN tasks : t # s =>
         /\ tasks'[t] \in [carrier : Carriers, fetching : BOOLEAN, cancelled : BOOLEAN]
         /\ tasks'[t].carrier = tasks[t].carrier
         /\ tasks'[t].cancelled <=> (tasks[t].cancelled \/ t \in Expired)
  <2> SUFFICES ASSUME NEW t \in DOMAIN tasks, t # s
               PROVE  /\ tasks'[t] \in
                           [carrier : Carriers, fetching : BOOLEAN, cancelled : BOOLEAN]
                      /\ tasks'[t].carrier = tasks[t].carrier
                      /\ tasks'[t].cancelled <=> (tasks[t].cancelled \/ t \in Expired)
    OBVIOUS
  <2>1. tasks[t] \in [carrier : Carriers, fetching : BOOLEAN, cancelled : BOOLEAN]
    BY DEF Shapes
  <2> DEFINE b == tasks[t].cancelled \/ t \in Expired
  <2>2. tasks'[t] = [tasks[t] EXCEPT !.cancelled = b]
    BY <1>5
  <2>3. b \in BOOLEAN
    OBVIOUS
  <2>4. b <=> (tasks[t].cancelled \/ t \in Expired)
    OBVIOUS
  <2> HIDE DEF b
  <2>5. /\ tasks'[t] \in [carrier : Carriers, fetching : BOOLEAN, cancelled : BOOLEAN]
        /\ tasks'[t].carrier = tasks[t].carrier
        /\ tasks'[t].cancelled = b
    BY <2>1, <2>2, <2>3
  <2> QED BY <2>4, <2>5, Zenon
<1>8. FreshSlot(c, s).session = s /\ FreshSlot(c, s).carrier = c
  BY DEF FreshSlot
<1>9. Shapes'
  <2>1. x \in [uid : Uids, carrier : Carriers, state : {"open", "half", "done", "error"},
               age : 0..(SessionTTL + 1)]
    BY PortalConstants
  <2>2. y \in [carrier : Carriers, fetching : BOOLEAN, cancelled : BOOLEAN]
    OBVIOUS
  <2> HIDE DEF x, y
  <2>3. wired' \in [Carriers -> used' \cup {NoSession}]
    BY <1>4 DEF Shapes
  <2> QED BY <1>4, <1>5, <1>7, <2>1, <2>2, <2>3 DEF Shapes
<1>10. Homes'
  <2>1. SUFFICES ASSUME NEW v \in DOMAIN k.slots
                 PROVE  LET t == k.slots[v].session
                        IN  /\ t \in used'
                            /\ t \in DOMAIN sess' => /\ sess'[t].uid = v
                                                     /\ sess'[t].carrier = k.slots[v].carrier
                            /\ t \in DOMAIN proxied => proxied[t] = v
                            /\ t \in DOMAIN tasks' => tasks'[t].carrier = k.slots[v].carrier
    BY <1>3, <1>4 DEF Homes, SlotPointsHome
  <2>2. CASE v = u
    BY <1>1, <1>4, <1>5, <1>6, <1>8, <2>2
  <2>3. CASE v # u
    <3>1. /\ v \in DOMAIN slots /\ k.slots[v] = slots[v]
          /\ slots[v].session \in used /\ slots[v].session # s
      BY <1>1, <1>4, <2>3 DEF Homes, SlotPointsHome
    <3> QED BY <1>4, <1>5, <1>7, <3>1 DEF Homes, SlotPointsHome
  <2> QED BY <2>2, <2>3
<1>11. TasksRun'
  <2>1. \A t \in DOMAIN tasks' : ~tasks'[t].cancelled => Going(t)'
    BY <1>4, <1>5, <1>7 DEF TasksRun, Going
  <2>2. \A t \in DOMAIN tasks' \cap DOMAIN sess' : tasks'[t].carrier = sess'[t].carrier
    BY <1>4, <1>5, <1>6, <1>7 DEF TasksRun
  <2>3. \A d \in Carriers : wired'[d] \in DOMAIN sess' => sess'[wired'[d]].carrier = d
    BY <1>4, SlotConstants DEF TasksRun, Shapes
  <2> QED BY <2>1, <2>2, <2>3 DEF TasksRun
<1>12. TabsHome'
  BY <1>4 DEF TabsHome
<1>13. Tame'
  <2>1. SUFFICES ASSUME polite
                 PROVE  /\ \A t \in DOMAIN sess' : Going(t)' => Attached(t)'
                        /\ \A t \in DOMAIN tasks' : ~tasks'[t].cancelled
                        /\ \A r \in Tabs : tabs[r].at = "sse" =>
                             Going(tabs[r].sid)' \/ ~InFlight(tabs[r].uid)'
    BY <1>4 DEF Tame
  <2>2. ~InFlight(u) /\ \A r \in Tabs : tabs[r].at = "sse" => tabs[r].uid # u
    BY <1>4, <2>1 DEF UsesOneTab, Off
  <2>3. Attached(s)'
    <3>1. s \notin Expired'
      BY <1>4, PortalConstants DEF Expired
    <3> QED BY <1>1, <1>3, <1>4, <1>8, <3>1 DEF Attached
  <2>4. ASSUME NEW t \in DOMAIN sess' \ {s}, Going(t)'
        PROVE  Attached(t)'
    <3>1. t \in DOMAIN sess /\ sess'[t] = sess[t] /\ Going(t) /\ Attached(t)
      BY <1>4, <2>1, <2>4 DEF Going, Tame
    <3>2. sess[t].uid # u
      BY <2>2, <3>1 DEF InFlight, Going
    <3>3. sess[t].uid \in DOMAIN k.slots /\ k.slots[sess[t].uid] = slots[sess[t].uid]
      BY <1>1, <3>1, <3>2 DEF Attached
    <3> QED BY <1>3, <3>1, <3>3 DEF Attached, Expired
  <2>5. \A t \in DOMAIN tasks' : ~tasks'[t].cancelled
    <3>1. \A t \in DOMAIN tasks : t \notin Expired
      BY <2>1 DEF Tame, TasksRun, Attached, Going
    <3> QED BY <1>5, <1>7, <2>1, <3>1 DEF Tame
  <2>6. ASSUME NEW r \in Tabs, tabs[r].at = "sse"
        PROVE  Going(tabs[r].sid)' \/ ~InFlight(tabs[r].uid)'
    <3>1. CASE Going(tabs[r].sid)
      <4>1. tabs[r].sid \in DOMAIN sess \ Expired
        BY <2>1, <3>1 DEF Going, Tame, Attached
      <4>2. Going(tabs[r].sid)'
        BY <1>4, <1>6, <3>1, <4>1 DEF Going
      <4> QED BY <4>2
    <3>2. CASE ~InFlight(tabs[r].uid)
      <4>1. tabs[r].uid # u
        BY <2>2, <2>6
      <4> QED BY <1>4, <3>2, <4>1 DEF InFlight, Going
    <3> QED BY <2>1, <2>6, <3>1, <3>2 DEF Tame
  <2> QED BY <2>3, <2>4, <2>5, <2>6
<1>14. OwnDocsOnly'
  BY <1>4 DEF OwnDocsOnly
<1> QED BY <1>3, <1>9, <1>10, <1>11, <1>12, <1>13, <1>14

\* A login on the worker: the claim's answer is not looked at, so the slot of u
\* is fresh or whatever the sweep left (main.py:54-66).
LEMMA ProxyStep ==
  ASSUME PInv, NEW u \in Uids, NEW c \in Carriers, NEW s \in SessionIds, ProxyLogin(u, c, s)
  PROVE  PInv'
<1> USE DEF PInv
<1> DEFINE k == Claimed(SM, u, c, s)
<1>1. Good(k) /\ Stale(k) = {}
  BY ClaimedGood, ClaimOutcomes
<1>2. /\ \A v \in DOMAIN k.slots :
            \/ v = u /\ k.slots[v] = FreshSlot(c, s)
            \/ v \in DOMAIN slots /\ k.slots[v] = slots[v]
      /\ \A v \in DOMAIN slots \ (Stale(SM) \cup {u}) :
            v \in DOMAIN k.slots /\ k.slots[v] = slots[v]
  <2>1. SM.slots = slots
    BY DEF SM
  <2>2. ~ClaimOK(SM, u, c) => \A v \in DOMAIN k.slots : v \in DOMAIN slots /\ k.slots[v] = slots[v]
    BY <2>1, ClaimedSlots, ReleasedGood DEF PruneStale
  <2>3. /\ ClaimOK(SM, u, c) => u \in DOMAIN k.slots /\ k.slots[u] = FreshSlot(c, s)
        /\ \A v \in DOMAIN k.slots \ {u} : v \in DOMAIN slots /\ k.slots[v] = slots[v]
        /\ \A v \in DOMAIN slots \ (Stale(SM) \cup {u}) : v \in DOMAIN k.slots
    BY <2>1, ClaimedSlots
  <2> HIDE DEF k
  <2> QED BY <2>2, <2>3
<1>3. SetSM(k)
  BY DEF ProxyLogin
<1> HIDE DEF k
<1>4. slots' = k.slots /\ SM' = k /\ Good(SM)' /\ Stale(SM)' = {}
  BY <1>1, <1>3 DEF SetSM, SM, Good, Typed, Stale
<1>5. /\ s \notin used /\ used' = used \cup {s} /\ UsesOneTab(u)
      /\ UNCHANGED <<sess, tasks, wired, shown, tabs, polite>>
      /\ DOMAIN proxied' = DOMAIN proxied \cup {s} /\ proxied'[s] = u
      /\ \A t \in DOMAIN proxied : t # s => proxied'[t] = proxied[t]
  BY DEF ProxyLogin, With
<1>6. s \notin DOMAIN sess /\ s \notin DOMAIN tasks /\ s \notin DOMAIN proxied
  BY <1>5 DEF Shapes
<1>7. Shapes'
  <2>1. wired' \in [Carriers -> used' \cup {NoSession}]
    BY <1>5 DEF Shapes
  <2> QED BY <1>5, <2>1 DEF Shapes
<1>8. Homes'
  <2>1. FreshSlot(c, s).session = s /\ FreshSlot(c, s).carrier = c
    BY DEF FreshSlot
  <2>2. SUFFICES ASSUME NEW v \in DOMAIN k.slots
                 PROVE  LET t == k.slots[v].session
                        IN  /\ t \in used'
                            /\ t \in DOMAIN sess => /\ sess[t].uid = v
                                                    /\ sess[t].carrier = k.slots[v].carrier
                            /\ t \in DOMAIN proxied' => proxied'[t] = v
                            /\ t \in DOMAIN tasks => tasks[t].carrier = k.slots[v].carrier
    BY <1>4, <1>5 DEF Homes, SlotPointsHome
  <2>3. CASE v = u /\ k.slots[v] = FreshSlot(c, s)
    BY <1>5, <1>6, <2>1, <2>3
  <2>4. CASE v \in DOMAIN slots /\ k.slots[v] = slots[v]
    BY <1>5, <2>4 DEF Homes, SlotPointsHome
  <2> QED BY <1>2, <2>3, <2>4
<1>9. TasksRun'
  BY <1>5 DEF TasksRun, Going
<1>10. TabsHome'
  BY <1>5 DEF TabsHome
<1>11. Tame'
  <2>1. ASSUME polite, NEW t \in DOMAIN sess, Going(t)
        PROVE  Attached(t)'
    <3>1. Attached(t) /\ sess[t].uid # u
      BY <1>5, <2>1 DEF UsesOneTab, InFlight, Going, Tame
    <3> QED BY <1>2, <1>4, <1>5, <3>1 DEF Attached, Expired
  <2> QED BY <1>5, <2>1 DEF Tame, Going, InFlight
<1>12. OwnDocsOnly'
  BY <1>5 DEF OwnDocsOnly
<1> QED BY <1>4, <1>7, <1>8, <1>9, <1>10, <1>11, <1>12

\* A stream opens, or one of the worker closes: the slots stay (main.py:112-180).
LEMMA TabStep ==
  ASSUME PInv, NEW r \in Tabs, (\E s \in SessionIds : Open(r, s)) \/ CloseProxy(r)
  PROVE  PInv'
<1> USE DEF PInv
<1>1. /\ UNCHANGED <<slots, carrierOwners, sess, tasks, wired, shown, used, proxied, polite>>
      /\ UNCHANGED SM
  BY DEF Open, CloseProxy, slotVars, logins, SM
<1>2. Good(SM)' /\ Homes' /\ TasksRun' /\ OwnDocsOnly'
  BY <1>1 DEF Homes, SlotPointsHome, TasksRun, Going, OwnDocsOnly
<1> DEFINE Now(x) ==
             /\ tabs' = [tabs EXCEPT ![r] = x]
             /\ x \in {Off} \cup [at : {"sse", "proxy"}, uid : Uids, sid : SessionIds]
             /\ x.at = "sse" => /\ x.sid \in DOMAIN sess
                                /\ sess[x.sid].uid = x.uid
                                /\ polite => Going(x.sid) \/ ~InFlight(x.uid)
<1>3. \E x : Now(x)
  <2>1. ASSUME CloseProxy(r) PROVE \E x : Now(x)
    <3>1. Off.at # "sse"
      BY DEF Off
    <3> WITNESS Off
    <3> QED BY <2>1, <3>1 DEF CloseProxy
  <2>2. ASSUME NEW s \in SessionIds, s \in DOMAIN sess,
               polite => Going(s) \/ ~InFlight(sess[s].uid),
               tabs' = [tabs EXCEPT ![r] = [at |-> "sse", uid |-> sess[s].uid, sid |-> s]]
        PROVE  \E x : Now(x)
    <3> WITNESS [at |-> "sse", uid |-> sess[s].uid, sid |-> s]
    <3> QED BY <2>2 DEF Shapes
  <2>3. ASSUME NEW s \in SessionIds, s \in DOMAIN proxied,
               tabs' = [tabs EXCEPT ![r] = [at |-> "proxy", uid |-> proxied[s], sid |-> s]]
        PROVE  \E x : Now(x)
    <3> WITNESS [at |-> "proxy", uid |-> proxied[s], sid |-> s]
    <3> QED BY <2>3 DEF Shapes
  <2>4. \A t : Running(t) => Going(t)
    BY DEF Running, Going
  <2> QED BY <2>1, <2>2, <2>3, <2>4 DEF Open
<1>4. PICK x : Now(x)
  BY <1>3
<1>5. tabs'[r] = x /\ \A q \in Tabs \ {r} : tabs'[q] = tabs[q]
  BY <1>4 DEF Shapes
<1>6. Shapes'
  <2>1. tabs' \in [Tabs -> {Off} \cup
                     [at : {"sse", "proxy"}, uid : Uids, sid : SessionIds]]
    BY <1>4 DEF Shapes
  <2> HIDE DEF Now
  <2> QED BY <1>1, <2>1 DEF Shapes
<1>7. /\ x.at = "sse" => /\ x.sid \in DOMAIN sess
                         /\ sess[x.sid].uid = x.uid
                         /\ polite => Going(x.sid) \/ ~InFlight(x.uid)
      /\ DOMAIN sess \subseteq used
  BY <1>4 DEF Shapes
<1> HIDE DEF Now
<1>8. TabsHome'
  <2> SUFFICES ASSUME NEW q \in Tabs, tabs'[q].at = "sse"
               PROVE  /\ tabs'[q].sid \in used
                      /\ tabs'[q].sid \in DOMAIN sess =>
                           sess[tabs'[q].sid].uid = tabs'[q].uid
    BY <1>1 DEF TabsHome
  <2>1. CASE q = r
    BY <1>5, <1>7, <2>1
  <2>2. CASE q # r
    BY <1>5, <2>2 DEF TabsHome
  <2> QED BY <2>1, <2>2
<1>9. Tame'
  <2>1. \A t : (Going(t)' <=> Going(t)) /\ (Attached(t)' <=> Attached(t))
    BY <1>1 DEF Going, Attached, Expired, Stale
  <2>2. \A v : InFlight(v)' <=> InFlight(v)
    BY <1>1, <2>1 DEF InFlight
  <2>3. ASSUME polite, NEW q \in Tabs, tabs'[q].at = "sse"
        PROVE  Going(tabs'[q].sid) \/ ~InFlight(tabs'[q].uid)
    <3>1. CASE q = r
      BY <1>5, <1>7, <2>3, <3>1
    <3>2. CASE q # r
      BY <1>5, <2>3, <3>2 DEF Tame
    <3> QED BY <3>1, <3>2
  <2> QED BY <1>1, <2>1, <2>2, <2>3 DEF Tame
<1> QED BY <1>2, <1>6, <1>8, <1>9
----------------------------------------------------------------------------
(* The background logins                                                   *)

\* Two polite logins that drive one carrier are one: each is attached to the
\* slot of its uid, and a carrier has one slot.
LEMMA OneOpenPerCarrier ==
  ASSUME PInv, polite, NEW s \in DOMAIN sess, NEW t \in DOMAIN sess,
         Going(s), Going(t), sess[s].carrier = sess[t].carrier
  PROVE  s = t
<1>1. Attached(s) /\ Attached(t)
  BY DEF PInv, Tame
<1> DEFINE u == sess[s].uid
           v == sess[t].uid
<1>2. /\ u \in DOMAIN slots /\ slots[u].session = s
      /\ v \in DOMAIN slots /\ slots[v].session = t
  BY <1>1 DEF Attached
<1>3. slots[u].carrier = slots[v].carrier
  BY <1>2 DEF PInv, Homes, SlotPointsHome
<1>4. \A w \in DOMAIN slots : Owns(SM, w, slots[w].carrier)
  BY DEF PInv, Good, Agree, SM
<1>5. u = v
  BY <1>2, <1>3, <1>4 DEF Owns
<1> QED BY <1>2, <1>5

\* The callback of a carrier changes hands, a fetch begins or is given up
\* (orchestrator.py:387-391).
LEMMA FetchStep ==
  ASSUME PInv, NEW s \in SessionIds, EnterFetch(s) \/ FallBack(s) \/ Report(s)
  PROVE  PInv'
<1> USE DEF PInv
<1>1. /\ s \in DOMAIN tasks /\ ~tasks[s].cancelled /\ Going(s)
      /\ tasks[s].carrier \in Carriers /\ sess[s].carrier = tasks[s].carrier
      /\ UNCHANGED <<slots, carrierOwners, SM, proxied, sess, used, tabs, polite>>
  BY DEF EnterFetch, FallBack, Report, Alive, TasksRun, Going, Shapes, slotVars, SM
<1>2. \/ tasks' = tasks
      \/ \E b \in BOOLEAN : tasks' = [tasks EXCEPT ![s].fetching = b]
  BY DEF EnterFetch, FallBack, Report
<1>3. /\ DOMAIN tasks' = DOMAIN tasks
      /\ \A t \in DOMAIN tasks :
           /\ tasks'[t] \in [carrier : Carriers, fetching : BOOLEAN, cancelled : BOOLEAN]
           /\ tasks'[t].carrier = tasks[t].carrier
           /\ tasks'[t].cancelled = tasks[t].cancelled
  <2>1. \A t \in DOMAIN tasks :
           tasks[t] \in [carrier : Carriers, fetching : BOOLEAN, cancelled : BOOLEAN]
    BY DEF Shapes
  <2>2. ASSUME NEW b \in BOOLEAN, tasks' = [tasks EXCEPT ![s].fetching = b]
        PROVE  <1>3!:
    <3>1. tasks'[s] = [tasks[s] EXCEPT !.fetching = b]
      BY <1>1, <2>2
    <3>2. /\ tasks'[s] \in [carrier : Carriers, fetching : BOOLEAN, cancelled : BOOLEAN]
          /\ tasks'[s].carrier = tasks[s].carrier
          /\ tasks'[s].cancelled = tasks[s].cancelled
      BY <1>1, <2>1, <3>1
    <3>3. /\ DOMAIN tasks' = DOMAIN tasks
          /\ \A t \in DOMAIN tasks : t # s => tasks'[t] = tasks[t]
      BY <2>2
    <3> QED BY <2>1, <3>2, <3>3
  <2> QED BY <1>2, <2>1, <2>2
<1>4. /\ wired' \in [Carriers -> used \cup {NoSession}]
      /\ \A c \in Carriers : \/ wired'[c] \in {wired[c], NoSession}
                             \/ c = tasks[s].carrier /\ wired'[c] = s
  <2>1. wired' = wired \/ wired' = [wired EXCEPT ![tasks[s].carrier] = s]
          \/ wired' = [wired EXCEPT ![tasks[s].carrier] = NoSession]
    BY DEF EnterFetch, FallBack, Report, Unwired, Carrier
  <2> QED BY <1>1, <2>1 DEF Shapes
<1>5. shown' \in [SessionIds -> SUBSET SessionIds] /\ OwnDocsOnly'
  <2>1. CASE EnterFetch(s) \/ FallBack(s)
    BY <1>1, <2>1 DEF EnterFetch, FallBack, Shapes, OwnDocsOnly
  <2>2. CASE Report(s)
    <3> DEFINE w == wired[tasks[s].carrier]
    <3>1. w \in DOMAIN sess /\ Going(w) /\ shown' = [shown EXCEPT ![w] = @ \cup {s}]
      BY <2>2 DEF Report, Carrier, Running, Going
    <3>2. sess[w].carrier = tasks[s].carrier
      BY <1>1, <3>1 DEF TasksRun
    <3>3. polite => w = s
      BY <1>1, <3>1, <3>2, OneOpenPerCarrier DEF Going
    <3>4. w \in SessionIds
      BY <3>1 DEF Shapes
    <3> HIDE DEF w
    <3>5. shown' \in [SessionIds -> SUBSET SessionIds]
      BY <3>1, <3>4 DEF Shapes
    <3>6. OwnDocsOnly'
      BY <1>1, <3>1, <3>3, <3>4 DEF Shapes, OwnDocsOnly
    <3> QED BY <3>5, <3>6
  <2> QED BY <2>1, <2>2
<1>6. Shapes'
  BY <1>1, <1>3, <1>4, <1>5 DEF Shapes
<1>7. Homes'
  BY <1>1, <1>3 DEF Homes, SlotPointsHome
<1>8. TasksRun'
  <2>1. NoSession \notin DOMAIN sess
    BY SlotConstants DEF Shapes
  <2> QED BY <1>1, <1>3, <1>4, <2>1 DEF TasksRun, Going
<1>9. TabsHome'
  BY <1>1 DEF TabsHome
<1>10. Tame'
  BY <1>1, <1>3 DEF Tame, Going, InFlight, Attached, Stale, Expired
<1> QED BY <1>1, <1>5, <1>6, <1>7, <1>8, <1>9, <1>10

\* The save behind set_docs raises, and the login goes on: the session keeps its
\* slot, its task and its carrier (session_manager.py:145-156).
LEMMA SaveStep ==
  ASSUME PInv, NEW s \in SessionIds, SaveFails(s) \/ GoesOn(s)
  PROVE  PInv'
<1> USE DEF PInv
<1>1. /\ s \in DOMAIN tasks /\ ~tasks[s].cancelled /\ Going(s) /\ s \in DOMAIN sess
      /\ tasks[s].carrier \in Carriers
      /\ UNCHANGED <<slots, carrierOwners, SM, proxied, used, tabs, polite>>
  BY DEF SaveFails, GoesOn, Alive, TasksRun, Going, Shapes, slotVars, SM
<1>2. /\ DOMAIN sess' = DOMAIN sess
      /\ \A t \in DOMAIN sess : t # s => sess'[t] = sess[t]
      /\ sess'[s] \in [uid : Uids, carrier : Carriers,
                       state : {"open", "half", "done", "error"}, age : 0..(SessionTTL + 1)]
      /\ sess'[s].uid = sess[s].uid /\ sess'[s].carrier = sess[s].carrier
      /\ sess'[s].age = sess[s].age /\ sess'[s].state \in {"open", "half"}
  <2>1. sess[s] \in [uid : Uids, carrier : Carriers,
                     state : {"open", "half", "done", "error"}, age : 0..(SessionTTL + 1)]
    BY <1>1 DEF Shapes
  <2>2. \/ sess' = [sess EXCEPT ![s].state = "half"]
        \/ sess' = [sess EXCEPT ![s].state = "open"]
    BY DEF SaveFails, GoesOn
  <2>3. ASSUME NEW x \in {"open", "half"}, sess' = [sess EXCEPT ![s].state = x]
        PROVE  <1>2!:
    <3>1. sess'[s] = [sess[s] EXCEPT !.state = x]
      BY <1>1, <2>3
    <3> QED BY <2>1, <2>3, <3>1
  <2> QED BY <2>2, <2>3
<1>3. /\ DOMAIN tasks' = DOMAIN tasks
      /\ \A t \in DOMAIN tasks :
           /\ tasks'[t] \in [carrier : Carriers, fetching : BOOLEAN, cancelled : BOOLEAN]
           /\ tasks'[t].carrier = tasks[t].carrier
           /\ tasks'[t].cancelled = tasks[t].cancelled
  <2>1. \A t \in DOMAIN tasks :
           tasks[t] \in [carrier : Carriers, fetching : BOOLEAN, cancelled : BOOLEAN]
    BY DEF Shapes
  <2>2. CASE tasks' = [tasks EXCEPT ![s].fetching = FALSE]
    <3>1. tasks'[s] = [tasks[s] EXCEPT !.fetching = FALSE]
      BY <1>1, <2>2
    <3>2. /\ tasks'[s] \in [carrier : Carriers, fetching : BOOLEAN, cancelled : BOOLEAN]
          /\ tasks'[s].carrier = tasks[s].carrier
          /\ tasks'[s].cancelled = tasks[s].cancelled
      BY <1>1, <2>1, <3>1
    <3>3. /\ DOMAIN tasks' = DOMAIN tasks
          /\ \A t \in DOMAIN tasks : t # s => tasks'[t] = tasks[t]
      BY <2>2
    <3> QED BY <2>1, <3>2, <3>3
  <2> QED BY <2>1, <2>2 DEF SaveFails, GoesOn
<1>4. /\ wired' \in [Carriers -> used \cup {NoSession}]
      /\ \A c \in Carriers : wired'[c] \in {wired[c], NoSession}
  <2>1. wired' = wired \/ wired' = [wired EXCEPT ![tasks[s].carrier] = NoSession]
    BY DEF SaveFails, GoesOn, Unwired, Carrier
  <2> QED BY <1>1, <2>1 DEF Shapes
<1>5. shown' \in [SessionIds -> SUBSET SessionIds] /\ OwnDocsOnly'
  <2>1. shown' = shown \/ shown' = [shown EXCEPT ![s] = {s}]
    BY DEF SaveFails, GoesOn
  <2> QED BY <1>1, <2>1 DEF Shapes, OwnDocsOnly
<1>6. \A t : Going(t)' <=> Going(t)
  BY <1>1, <1>2 DEF Going
<1>7. Shapes'
  BY <1>1, <1>2, <1>3, <1>4, <1>5 DEF Shapes
<1>8. Homes'
  BY <1>1, <1>2, <1>3 DEF Homes, SlotPointsHome
<1>9. TasksRun'
  <2>1. NoSession \notin DOMAIN sess
    BY SlotConstants DEF Shapes
  <2> QED BY <1>2, <1>3, <1>4, <1>6, <2>1 DEF TasksRun
<1>10. TabsHome'
  BY <1>1, <1>2 DEF TabsHome
<1>11. Tame'
  <2>1. \A t \in DOMAIN sess : Attached(t) => Attached(t)'
    BY <1>1, <1>2 DEF Attached, Stale, Expired
  <2>2. \A u : InFlight(u)' <=> InFlight(u)
    BY <1>2, <1>6 DEF InFlight
  <2> QED BY <1>1, <1>2, <1>3, <1>6, <2>1, <2>2 DEF Tame
<1> QED BY <1>1, <1>5, <1>7, <1>8, <1>9, <1>10, <1>11

\* A login ends with documents, an error or the cancellation of a pruned
\* session; its session is no longer open (orchestrator.py:200-260).
LEMMA EndStep ==
  ASSUME PInv, NEW s \in SessionIds, Succeed(s) \/ Fail(s) \/ Cancelled(s)
  PROVE  PInv'
<1> USE DEF PInv
<1>1. /\ s \in DOMAIN tasks /\ tasks[s].carrier \in Carriers
      /\ DOMAIN tasks' = DOMAIN tasks \ {s}
      /\ \A t \in DOMAIN tasks' : tasks'[t] = tasks[t]
      /\ UNCHANGED <<slots, carrierOwners, SM, proxied, used, tabs, polite>>
  BY DEF Succeed, Fail, Cancelled, Alive, Without, Shapes, slotVars, SM
<1>2. /\ DOMAIN sess' = DOMAIN sess
      /\ \A t \in DOMAIN sess : t # s => sess'[t] = sess[t]
      /\ s \in DOMAIN sess =>
           /\ sess'[s] \in [uid : Uids, carrier : Carriers,
                             state : {"open", "half", "done", "error"}, age : 0..(SessionTTL + 1)]
           /\ sess'[s].uid = sess[s].uid /\ sess'[s].carrier = sess[s].carrier
           /\ sess'[s].age = sess[s].age
           /\ \/ sess'[s].state \notin {"open", "half"}
              \/ sess'[s] = sess[s] /\ tasks[s].cancelled
  <2>1. \A t \in DOMAIN sess :
          sess[t] \in [uid : Uids, carrier : Carriers,
                       state : {"open", "half", "done", "error"}, age : 0..(SessionTTL + 1)]
    BY DEF Shapes
  <2>2. \/ sess' = [sess EXCEPT ![s].state = "done"]
        \/ sess' = [sess EXCEPT ![s].state = "error"]
        \/ sess' = sess /\ tasks[s].cancelled
    BY DEF Succeed, Fail, Cancelled
  <2>3. ASSUME NEW x \in {"done", "error"}, sess' = [sess EXCEPT ![s].state = x]
        PROVE  <1>2!:
    <3>1. /\ DOMAIN sess' = DOMAIN sess
          /\ \A t \in DOMAIN sess : t # s => sess'[t] = sess[t]
          /\ s \in DOMAIN sess => sess'[s] = [sess[s] EXCEPT !.state = x]
      BY <2>3
    <3>2. ASSUME s \in DOMAIN sess
          PROVE  /\ sess'[s] \in [uid : Uids, carrier : Carriers,
                                  state : {"open", "half", "done", "error"},
                                  age : 0..(SessionTTL + 1)]
                 /\ sess'[s].uid = sess[s].uid /\ sess'[s].carrier = sess[s].carrier
                 /\ sess'[s].age = sess[s].age
                 /\ sess'[s].state \notin {"open", "half"}
      BY <2>1, <3>1, <3>2
    <3> QED BY <3>1, <3>2
  <2> QED BY <2>1, <2>2, <2>3
<1>3. /\ wired' \in [Carriers -> used \cup {NoSession}]
      /\ \A c \in Carriers : wired'[c] \in {wired[c], NoSession}
  <2>1. wired' = wired \/ wired' = [wired EXCEPT ![tasks[s].carrier] = NoSession]
    BY DEF Succeed, Fail, Cancelled, Unwired, Carrier
  <2> QED BY <1>1, <2>1 DEF Shapes
<1>4. shown' \in [SessionIds -> SUBSET SessionIds] /\ OwnDocsOnly'
  <2>1. shown' = shown \/ shown' = [shown EXCEPT ![s] = {s}]
    BY DEF Succeed, Fail, Cancelled
  <2> QED BY <1>1, <2>1 DEF Shapes, OwnDocsOnly
<1>5. Shapes'
  BY <1>1, <1>2, <1>3, <1>4 DEF Shapes
<1>6. Homes'
  BY <1>1, <1>2 DEF Homes, SlotPointsHome
<1>7. TasksRun'
  <2>1. NoSession \notin DOMAIN sess
    BY SlotConstants DEF Shapes
  <2> QED BY <1>1, <1>2, <1>3, <2>1 DEF TasksRun, Going
<1>8. TabsHome'
  BY <1>1, <1>2 DEF TabsHome
<1>9. Tame'
  <2> SUFFICES ASSUME polite
               PROVE  /\ \A t \in DOMAIN sess' : Going(t)' => Attached(t)'
                      /\ \A t \in DOMAIN tasks' : ~tasks'[t].cancelled
                      /\ \A r \in Tabs : tabs[r].at = "sse" =>
                           Going(tabs[r].sid)' \/ ~InFlight(tabs[r].uid)'
    BY <1>1 DEF Tame
  <2>1. /\ s \in DOMAIN sess /\ Going(s) /\ ~Going(s)'
        /\ \A t \in DOMAIN sess : t # s => (Going(t)' <=> Going(t))
    BY <1>1, <1>2 DEF Tame, TasksRun, Going
  <2>2. \A t \in DOMAIN sess' : Going(t)' => Attached(t)'
    BY <1>1, <1>2, <2>1 DEF Tame, Attached, Stale, Expired
  <2>3. \A t \in DOMAIN tasks' : ~tasks'[t].cancelled
    BY <1>1 DEF Tame
  <2>4. ASSUME NEW r \in Tabs, tabs[r].at = "sse"
        PROVE  Going(tabs[r].sid)' \/ ~InFlight(tabs[r].uid)'
    <3> DEFINE v == tabs[r].uid
    <3>1. CASE tabs[r].sid = s
      <4>1. sess[s].uid = v
        BY <2>1, <2>4, <3>1 DEF TabsHome
      <4>2. \A t \in DOMAIN sess : Going(t) /\ sess[t].uid = v => t = s
        BY <2>1, <4>1 DEF Tame, Attached
      <4>3. ~InFlight(v)'
        BY <1>1, <1>2, <2>1, <4>2 DEF InFlight, Going
      <4> QED BY <1>1, <4>3
    <3>2. CASE tabs[r].sid # s /\ Going(tabs[r].sid)
      BY <1>1, <2>1, <3>2 DEF Going
    <3>3. CASE ~InFlight(v)
      <4>1. ~InFlight(v)'
        BY <1>1, <1>2, <2>1, <3>3 DEF InFlight, Going
      <4> QED BY <1>1, <4>1
    <3> QED BY <2>4, <3>1, <3>2, <3>3 DEF Tame
  <2> QED BY <2>2, <2>3, <2>4
<1> QED BY <1>1, <1>4, <1>5, <1>6, <1>7, <1>8, <1>9

\* Time passes: polite users hear from their slots and end their logins before
\* either TTL runs out.
LEMMA TockStep ==
  ASSUME PInv, Tock
  PROVE  PInv'
<1> USE DEF PInv
<1> DEFINE k == Aged(SM)
<1>1. Good(k)
  BY AgesGood
<1>2. SM.slots = slots /\ \A u \in DOMAIN slots : slots[u] \in Slot
  BY DEF SM, Good, Typed
<1>3. /\ DOMAIN k.slots = DOMAIN slots
      /\ \A u \in DOMAIN slots :
           /\ k.slots[u].session = slots[u].session
           /\ k.slots[u].carrier = slots[u].carrier
           /\ slots[u].idle < IdleTTL => k.slots[u].idle <= IdleTTL
  <2>1. k.slots = [u \in DOMAIN slots |->
          [slots[u] EXCEPT !.idle = IF @ > IdleTTL THEN @ ELSE @ + 1]]
    BY DEF Aged, SM
  <2> HIDE DEF k
  <2> QED BY <1>2, <2>1, SlotConstants DEF Slot
<1> HIDE DEF k
<1>4. slots' = k.slots /\ SM' = k /\ Good(SM)'
  BY <1>1 DEF Tock, SetSM, SM, Good, Typed, k
<1>5. UNCHANGED <<proxied, tasks, wired, shown, used, tabs, polite>>
  BY DEF Tock
<1>6. /\ DOMAIN sess' = DOMAIN sess
      /\ \A s \in DOMAIN sess :
           /\ sess'[s] \in [uid : Uids, carrier : Carriers,
                            state : {"open", "half", "done", "error"}, age : 0..(SessionTTL + 1)]
           /\ sess'[s].uid = sess[s].uid /\ sess'[s].carrier = sess[s].carrier
           /\ sess'[s].state = sess[s].state
           /\ sess[s].age < SessionTTL => ~(sess'[s].age > SessionTTL)
  <2>1. \A s \in DOMAIN sess :
          sess[s] \in [uid : Uids, carrier : Carriers,
                       state : {"open", "half", "done", "error"}, age : 0..(SessionTTL + 1)]
    BY DEF Shapes
  <2>2. sess' = [s \in DOMAIN sess |->
                   [sess[s] EXCEPT !.age = IF @ > SessionTTL THEN @ ELSE @ + 1]]
    BY DEF Tock
  <2> QED BY <2>1, <2>2, PortalConstants
<1>7. Shapes'
  BY <1>5, <1>6 DEF Shapes
<1>8. Homes'
  BY <1>3, <1>4, <1>5, <1>6 DEF Homes, SlotPointsHome
<1>9. TasksRun'
  BY <1>5, <1>6 DEF TasksRun, Going
<1>10. TabsHome'
  BY <1>5, <1>6 DEF TabsHome
<1>11. Tame'
  <2>1. ASSUME polite, NEW s \in DOMAIN sess, Going(s)
        PROVE  Attached(s)'
    <3>1. /\ Attached(s) /\ sess[s].age < SessionTTL
          /\ slots[sess[s].uid].idle < IdleTTL
      BY <2>1 DEF Tock, Tame, Attached
    <3>2. s \notin Expired'
      BY <1>6, <2>1, <3>1 DEF Expired
    <3>3. k.slots[sess[s].uid].idle <= IdleTTL /\ sess[s].uid \in DOMAIN slots
      BY <1>3, <3>1 DEF Attached
    <3>4. sess[s].uid \notin Stale(SM)'
      <4>1. k.slots[sess[s].uid].idle \in Nat
        BY <1>1, <1>3, <3>3, SlotConstants DEF Good, Typed, Slot
      <4> QED BY <1>4, <3>3, <4>1, SlotConstants DEF Stale
    <3> QED BY <1>3, <1>4, <1>6, <2>1, <3>1, <3>2, <3>3, <3>4 DEF Attached
  <2>2. \A s : Going(s)' <=> Going(s)
    BY <1>6 DEF Going
  <2>3. \A u : InFlight(u)' <=> InFlight(u)
    BY <1>6, <2>2 DEF InFlight
  <2> QED BY <1>5, <1>6, <2>1, <2>2, <2>3 DEF Tame
<1>12. OwnDocsOnly'
  BY <1>5 DEF OwnDocsOnly
<1> QED BY <1>4, <1>7, <1>8, <1>9, <1>10, <1>11, <1>12

LEMMA PortalNextInv == PInv /\ [PortalNext]_vars => PInv'
<1> SUFFICES ASSUME PInv, [PortalNext]_vars PROVE PInv'
  OBVIOUS
<1>1. CASE UNCHANGED vars
  BY <1>1 DEF vars, PInv, Good, Typed, Agree, Owns, SM, Shapes, Homes, SlotPointsHome,
              TasksRun, TabsHome, Tame, Attached, Going, InFlight, Stale, Expired,
              OwnDocsOnly
<1>2. ASSUME NEW u \in Uids, NEW c \in Carriers,
             \/ Resume(u, c) \/ Refuse(u, c)
             \/ \E s \in SessionIds : Begin(u, c, s) \/ ProxyLogin(u, c, s)
      PROVE  PInv'
  BY <1>2, SlotStep, BeginStep, ProxyStep
<1>3. ASSUME NEW r \in Tabs,
             \/ Beat(r) \/ Close(r) \/ CloseProxy(r)
             \/ \E s \in SessionIds : Open(r, s)
      PROVE  PInv'
  BY <1>3, SlotStep, TabStep
<1>4. ASSUME NEW s \in SessionIds,
             \/ FeedbackOk(s) \/ EnterFetch(s) \/ Report(s) \/ Succeed(s)
             \/ SaveFails(s) \/ GoesOn(s) \/ FallBack(s) \/ Fail(s) \/ Cancelled(s)
      PROVE  PInv'
  BY <1>4, SlotStep, FetchStep, SaveStep, EndStep
<1> QED BY <1>1, <1>2, <1>3, <1>4, TockStep DEF PortalNext

LEMMA PortalInvariance == PortalSpec => []PInv
BY PortalInitInv, PortalNextInv, PTL DEF PortalSpec
----------------------------------------------------------------------------
(* The portal is well-formed, and every slot points at a session that its   *)
(* own uid started on its own carrier (main.py:82-108).                     *)
THEOREM PortalInvProved == PortalSpec => []PortalInv
<1>1. PInv => PortalInv
  BY DEF PInv, Good, Typed, SM, TypeOK, Shapes, Homes, PortalInv, PortalTypes
<1> QED BY <1>1, PortalInvariance, PTL

(* A login that is not cancelled has a session: pruning cancels what it     *)
(* forgets (session_manager.py:324-327).                                    *)
THEOREM NoTaskWithoutSessionProved == PortalSpec => []NoTaskWithoutSession
<1>1. PInv => NoTaskWithoutSession
  BY DEF PInv, TasksRun, Going, Alive, NoTaskWithoutSession
<1> QED BY <1>1, PortalInvariance, PTL

(* Of the logins on one carrier at most one is attached to a slot           *)
(* (main.py:82-108, slot_manager.py:57-90).                                 *)
THEOREM OneAttachedProved == PortalSpec => []OneAttached
<1>1. PInv => OneAttached
  <2> SUFFICES ASSUME PInv, NEW u \in DOMAIN slots, NEW v \in DOMAIN slots,
                      slots[u].session \in DOMAIN tasks,
                      slots[v].session \in DOMAIN tasks,
                      tasks[slots[u].session].carrier = tasks[slots[v].session].carrier
               PROVE  slots[u].session = slots[v].session
    BY DEF OneAttached, Carrier
  <2>1. slots[u].carrier = slots[v].carrier
    BY DEF PInv, Homes
  <2>2. Owns(SM, u, slots[u].carrier) /\ Owns(SM, v, slots[v].carrier)
    BY DEF PInv, Good, Agree, SM
  <2> QED BY <2>1, <2>2 DEF Owns
<1> QED BY <1>1, PortalInvariance, PTL

(* The callback that the logins of a carrier share (orchestrator.py:387-391)*)
(* shows polite users their own documents only.                             *)
THEOREM OwnDocsOnlyProved == PortalSpec => []OwnDocsOnly
BY PortalInvariance, PTL DEF PInv

(* Polite users drive a carrier for one uid at a time (slot_manager.py:6-8).*)
THEOREM PoliteDriversProved == PortalSpec => []PoliteDrivers
<1>1. PInv => PoliteDrivers
  <2> SUFFICES ASSUME PInv, polite, NEW s \in Drivers, NEW t \in Drivers,
                      Carrier(s) = Carrier(t)
               PROVE  sess[s].uid = sess[t].uid
    BY DEF PoliteDrivers
  <2>1. /\ s \in DOMAIN sess /\ t \in DOMAIN sess /\ Going(s) /\ Going(t)
        /\ sess[s].carrier = sess[t].carrier
    BY DEF PInv, TasksRun, Tame, Drivers, Carrier
  <2> QED BY <2>1, OneOpenPerCarrier
<1> QED BY <1>1, PortalInvariance, PTL

(* carrier-busy is answered only while another uid was heard from within    *)
(* the TTL (slot_manager.py:3-4, main.py:82-90).                            *)
THEOREM RefusedByLiveOwnerProved == PortalSpec => RefusedByLiveOwner
<1>1. ASSUME PInv, NEW u \in Uids, NEW c \in Carriers, Refuse(u, c)
      PROVE  \E v \in DOMAIN slots :
                v # u /\ slots[v].carrier = c /\ slots[v].idle <= IdleTTL
  <2> DEFINE p == PruneStale(SM)
  <2>1. /\ Good(p) /\ Stale(p) = {} /\ DOMAIN p.slots = DOMAIN slots \ Stale(SM)
        /\ \A v \in DOMAIN p.slots : p.slots[v] = slots[v]
    <3>1. Good(SM) /\ SM.slots = slots
      BY <1>1 DEF PInv, SM
    <3> QED BY <3>1, PruneGood, ReleasedGood DEF PruneStale
  <2>2. c \in DOMAIN p.owners /\ p.owners[c] # u
    BY <1>1 DEF Refuse, ClaimOK, HeldByOther
  <2> HIDE DEF p
  <2>3. p.owners[c] \in DOMAIN p.slots /\ p.slots[p.owners[c]].carrier = c
    BY <2>1, <2>2 DEF Good, Agree
  <2>4. p.slots[p.owners[c]].idle \in Nat
    BY <2>1, <2>3, SlotConstants DEF Good, Typed, Slot
  <2>5. p.slots[p.owners[c]].idle <= IdleTTL
    BY <2>1, <2>3, <2>4, SlotConstants DEF Stale
  <2> QED BY <2>1, <2>2, <2>3, <2>5
<1>2. PInv /\ [PortalNext]_vars =>
        [\A u \in Uids, c \in Carriers :
           Refuse(u, c) => \E v \in DOMAIN slots :
              v # u /\ slots[v].carrier = c /\ slots[v].idle <= IdleTTL]_vars
  BY <1>1
<1> QED BY <1>2, PortalInvariance, PTL DEF PortalSpec, RefusedByLiveOwner
=============================================================================
