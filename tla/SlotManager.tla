---------------------------- MODULE SlotManager ----------------------------
(***************************************************************************)
(* backend/slot_manager.py: at most one slot per uid, at most one uid per  *)
(* carrier.  The two dicts of the class are partial functions, and a value *)
(* of the whole object is the record [slots, owners], so that callers that *)
(* make several calls between two awaits (main.login claims twice) can     *)
(* compose them into one step.                                             *)
(*                                                                         *)
(* Wall-clock time is abstracted to the age of each heartbeat: idle counts *)
(* time units since last_heartbeat and saturates one above IdleTTL, the    *)
(* first age prune_stale treats as stale.                                  *)
(***************************************************************************)
EXTENDS Naturals

CONSTANTS Uids,        \* browsers, identified by their cookie
          Carriers,    \* the insurance portals
          SessionIds,  \* ids a slot can point at
          NoSession,   \* the "" placeholder main.login claims with first
          IdleTTL      \* SLOT_IDLE_TTL_SECONDS, in time units

ASSUME SlotConstants ==
  /\ IdleTTL \in Nat
  /\ NoSession \notin SessionIds

VARIABLES slots,          \* uid -> its slot            (_slots)
          carrierOwners   \* carrier -> owning uid      (_carrier_owners)

slotVars == <<slots, carrierOwners>>

Slot == [carrier : Carriers, session : SessionIds \cup {NoSession},
         idle : 0..(IdleTTL + 1)]

Empty == [x \in {} |-> x]
Without(f, S) == [x \in (DOMAIN f) \ S |-> f[x]]
With(f, k, v) == [x \in (DOMAIN f) \cup {k} |-> IF x = k THEN v ELSE f[x]]

SM == [slots |-> slots, owners |-> carrierOwners]

SetSM(m) == slots' = m.slots /\ carrierOwners' = m.owners
----------------------------------------------------------------------------
(* The methods, as functions of the object's value. *)

Owns(m, u, c) == c \in DOMAIN m.owners /\ m.owners[c] = u

\* mutant: a slot is given up when its TTL is reached, not when it is over
StaleAtTTL(m) == {u \in DOMAIN m.slots : m.slots[u].idle >= IdleTTL}

Stale(m) == {u \in DOMAIN m.slots : m.slots[u].idle > IdleTTL}

\* mutant: only the slot is popped
SlotsReleased(m, S) == [m EXCEPT !.slots = Without(@, S)]

\* _release_internal of every uid in S
Released(m, S) ==
  [slots  |-> Without(m.slots, S),
   owners |-> Without(m.owners,
                {c \in DOMAIN m.owners :
                   \E u \in S \cap DOMAIN m.slots :
                      m.slots[u].carrier = c /\ Owns(m, u, c)})]

PruneStale(m) == Released(m, Stale(m))

FreshSlot(c, s) == [carrier |-> c, session |-> s, idle |-> 0]

\* mutant: the owner of a carrier is not looked up
HeldByNobody(m, u, c) == FALSE

HeldByOther(m, u, c) == c \in DOMAIN m.owners /\ m.owners[c] # u

\* mutant: the answer is decided before the silent uids are swept
ClaimOKUnswept(m, u, c) ==
  \/ u \in DOMAIN m.slots /\ m.slots[u].carrier = c
  \/ ~HeldByOther(m, u, c)

\* claim(): what the object is after it, and whether it answered OK
ClaimOK(m, u, c) ==
  LET p == PruneStale(m)
  IN  \/ u \in DOMAIN p.slots /\ p.slots[u].carrier = c
      \/ ~HeldByOther(p, u, c)

\* mutant: switching carriers does not give the old one back
ClaimedBoth(m, u, c, s) ==
  LET p == PruneStale(m)
  IN  IF HeldByOther(p, u, c)
      THEN p
      ELSE [slots |-> With(p.slots, u, FreshSlot(c, s)),
            owners |-> With(p.owners, c, u)]

Claimed(m, u, c, s) ==
  LET p == PruneStale(m)
      r == Released(p, {u})
  IN  IF u \in DOMAIN p.slots /\ p.slots[u].carrier = c
      THEN [p EXCEPT !.slots[u] = FreshSlot(c, s)]
      ELSE IF HeldByOther(p, u, c)
      THEN p
      ELSE [slots |-> With(r.slots, u, FreshSlot(c, s)),
            owners |-> With(r.owners, c, u)]

Ticked(m, u) ==
  IF u \in DOMAIN m.slots THEN [m EXCEPT !.slots[u].idle = 0] ELSE m

\* release_session(): the first slot that points at s, in dict order
Holders(m, s) == {u \in DOMAIN m.slots : m.slots[u].session = s}
----------------------------------------------------------------------------
Init == slots = Empty /\ carrierOwners = Empty

Claim(u, c, s) == SetSM(Claimed(SM, u, c, s))
Tick(u) == u \in DOMAIN slots /\ SetSM(Ticked(SM, u))
Release(u) == u \in DOMAIN slots /\ SetSM(Released(SM, {u}))
ReleaseSession(s) == \E u \in Holders(SM, s) : SetSM(Released(SM, {u}))
Prune == SetSM(PruneStale(SM))

Aged(m) ==
  [m EXCEPT !.slots = [u \in DOMAIN m.slots |->
     [m.slots[u] EXCEPT !.idle = IF @ > IdleTTL THEN @ ELSE @ + 1]]]

TimePasses == SetSM(Aged(SM))

Next ==
  \/ \E u \in Uids, c \in Carriers, s \in SessionIds \cup {NoSession} :
        Claim(u, c, s)
  \/ \E u \in Uids : Tick(u) \/ Release(u)
  \/ \E s \in SessionIds : ReleaseSession(s)
  \/ Prune
  \/ TimePasses

Spec == Init /\ [][Next]_slotVars
----------------------------------------------------------------------------
(* Both dicts are keyed and valued as annotated in SlotManager.__init__.   *)
TypeOK ==
  /\ DOMAIN slots \subseteq Uids
  /\ \A u \in DOMAIN slots : slots[u] \in Slot
  /\ DOMAIN carrierOwners \subseteq Carriers
  /\ \A c \in DOMAIN carrierOwners : carrierOwners[c] \in Uids

(* The two dicts never disagree: the owner of a carrier is a uid whose     *)
(* slot names that carrier, and the carrier of every slot is owned by the  *)
(* slot's uid.  If _release_internal or a claim that switches carriers     *)
(* left one side behind, the carrier would stay locked for ever, or be     *)
(* driven by two uids at once.                                             *)
DictsAgree ==
  /\ \A c \in DOMAIN carrierOwners :
        /\ carrierOwners[c] \in DOMAIN slots
        /\ slots[carrierOwners[c]].carrier = c
  /\ \A u \in DOMAIN slots :
        Owns(SM, u, slots[u].carrier)

(* What a run checks together: the dicts are typed, and they agree.        *)
SlotInv == TypeOK /\ DictsAgree

(* Two uids never hold slots on one carrier (slot_manager.py:6).           *)
CarrierExclusive ==
  \A u, v \in DOMAIN slots : slots[u].carrier = slots[v].carrier => u = v

(* A carrier changes hands in one call only when its owner has been silent *)
(* for longer than the TTL: claim must not steal it from a live uid.       *)
NoSteal ==
  \A c \in DOMAIN carrierOwners \cap DOMAIN carrierOwners' :
     carrierOwners'[c] # carrierOwners[c]
        => slots[carrierOwners[c]].idle > IdleTTL

NoStealAlways == [][NoSteal]_slotVars
----------------------------------------------------------------------------
(* What the class promises its callers: an exclusive lease per carrier.    *)
Lease == INSTANCE CarrierLease WITH
           lease  <- carrierOwners,
           lapsed <- Stale(SM)

LeaseSpec == Lease!Spec
=============================================================================
