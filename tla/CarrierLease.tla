---------------------------- MODULE CarrierLease ----------------------------
(***************************************************************************)
(* The promise of backend/slot_manager.py, without its dicts and clocks:   *)
(* each carrier is leased to at most one uid, a uid holds at most one      *)
(* lease, and a lease is taken over only after its holder went silent.     *)
(***************************************************************************)
CONSTANTS Uids, Carriers

VARIABLES lease,   \* carrier -> holder, for the carriers that are leased
          lapsed   \* holders that have been silent for too long

leaseVars == <<lease, lapsed>>

Holder == {lease[c] : c \in DOMAIN lease}

Init == lease = [c \in {} |-> c] /\ lapsed = {}

\* what is left of the leases when every holder in S gives its one up
Leftover(S) == [c \in {d \in DOMAIN lease : lease[d] \notin S} |-> lease[c]]

\* u gets c, unless somebody who is not silent holds it; all silent holders
\* lose theirs, and u loses the other carrier it may hold
Grant(u, c) ==
  /\ c \in DOMAIN lease => lease[c] \in lapsed \cup {u}
  /\ lease' = [d \in DOMAIN Leftover(lapsed \cup {u}) \cup {c} |->
                 IF d = c THEN u ELSE lease[d]]
  /\ lapsed' = {}

\* a holder gives up its lease
Free(u) ==
  /\ u \in Holder
  /\ lease' = Leftover({u})
  /\ lapsed' = lapsed \ {u}

\* the silent holders are swept
Sweep ==
  /\ lease' = Leftover(lapsed)
  /\ lapsed' = {}

\* some holders go silent
Lapse ==
  /\ lapsed \subseteq lapsed'
  /\ lapsed' \subseteq Holder
  /\ UNCHANGED lease

\* a silent holder is heard again before anyone swept it
Revive(u) ==
  /\ lapsed' = lapsed \ {u}
  /\ UNCHANGED lease

Next ==
  \/ \E u \in Uids, c \in Carriers : Grant(u, c)
  \/ \E u \in Uids : Free(u) \/ Revive(u)
  \/ Sweep
  \/ Lapse

Spec == Init /\ [][Next]_leaseVars
=============================================================================
