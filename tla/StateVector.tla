----------------------------- MODULE StateVector -----------------------------
(***************************************************************************)
(* The authorization CRDT: per tuple the largest timestamp at which it was *)
(* granted (the add set) and revoked (the remove set).  A tuple the map    *)
(* does not hold and an entry without timestamps are both NoEntry: every   *)
(* operation that creates an entry gives it a timestamp at once.           *)
(***************************************************************************)
EXTENDS Hlc

CONSTANTS Horizon,      \* the deletion horizon, in ticks of the wall clock
          MaxFuture     \* how far ahead of its receiver an operation may be

ASSUME HorizonAssumption == Horizon \in Nat /\ MaxFuture \in Nat

Null == -1              \* no timestamp: smaller than every timestamp
Timestamp == Nat \cup {Null}

Grant  == "GRANT"
Revoke == "REVOKE"
Action == {Grant, Revoke}

Entry == [addTs: Timestamp, removeTs: Timestamp]
NoEntry == [addTs |-> Null, removeTs |-> Null]

maxTs(a, b) == IF a > b THEN a ELSE b

(* Wrong: takes operations older than the deletion horizon. *)
IntakeAnyAge(hlc, now) == physicalMs(hlc) <= now + MaxFuture

(* The two intake checks: not too far in the future, and not older than the *)
(* deletion horizon.                                                        *)
Intake(hlc, now) ==
    /\ physicalMs(hlc) <= now + MaxFuture
    /\ physicalMs(hlc) >= now - Horizon

(* What an operation that passed intake does to the entry of its tuple. *)
Apply(entry, action, hlc) ==
    IF action = Grant
    THEN [entry EXCEPT !.addTs = maxTs(@, hlc)]
    ELSE [entry EXCEPT !.removeTs = maxTs(@, hlc)]

Merge(entry, other) ==
    [addTs    |-> maxTs(entry.addTs, other.addTs),
     removeTs |-> maxTs(entry.removeTs, other.removeTs)]

isActive(entry) ==
    /\ entry.addTs # Null
    /\ entry.removeTs = Null \/ entry.addTs > entry.removeTs

(* Wrong: also removes an old grant that was granted again after its        *)
(* revocation.                                                              *)
PrunableRegranted(entry, now) ==
    /\ entry.addTs # Null /\ entry.removeTs # Null
    /\ physicalMs(entry.addTs) < now - Horizon
    /\ physicalMs(entry.removeTs) < now - Horizon

(* Wrong: one tick late. *)
PrunableLate(entry, now) ==
    /\ ~ isActive(entry)
    /\ entry.addTs # Null /\ entry.removeTs # Null
    /\ physicalMs(entry.addTs) + 1 < now - Horizon
    /\ physicalMs(entry.removeTs) + 1 < now - Horizon

(* Pruning removes an entry that is inactive, complete, and old on both     *)
(* sides.                                                                   *)
Prunable(entry, now) ==
    /\ ~ isActive(entry)
    /\ entry.addTs # Null /\ entry.removeTs # Null
    /\ physicalMs(entry.addTs) < now - Horizon
    /\ physicalMs(entry.removeTs) < now - Horizon

Prune(entry, now) == IF Prunable(entry, now) THEN NoEntry ELSE entry
==============================================================================
