-------------------------- MODULE StateVectorProofs --------------------------
(***************************************************************************)
(* Facts about timestamps and entries, for every size of the counter and   *)
(* every horizon.                                                          *)
(***************************************************************************)
EXTENDS StateVector, TLAPS

(* Dividing by a positive number loses less than that number. *)
LEMMA DivBounds ==
    ASSUME NEW a \in Int, NEW d \in Nat \ {0}
    PROVE  /\ a \div d \in Int
           /\ d * (a \div d) <= a
           /\ a < d * (a \div d) + d
BY SMT

(* A later timestamp has a later or equal physical part (hlc.js unpackHlc). *)
LEMMA PhysicalMonotone ==
    ASSUME NEW a \in Int, NEW b \in Int, a <= b
    PROVE  physicalMs(a) <= physicalMs(b)
<1> DEFINE d == LogicalSize
           p == a \div d
           q == b \div d
<1>1. d \in Nat \ {0}
  BY LogicalSizeAssumption
<1>2. p \in Int /\ d * p <= a /\ a < d * p + d
  BY <1>1, DivBounds
<1>3. q \in Int /\ d * q <= b /\ b < d * q + d
  BY <1>1, DivBounds
<1>4. SUFFICES ASSUME p > q PROVE FALSE
  BY <1>2, <1>3 DEF physicalMs
<1>5. d * p >= d * (q + 1)
  BY <1>1, <1>2, <1>3, <1>4, SMT
<1>6. d * (q + 1) = d * q + d
  BY <1>1, <1>3, SMT
<1>7. QED
  BY <1>1, <1>2, <1>3, <1>5, <1>6, SMT

LEMMA PhysicalType ==
    ASSUME NEW a \in Int
    PROVE  physicalMs(a) \in Int
BY DivBounds, LogicalSizeAssumption DEF physicalMs

(* An older physical part makes an earlier timestamp. *)
LEMMA PhysicalOrders ==
    ASSUME NEW a \in Int, NEW b \in Int, physicalMs(a) < physicalMs(b)
    PROVE  a < b
BY PhysicalMonotone, PhysicalType

(* A clock that is not exhausted after a local event has moved on, whatever *)
(* the wall clock said (hlc.js now).                                        *)
LEMMA AdvanceExceeds ==
    ASSUME NEW c \in Clock, c.logical < LogicalSize, NEW phys \in Nat
    PROVE  /\ Advance(c, phys) \in Clock
           /\ HlcOf(c) \in Nat
           /\ HlcOf(Advance(c, phys)) \in Nat
           /\ HlcOf(c) < HlcOf(Advance(c, phys))
<1> DEFINE d == LogicalSize
           m == c.lastMs
           l == c.logical
<1>1. d \in Nat \ {0} /\ m \in Nat /\ l \in Nat /\ l < d
  BY LogicalSizeAssumption DEF Clock
<1>2. Advance(c, phys) \in Clock
  BY <1>1 DEF Advance, Clock
<1>3. HlcOf(c) = m * d + l /\ m * d \in Nat
  BY <1>1, SMT DEF HlcOf, packHlc
<1>4. CASE phys > m
  <2>1. HlcOf(Advance(c, phys)) = phys * d
    BY <1>1, <1>4 DEF Advance, HlcOf, packHlc
  <2>2. phys * d >= (m + 1) * d
    BY <1>1, <1>4, SMT
  <2>3. (m + 1) * d = m * d + d
    BY <1>1, SMT
  <2>4. phys * d \in Nat
    BY <1>1, SMT
  <2>5. QED
    BY <1>1, <1>2, <1>3, <2>1, <2>2, <2>3, <2>4, SMT
<1>5. CASE ~ (phys > m)
  <2>1. HlcOf(Advance(c, phys)) = m * d + (l + 1)
    BY <1>1, <1>5 DEF Advance, HlcOf, packHlc, Clock
  <2>2. QED
    BY <1>1, <1>2, <1>3, <2>1, SMT
<1>6. QED
  BY <1>4, <1>5

------------------------------------------------------------------------------
(* Entries form a join semilattice under merge, so state vectors may be     *)
(* merged in any order and grouping and any number of times (crdt.js        *)
(* merge).                                                                  *)
THEOREM MergeIsJoin ==
    ASSUME NEW a \in Entry, NEW b \in Entry, NEW c \in Entry
    PROVE  /\ Merge(a, b) \in Entry
           /\ Merge(a, a) = a
           /\ Merge(a, b) = Merge(b, a)
           /\ Merge(a, Merge(b, c)) = Merge(Merge(a, b), c)
<1> USE DEF Entry, Timestamp, Null, maxTs
<1>1. Merge(a, b) \in Entry
  BY DEF Merge
<1>2. Merge(a, a) = a
  BY DEF Merge
<1>3. Merge(a, b) = Merge(b, a)
  BY DEF Merge
<1>4. Merge(a, Merge(b, c)) = Merge(Merge(a, b), c)
  BY DEF Merge
<1>5. QED
  BY <1>1, <1>2, <1>3, <1>4

(* Applying an operation is merging the entry that holds only its           *)
(* timestamp: deltas and full state vectors converge to the same place      *)
(* (crdt.js apply, merge).                                                  *)
THEOREM ApplyIsMerge ==
    ASSUME NEW e \in Entry, NEW a \in Action, NEW hlc \in Nat
    PROVE  Apply(e, a, hlc) = Merge(e, Apply(NoEntry, a, hlc))
BY DEF Entry, Timestamp, Null, Action, Grant, Revoke, NoEntry, Apply, Merge,
       maxTs

(* Pruning never changes what an entry answers (crdt.js prune).             *)
THEOREM PruneKeepsAnswer ==
    ASSUME NEW e \in Entry, NEW now \in Int
    PROVE  isActive(Prune(e, now)) <=> isActive(e)
BY DEF Prune, Prunable, NoEntry, isActive
==============================================================================
