----------------------------- MODULE Replication -----------------------------
(***************************************************************************)
(* The replicas of one authorization state.  Every node issues signed      *)
(* operations on the tuples it is the issuer of, stamped by its persisted  *)
(* clock; any operation may reach any node at any time, several times, in  *)
(* any order, or never (rfed and LXMF are fire-and-forget, sent boxes are  *)
(* replayed, paper messages are carried by hand).  Nodes prune on their    *)
(* own wall clocks, which are not synchronized and may be set back.        *)
(***************************************************************************)
EXTENDS StateVector, Sequences

CONSTANTS Node,         \* the replicas, each with its own signing identity
          Tuple,        \* the permissions (a Tuple Hash includes the issuer)
          IssuerOf,     \* the identity a tuple names as its issuer
          Time,         \* the readings of a wall clock
          MaxOps        \* bound: operations issued in a behaviour

ASSUME ReplicationAssumption ==
    /\ IssuerOf \in [Tuple -> Node]
    /\ Time \subseteq Nat /\ 0 \in Time
    /\ MaxOps \in Nat

VARIABLES wall,         \* wall[n]: what Date.now() returns at n
          clock,        \* clock[n]: the persisted HLC of n
          log,          \* every operation issued, in issue order
          sv,           \* sv[n][t]: the entry of tuple t in n's state vector
          seen,         \* history: the operations (indexes of log) n applied
          prunedAt      \* history: n's wall clock when it last pruned

vars == <<wall, clock, log, sv, seen, prunedAt>>

Operation == [tuple: Tuple, action: Action, hlc: Nat]

TypeOK ==
    /\ wall \in [Node -> Time]
    /\ clock \in [Node -> Clock]
    /\ log \in Seq(Operation)
    /\ sv \in [Node -> [Tuple -> Entry]]
    /\ seen \in [Node -> SUBSET (1 .. Len(log))]
    /\ prunedAt \in [Node -> Time]

Init ==
    /\ wall = [n \in Node |-> 0]
    /\ clock = [n \in Node |-> NewClock]
    /\ log = <<>>
    /\ sv = [n \in Node |-> [t \in Tuple |-> NoEntry]]
    /\ seen = [n \in Node |-> {}]
    /\ prunedAt = [n \in Node |-> 0]

(* Node n applies operation op, number i of the log, to its state vector. *)
ApplyAt(n, op, i) ==
    /\ sv' = [sv EXCEPT ![n][op.tuple] = Apply(@, op.action, op.hlc)]
    /\ seen' = [seen EXCEPT ![n] = @ \cup {i}]

(* `dacar grant` / `dacar revoke`: the clock is advanced and saved, the     *)
(* operation is stamped, and unless --no-apply it is applied locally first, *)
(* under the same intake checks as a remote one.  An exhausted clock fails  *)
(* the command before anything is written.                                  *)
Issue(n, t, a, noApply) ==
    LET c  == Advance(clock[n], wall[n])
        op == [tuple |-> t, action |-> a, hlc |-> HlcOf(c)]
    IN  /\ IssuerOf[t] = n
        /\ Len(log) < MaxOps
        /\ ~ Exhausted(c)
        /\ clock' = [clock EXCEPT ![n] = c]
        /\ log' = Append(log, op)
        /\ \/ /\ noApply
              /\ UNCHANGED <<sv, seen>>
           \/ /\ ~ noApply
              /\ Intake(op.hlc, wall[n])
              /\ ApplyAt(n, op, Len(log) + 1)
        /\ UNCHANGED <<wall, prunedAt>>

(* The local apply rejects the operation (its wall clock was set back by    *)
(* more than the future bound): the command fails, nothing leaves the node, *)
(* but the clock is already saved.                                          *)
IssueRejected(n, t) ==
    LET c == Advance(clock[n], wall[n])
    IN  /\ IssuerOf[t] = n
        /\ Len(log) < MaxOps
        /\ ~ Exhausted(c)
        /\ ~ Intake(HlcOf(c), wall[n])
        /\ clock' = [clock EXCEPT ![n] = c]
        /\ UNCHANGED <<wall, log, sv, seen, prunedAt>>

(* A verified operation reaches n; intake reads n's wall clock when the     *)
(* operation is applied, after its signature was checked.  One that fails   *)
(* verification or intake changes nothing.                                  *)
Ingest(n, i) ==
    /\ Intake(log[i].hlc, wall[n])
    /\ ApplyAt(n, log[i], i)
    /\ UNCHANGED <<wall, clock, log, prunedAt>>

(* `dacar prune`: one pass over every entry. *)
PruneAll(n) ==
    /\ sv' = [sv EXCEPT ![n] = [t \in Tuple |-> Prune(@[t], wall[n])]]
    /\ prunedAt' = [prunedAt EXCEPT ![n] = wall[n]]
    /\ UNCHANGED <<wall, clock, log, seen>>

(* Time passes at n, or its wall clock is corrected.  The one assumption on *)
(* wall clocks: none is set back to before the last time its node pruned.   *)
SetWall(n, now) ==
    /\ now >= prunedAt[n]
    /\ wall' = [wall EXCEPT ![n] = now]
    /\ UNCHANGED <<clock, log, sv, seen, prunedAt>>

Next ==
    \E n \in Node :
       \/ \E t \in Tuple, a \in Action, noApply \in BOOLEAN :
             Issue(n, t, a, noApply)
       \/ \E t \in Tuple : IssueRejected(n, t)
       \/ \E i \in 1 .. Len(log) : Ingest(n, i)
       \/ PruneAll(n)
       \/ \E now \in Time : SetWall(n, now)

Spec == Init /\ [][Next]_vars

------------------------------------------------------------------------------
(* What n was told about t: the operations on t it applied. *)
Told(n, t) == {i \in seen[n] : log[i].tuple = t}

(* The last decision n was told about t, in the order they were taken, is a *)
(* grant.                                                                   *)
LastToldGrants(n, t) ==
    \E i \in Told(n, t) :
       /\ log[i].action = Grant
       /\ \A j \in Told(n, t) : j <= i

(* A node allows exactly what the last of its issuer's decisions it applied *)
(* says, whatever the order, the duplicates and the pruning in between: a   *)
(* pruned revocation never lets an older grant back in (crdt.js apply,      *)
(* prune, _isActiveEntry with the clock of hlc.js now).                     *)
LastDecisionWins ==
    \A n \in Node, t \in Tuple : isActive(sv[n][t]) <=> LastToldGrants(n, t)

(* Two nodes that applied the same operations on a tuple agree on it, even  *)
(* if only one of them has pruned (crdt.js apply and prune).                *)
Convergence ==
    \A m, n \in Node, t \in Tuple :
       Told(m, t) = Told(n, t) => (isActive(sv[m][t]) <=> isActive(sv[n][t]))

(* Decisions of one issuer carry timestamps in the order they were taken,   *)
(* so a revocation always beats the grants issued before it, although the   *)
(* wall clock may have been set back in between (hlc.js now, dacar.js       *)
(* _issue).                                                                 *)
IssueOrder ==
    \A i, j \in 1 .. Len(log) :
       (i < j /\ IssuerOf[log[i].tuple] = IssuerOf[log[j].tuple])
          => log[i].hlc < log[j].hlc

(* The entry has not been touched within the horizon of n's last pruning. *)
OutlivedAt(n, entry) ==
    /\ physicalMs(entry.addTs) < prunedAt[n] - Horizon
    /\ physicalMs(entry.removeTs) < prunedAt[n] - Horizon

(* No grant and its revocation, both older than the horizon, survive a      *)
(* pruning, and none comes back afterwards (crdt.js prune, apply).          *)
PruningBoundsPairs ==
    \A n \in Node, t \in Tuple :
       LET e == sv[n][t] IN
       (~ isActive(e) /\ e.addTs # Null /\ e.removeTs # Null)
          => ~ OutlivedAt(n, e)

(* The replicas implement the abstract state: only decisions and deliveries *)
(* change what a node allows, and each does what it promises.  Pruning,     *)
(* time and the clocks are invisible (crdt.js, hlc.js).                     *)
Abstract == INSTANCE Decisions WITH
    Decision <- Action,
    Granted  <- Grant,
    decided  <- [i \in 1 .. Len(log) |->
                   [tuple |-> log[i].tuple, action |-> log[i].action]],
    told     <- seen,
    allowed  <- [n \in Node |-> {t \in Tuple : isActive(sv[n][t])}]

ImplementsDecisions == Abstract!Spec

------------------------------------------------------------------------------
(* The inductive invariant.  Its parts relate the entries, which pruning    *)
(* may have emptied, to the operations that went into them.                 *)

(* No issuer has stamped an operation its clock has not reached, and the    *)
(* saved clock can still be packed.                                         *)
ClockAhead ==
    /\ \A n \in Node : clock[n].logical < LogicalSize
    /\ \A i \in 1 .. Len(log) :
          log[i].hlc <= HlcOf(clock[IssuerOf[log[i].tuple]])

NotBeforePruning == \A n \in Node : prunedAt[n] <= wall[n]

(* A timestamp in the state vector is that of an operation the node applied. *)
TimestampsTold ==
    \A n \in Node, t \in Tuple :
       /\ sv[n][t].addTs # Null =>
             \E i \in Told(n, t) :
                log[i].action = Grant /\ log[i].hlc = sv[n][t].addTs
       /\ sv[n][t].removeTs # Null =>
             \E i \in Told(n, t) :
                log[i].action = Revoke /\ log[i].hlc = sv[n][t].removeTs

(* An applied grant that the entry no longer covers is old and was revoked. *)
GrantsCovered ==
    \A n \in Node, t \in Tuple : \A i \in Told(n, t) :
       log[i].action = Grant =>
          \/ log[i].hlc <= sv[n][t].addTs
          \/ /\ physicalMs(log[i].hlc) < prunedAt[n] - Horizon
             /\ \E j \in Told(n, t) :
                   log[j].action = Revoke /\ log[j].hlc >= log[i].hlc

(* An applied revocation that the entry no longer covers is old, and what   *)
(* the entry grants since is newer.                                         *)
RevokesCovered ==
    \A n \in Node, t \in Tuple : \A i \in Told(n, t) :
       log[i].action = Revoke =>
          \/ log[i].hlc <= sv[n][t].removeTs
          \/ /\ physicalMs(log[i].hlc) < prunedAt[n] - Horizon
             /\ sv[n][t].addTs = Null \/ sv[n][t].addTs > log[i].hlc

IInv ==
    /\ TypeOK
    /\ ClockAhead
    /\ IssueOrder
    /\ NotBeforePruning
    /\ TimestampsTold
    /\ GrantsCovered
    /\ RevokesCovered
    /\ PruningBoundsPairs
==============================================================================
